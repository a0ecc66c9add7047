------------------------ MODULE OFSPersistProofs ------------------------
(*************************************************************************)
(* What the image file says while the writes of a call are on their way, *)
(* and what fs_init finds there: the properties of OFSPersist.           *)
(*************************************************************************)
EXTENDS OFSCoreTreeProofs, OFSPersist

-----------------------------------------------------------------------------
(* The writes still to come, and what they will make of the image. *)

Writes == [region : {"blocks"}, at : BlockIndex, value : Block]
          \cup [region : {"free_bitmap"}, at : {0}, value : SUBSET BlockIndex]
          \cup [region : {"meta"}, at : {0}, value : [MetaIndex -> MetaEntry]]

\* The k-th write of t goes to region r.
Goes(t, k, r) == k \in DOMAIN t /\ t[k].region = r

\* The table m2 tells clients the same as m: only the blocks of directories may
\* differ.
SameTable(m, m2) == /\ Live(m2) = Live(m)
                    /\ \A i \in Live(m) : SameNode(m, m2, i)
                    /\ \A i \in FilesOf(m) : m2[i] = m[i]

\* Block b is in the chain of a file.
InFile(m, blk, b) == \E i \in FilesOf(m) : \E s \in Chains(blk, m[i].start_index) : b \in BlocksOf(s)
Marks(m, blk, used) == \A b \in BlockIndex : InFile(m, blk, b) => b \in used

\* The writes t make the blocks of the image, now old, those of the memory.
BlocksCome(t, old, blk) ==
  /\ \A k \in DOMAIN t : Goes(t, k, "blocks") =>
        \/ t[k].value = blk[t[k].at]
        \/ \E l \in DOMAIN t : l > k /\ Goes(t, l, "blocks") /\ t[l].at = t[k].at
  /\ \A b \in BlockIndex : \/ old[b] = blk[b]
                           \/ \E k \in DOMAIN t : Goes(t, k, "blocks") /\ t[k].at = b

\* They make its bitmap, now old, one that has the files' blocks.
BitmapComes(t, old, m, blk) ==
  /\ \A k \in DOMAIN t : Goes(t, k, "free_bitmap") => Marks(m, blk, t[k].value)
  /\ Marks(m, blk, old) \/ \E k \in DOMAIN t : Goes(t, k, "free_bitmap")

\* They make its table, now old, that of the memory, in one write.
TableComes(t, old, m) ==
  /\ \A k, l \in DOMAIN t : Goes(t, k, "meta") /\ Goes(t, l, "meta") => k = l
  /\ \A k \in DOMAIN t : Goes(t, k, "meta") => SameTable(m, t[k].value)
  /\ SameTable(m, old) \/ \E k \in DOMAIN t : Goes(t, k, "meta")

\* After the table no block of a file is written.
LateOutside(t, m, blk) ==
  \A k \in DOMAIN t :
     Goes(t, k, "blocks") /\ (\A l \in DOMAIN t : Goes(t, l, "meta") => l < k)
       => ~ InFile(m, blk, t[k].at)

\* Each file of table m has a sequence of blocks of its own, as long as its size
\* says, and each link of blk goes on along it or ends it.
Family(m, blk, ch) ==
  /\ \A i \in FilesOf(m) :
       /\ ch[i] \in BlockSeq /\ Len(ch[i]) = BlocksFor(m[i].total_size)
       /\ FirstOf(ch[i]) = m[i].start_index
       /\ \A n \in 1 .. Len(ch[i]) - 1 : blk[ch[i][n]].next \in {0, ch[i][n + 1]}
  /\ \A i, j \in FilesOf(m) : i # j => BlocksOf(ch[i]) \cap BlocksOf(ch[j]) = {}

\* The write w leaves it so.
Harmless(m, ch, w) ==
  w.region = "blocks" =>
     \A i \in FilesOf(m) : \A n \in 1 .. Len(ch[i]) - 1 :
        ch[i][n] = w.at => w.value.next \in {0, ch[i][n + 1]}

\* The writes up to the table leave the files the image has.
EarlyHarmless(t, m, ch) ==
  \A k, l \in DOMAIN t : Goes(t, k, "meta") /\ l < k => Harmless(m, ch, t[l])

TablePending(t) == \E k \in DOMAIN t : Goes(t, k, "meta")
FilesWhole(t, m, blk) == \E ch : Family(m, blk, ch) /\ EarlyHarmless(t, m, ch)

-----------------------------------------------------------------------------
(* One write reaches the image. *)

LEMMA NextWrite ==
  ASSUME NEW t \in Seq(Writes), t # <<>>
  PROVE  /\ Tail(t) \in Seq(Writes) /\ Head(t) = t[1] /\ t[1] \in Writes /\ 1 \in DOMAIN t
         /\ \A k : k \in DOMAIN Tail(t) <=> k \in Nat \ {0} /\ k + 1 \in DOMAIN t
         /\ \A k \in DOMAIN Tail(t) : Tail(t)[k] = t[k + 1] /\ k + 1 \in DOMAIN t
         /\ \A k \in DOMAIN t : k # 1 => k - 1 \in DOMAIN Tail(t) /\ Tail(t)[k - 1] = t[k]
  OBVIOUS

LEMMA WrittenIs ==
  ASSUME NEW v \in Vol, NEW w \in Writes
  PROVE  /\ Written(v, w) \in Vol
         /\ w.region \in {"blocks", "free_bitmap", "meta"}
         /\ w.region = "blocks" =>
              /\ Written(v, w).meta = v.meta /\ Written(v, w).free_bitmap = v.free_bitmap
              /\ w.at \in BlockIndex /\ Written(v, w).blocks[w.at] = w.value
              /\ \A b \in BlockIndex : b # w.at => Written(v, w).blocks[b] = v.blocks[b]
         /\ w.region = "free_bitmap" =>
              /\ Written(v, w).meta = v.meta /\ Written(v, w).blocks = v.blocks
              /\ Written(v, w).free_bitmap = w.value
         /\ w.region = "meta" =>
              /\ Written(v, w).blocks = v.blocks /\ Written(v, w).free_bitmap = v.free_bitmap
              /\ Written(v, w).meta = w.value
<1>1. CASE w.region = "blocks"
  <2>1. w.at \in BlockIndex /\ w.value \in Block
    BY <1>1 DEF Writes
  <2>2. Written(v, w) = [v EXCEPT !.blocks[w.at] = w.value]
    BY <1>1 DEF Written
  <2> QED
    BY <1>1, <2>1, <2>2 DEF Vol
<1>2. CASE w.region = "free_bitmap"
  <2>1. w.value \in SUBSET BlockIndex
    BY <1>2 DEF Writes
  <2>2. Written(v, w) = [v EXCEPT !.free_bitmap = w.value]
    BY <1>2 DEF Written
  <2> QED
    BY <1>2, <2>1, <2>2 DEF Vol
<1>3. CASE w.region = "meta"
  <2>1. w.value \in [MetaIndex -> MetaEntry]
    BY <1>3 DEF Writes
  <2>2. Written(v, w) = [v EXCEPT !.meta = w.value]
    BY <1>3 DEF Written
  <2> QED
    BY <1>3, <2>1, <2>2 DEF Vol
<1> QED
  BY <1>1, <1>2, <1>3 DEF Writes

\* The writes that come after the first of t, as positions of t.
LEMMA Later ==
  ASSUME NEW t \in Seq(Writes), t # <<>>
  PROVE  /\ \A k, r : Goes(Tail(t), k, r) => /\ Goes(t, k + 1, r) /\ Tail(t)[k] = t[k + 1]
                                             /\ k \in Nat \ {0}
         /\ \A k, r : Goes(t, k, r) => /\ k \in Nat \ {0}
                                       /\ k # 1 => /\ Goes(Tail(t), k - 1, r)
                                                   /\ Tail(t)[k - 1] = t[k]
         /\ \A r : t[1].region = r => Goes(t, 1, r)
<1>1. DOMAIN t = 1 .. Len(t)
  OBVIOUS
<1> QED
  BY <1>1, NextWrite DEF Goes

LEMMA BlocksComeOn ==
  ASSUME NEW t \in Seq(Writes), t # <<>>, NEW v \in Vol, NEW blk,
         BlocksCome(t, v.blocks, blk)
  PROVE  BlocksCome(Tail(t), Written(v, Head(t)).blocks, blk)
<1> DEFINE u == Tail(t)
           w == t[1]
           old == Written(v, w).blocks
<1>1. w \in Writes /\ Head(t) = w
  BY NextWrite
<1>2. /\ \A k, r : Goes(u, k, r) => Goes(t, k + 1, r) /\ u[k] = t[k + 1] /\ k \in Nat \ {0}
      /\ \A k, r : Goes(t, k, r) => /\ k \in Nat \ {0}
                                    /\ k # 1 => Goes(u, k - 1, r) /\ u[k - 1] = t[k]
      /\ \A r : w.region = r => Goes(t, 1, r)
      /\ \A k, r : Goes(t, k, r) => k \in DOMAIN t
      /\ \A k, r : Goes(u, k, r) => k \in DOMAIN u
  BY Later DEF Goes
<1>3. /\ w.region = "blocks" => /\ old[w.at] = w.value
                                /\ \A b \in BlockIndex : b # w.at => old[b] = v.blocks[b]
      /\ w.region # "blocks" => old = v.blocks
  BY <1>1, WrittenIs
<1> HIDE DEF u, w, old
<1>4. ASSUME NEW k, Goes(u, k, "blocks")
      PROVE  \/ u[k].value = blk[u[k].at]
             \/ \E l \in DOMAIN u : l > k /\ Goes(u, l, "blocks") /\ u[l].at = u[k].at
  <2>1. Goes(t, k + 1, "blocks") /\ u[k] = t[k + 1] /\ k \in Nat \ {0} /\ k + 1 \in DOMAIN t
    BY <1>2, <1>4
  <2>2. CASE \E l \in DOMAIN t : l > k + 1 /\ Goes(t, l, "blocks") /\ t[l].at = t[k + 1].at
    <3>1. PICK l \in DOMAIN t : l > k + 1 /\ Goes(t, l, "blocks") /\ t[l].at = t[k + 1].at
      BY <2>2
    <3>2. l \in Nat \ {0} /\ l # 1
      BY <1>2, <2>1, <3>1
    <3>3. Goes(u, l - 1, "blocks") /\ u[l - 1] = t[l] /\ l - 1 \in DOMAIN u
      BY <1>2, <3>1, <3>2
    <3>4. l - 1 > k
      BY <2>1, <3>1, <3>2
    <3> QED
      BY <2>1, <3>1, <3>3, <3>4
  <2> QED
    BY <2>1, <2>2 DEF BlocksCome
<1>5. ASSUME NEW b \in BlockIndex
      PROVE  old[b] = blk[b] \/ \E k \in DOMAIN u : Goes(u, k, "blocks") /\ u[k].at = b
  <2>1. ASSUME NEW k, Goes(t, k, "blocks"), t[k].at = b, k # 1
        PROVE  \E l \in DOMAIN u : Goes(u, l, "blocks") /\ u[l].at = b
    <3>1. Goes(u, k - 1, "blocks") /\ u[k - 1] = t[k] /\ k - 1 \in DOMAIN u
      BY <1>2, <2>1
    <3> QED
      BY <2>1, <3>1
  <2>2. CASE w.region = "blocks" /\ w.at = b
    <3>1. Goes(t, 1, "blocks") /\ t[1] = w /\ 1 \in DOMAIN t
      BY <1>2, <2>2 DEF w
    <3>2. CASE w.value = blk[b]
      BY <1>3, <2>2, <3>2
    <3>3. CASE w.value # blk[b]
      <4>1. PICK l \in DOMAIN t : l > 1 /\ Goes(t, l, "blocks") /\ t[l].at = b
        BY <2>2, <3>1, <3>3 DEF BlocksCome
      <4>2. l # 1
        BY <1>2, <4>1
      <4> QED
        BY <2>1, <4>1, <4>2
    <3> QED
      BY <3>2, <3>3
  <2>3. CASE ~(w.region = "blocks" /\ w.at = b)
    <3>1. old[b] = v.blocks[b]
      BY <1>3, <2>3
    <3>2. CASE \E k \in DOMAIN t : Goes(t, k, "blocks") /\ t[k].at = b
      <4>1. PICK k \in DOMAIN t : Goes(t, k, "blocks") /\ t[k].at = b
        BY <3>2
      <4>2. k # 1
        BY <2>3, <4>1 DEF Goes, w
      <4> QED
        BY <2>1, <4>1, <4>2
    <3> QED
      BY <3>1, <3>2 DEF BlocksCome
  <2> QED
    BY <2>2, <2>3
<1>6. BlocksCome(u, old, blk)
  BY <1>4, <1>5 DEF BlocksCome, Goes
<1> QED
  BY <1>1, <1>6 DEF u, old

LEMMA BitmapComesOn ==
  ASSUME NEW t \in Seq(Writes), t # <<>>, NEW v \in Vol, NEW m, NEW blk,
         BitmapComes(t, v.free_bitmap, m, blk)
  PROVE  BitmapComes(Tail(t), Written(v, Head(t)).free_bitmap, m, blk)
<1> DEFINE u == Tail(t)
           w == t[1]
           old == Written(v, w).free_bitmap
<1>1. w \in Writes /\ Head(t) = w
  BY NextWrite
<1>2. /\ \A k, r : Goes(u, k, r) => Goes(t, k + 1, r) /\ u[k] = t[k + 1] /\ k \in Nat \ {0}
      /\ \A k, r : Goes(t, k, r) => /\ k \in Nat \ {0}
                                    /\ k # 1 => Goes(u, k - 1, r) /\ u[k - 1] = t[k]
      /\ \A r : w.region = r => Goes(t, 1, r)
      /\ \A k, r : Goes(t, k, r) => k \in DOMAIN t
      /\ \A k, r : Goes(u, k, r) => k \in DOMAIN u
  BY Later DEF Goes
<1>3. /\ w.region = "free_bitmap" => old = w.value
      /\ w.region # "free_bitmap" => old = v.free_bitmap
  BY <1>1, WrittenIs
<1>4. t[1] = w
  OBVIOUS
<1> HIDE DEF u, w, old
<1>5. \A k \in DOMAIN u : Goes(u, k, "free_bitmap") => Marks(m, blk, u[k].value)
  BY <1>2 DEF BitmapComes
<1>6. Marks(m, blk, old) \/ \E k \in DOMAIN u : Goes(u, k, "free_bitmap")
  <2>1. CASE w.region = "free_bitmap"
    BY <1>2, <1>3, <1>4, <2>1 DEF BitmapComes
  <2>2. CASE w.region # "free_bitmap"
    <3>1. CASE \E k \in DOMAIN t : Goes(t, k, "free_bitmap")
      <4>1. PICK k \in DOMAIN t : Goes(t, k, "free_bitmap")
        BY <3>1
      <4>2. k # 1
        BY <1>4, <2>2, <4>1 DEF Goes
      <4> QED
        BY <1>2, <4>1, <4>2
    <3> QED
      BY <1>3, <2>2, <3>1 DEF BitmapComes
  <2> QED
    BY <2>1, <2>2
<1>7. BitmapComes(u, old, m, blk)
  BY <1>5, <1>6 DEF BitmapComes
<1> QED
  BY <1>1, <1>7 DEF u, old

LEMMA TableComesOn ==
  ASSUME NEW t \in Seq(Writes), t # <<>>, NEW v \in Vol, NEW m,
         TableComes(t, v.meta, m)
  PROVE  TableComes(Tail(t), Written(v, Head(t)).meta, m)
<1> DEFINE u == Tail(t)
           w == t[1]
           old == Written(v, w).meta
<1>1. w \in Writes /\ Head(t) = w
  BY NextWrite
<1>2. /\ \A k, r : Goes(u, k, r) => Goes(t, k + 1, r) /\ u[k] = t[k + 1] /\ k \in Nat \ {0}
      /\ \A k, r : Goes(t, k, r) => /\ k \in Nat \ {0}
                                    /\ k # 1 => Goes(u, k - 1, r) /\ u[k - 1] = t[k]
      /\ \A r : w.region = r => Goes(t, 1, r)
      /\ \A k, r : Goes(t, k, r) => k \in DOMAIN t
      /\ \A k, r : Goes(u, k, r) => k \in DOMAIN u
  BY Later DEF Goes
<1>3. /\ w.region = "meta" => old = w.value
      /\ w.region # "meta" => old = v.meta
  BY <1>1, WrittenIs
<1>4. t[1] = w
  OBVIOUS
<1> HIDE DEF u, w, old
<1>5. \A k \in DOMAIN u : Goes(u, k, "meta") => SameTable(m, u[k].value)
  BY <1>2 DEF TableComes
<1>6. SameTable(m, old) \/ \E k \in DOMAIN u : Goes(u, k, "meta")
  <2>1. CASE w.region = "meta"
    BY <1>2, <1>3, <1>4, <2>1 DEF TableComes
  <2>2. CASE w.region # "meta"
    <3>1. CASE \E k \in DOMAIN t : Goes(t, k, "meta")
      <4>1. PICK k \in DOMAIN t : Goes(t, k, "meta")
        BY <3>1
      <4>2. k # 1
        BY <1>4, <2>2, <4>1 DEF Goes
      <4> QED
        BY <1>2, <4>1, <4>2
    <3> QED
      BY <1>3, <2>2, <3>1 DEF TableComes
  <2> QED
    BY <2>1, <2>2
<1>7. \A k, l \in DOMAIN u : Goes(u, k, "meta") /\ Goes(u, l, "meta") => k = l
  <2> SUFFICES ASSUME NEW k, NEW l, Goes(u, k, "meta"), Goes(u, l, "meta") PROVE k = l
    OBVIOUS
  <2>1. k \in Nat /\ l \in Nat /\ Goes(t, k + 1, "meta") /\ Goes(t, l + 1, "meta")
        /\ k + 1 \in DOMAIN t /\ l + 1 \in DOMAIN t
    BY <1>2
  <2>2. k + 1 = l + 1
    BY <2>1 DEF TableComes
  <2> QED
    BY <2>1, <2>2
<1>8. TableComes(u, old, m)
  BY <1>5, <1>6, <1>7 DEF TableComes
<1> QED
  BY <1>1, <1>8 DEF u, old

LEMMA LateOutsideOn ==
  ASSUME NEW t \in Seq(Writes), t # <<>>, NEW m, NEW blk, LateOutside(t, m, blk)
  PROVE  LateOutside(Tail(t), m, blk)
<1> DEFINE u == Tail(t)
<1>1. /\ \A k, r : Goes(u, k, r) => Goes(t, k + 1, r) /\ u[k] = t[k + 1] /\ k \in Nat \ {0}
      /\ \A k, r : Goes(t, k, r) => /\ k \in Nat \ {0}
                                    /\ k # 1 => Goes(u, k - 1, r) /\ u[k - 1] = t[k]
      /\ \A k, r : Goes(t, k, r) => k \in DOMAIN t
      /\ \A k, r : Goes(u, k, r) => k \in DOMAIN u
  BY Later DEF Goes
<1> HIDE DEF u
<1>2. ASSUME NEW k, Goes(u, k, "blocks"), \A l \in DOMAIN u : Goes(u, l, "meta") => l < k
      PROVE  ~ InFile(m, blk, u[k].at)
  <2>1. Goes(t, k + 1, "blocks") /\ u[k] = t[k + 1] /\ k \in Nat \ {0} /\ k + 1 \in DOMAIN t
    BY <1>1, <1>2
  <2>2. ASSUME NEW l, Goes(t, l, "meta") PROVE l < k + 1
    <3>1. l \in Nat \ {0} /\ (l # 1 => Goes(u, l - 1, "meta") /\ l - 1 \in DOMAIN u)
      BY <1>1, <2>2
    <3>2. l # 1 => l - 1 < k
      BY <1>2, <3>1
    <3> QED
      BY <2>1, <3>1, <3>2
  <2> QED
    BY <2>1, <2>2 DEF LateOutside
<1>3. LateOutside(u, m, blk)
  BY <1>2 DEF LateOutside
<1> QED
  BY <1>3 DEF u

LEMMA FilesWholeOn ==
  ASSUME NEW t \in Seq(Writes), t # <<>>, NEW v \in Vol, NEW m, TableComes(t, v.meta, m),
         NEW ch, Family(v.meta, v.blocks, ch), EarlyHarmless(t, v.meta, ch),
         TablePending(Tail(t))
  PROVE  LET v2 == Written(v, Head(t)) IN
         /\ Head(t).region # "meta" /\ v2.meta = v.meta
         /\ Family(v2.meta, v2.blocks, ch) /\ EarlyHarmless(Tail(t), v2.meta, ch)
<1> DEFINE u == Tail(t)
           w == t[1]
           v2 == Written(v, w)
<1>1. w \in Writes /\ Head(t) = w /\ 1 \in DOMAIN t
  BY NextWrite
<1>2. /\ \A k, r : Goes(u, k, r) => Goes(t, k + 1, r) /\ u[k] = t[k + 1] /\ k \in Nat \ {0}
      /\ \A k \in DOMAIN u : k \in Nat \ {0} /\ u[k] = t[k + 1] /\ k + 1 \in DOMAIN t
      /\ \A k, r : Goes(t, k, r) => k \in DOMAIN t
      /\ \A k, r : Goes(u, k, r) => k \in DOMAIN u
      /\ \A r : w.region = r => Goes(t, 1, r)
  BY Later, NextWrite DEF Goes
<1>3. PICK k : Goes(u, k, "meta")
  BY DEF TablePending
<1>4. Goes(t, k + 1, "meta") /\ k \in Nat \ {0} /\ k + 1 \in DOMAIN t
  BY <1>2, <1>3
<1>5. w.region # "meta"
  <2> SUFFICES ASSUME w.region = "meta" PROVE FALSE
    OBVIOUS
  <2>1. Goes(t, 1, "meta")
    BY <1>2
  <2>2. k + 1 = 1
    BY <1>1, <1>4, <2>1 DEF TableComes
  <2> QED
    BY <1>4, <2>2
<1>6. Harmless(v.meta, ch, w)
  BY <1>1, <1>4 DEF EarlyHarmless
<1>7. /\ v2.meta = v.meta
      /\ w.region = "blocks" => /\ v2.blocks[w.at] = w.value
                                /\ \A b \in BlockIndex : b # w.at => v2.blocks[b] = v.blocks[b]
      /\ w.region # "blocks" => v2.blocks = v.blocks
  BY <1>1, <1>5, WrittenIs
<1> HIDE DEF u, w, v2
<1>8. Family(v.meta, v2.blocks, ch)
  <2> SUFFICES ASSUME NEW i \in FilesOf(v.meta), NEW n \in 1 .. Len(ch[i]) - 1
               PROVE  v2.blocks[ch[i][n]].next \in {0, ch[i][n + 1]}
    BY DEF Family
  <2>1. /\ ch[i] \in BlockSeq /\ v.blocks[ch[i][n]].next \in {0, ch[i][n + 1]}
    BY DEF Family
  <2>2. ch[i][n] \in BlockIndex
    <3>1. n \in 1 .. Len(ch[i])
      BY <2>1, BlockSeqType
    <3> QED
      BY <2>1, <3>1, BlockSeqType
  <2>3. CASE w.region = "blocks" /\ w.at = ch[i][n]
    BY <1>6, <1>7, <2>3 DEF Harmless
  <2>4. CASE ~(w.region = "blocks" /\ w.at = ch[i][n])
    BY <1>7, <2>1, <2>2, <2>4
  <2> QED
    BY <2>3, <2>4
<1>9. EarlyHarmless(u, v.meta, ch)
  <2> SUFFICES ASSUME NEW j \in DOMAIN u, NEW l \in DOMAIN u, Goes(u, j, "meta"), l < j
               PROVE  Harmless(v.meta, ch, u[l])
    BY DEF EarlyHarmless
  <2>1. /\ Goes(t, j + 1, "meta") /\ j + 1 \in DOMAIN t /\ l + 1 \in DOMAIN t
        /\ u[l] = t[l + 1] /\ l + 1 < j + 1
    BY <1>2
  <2> QED
    BY <2>1 DEF EarlyHarmless
<1> QED
  BY <1>1, <1>5, <1>7, <1>8, <1>9 DEF u, v2

-----------------------------------------------------------------------------
(* What a walk shows of such a file. *)

\* The walk of ShownOf, as a turn made after the n - 1 turns that showed before.
Turn(blk, start, n, before) ==
  IF n = 0 THEN <<>>
  ELSE LET cur == IF n = 1 THEN start
                  ELSE IF before = <<>> THEN 0 ELSE blk[before[Len(before)]].next
       IN  IF cur = 0 THEN before ELSE Append(before, cur)

Walks(f, blk, start, len) == f = [n \in 0 .. len |-> Turn(blk, start, n, f[n - 1])]

\* The links of blk go on along s or end it.
Along(blk, start, s) == /\ s \in BlockSeq /\ FirstOf(s) = start
                        /\ \A n \in 1 .. Len(s) - 1 : blk[s[n]].next \in {0, s[n + 1]}

LEMMA WalkExists ==
  ASSUME NEW blk, NEW start, NEW s, Along(blk, start, s), NEW len, len = Len(s)
  PROVE  \E f : Walks(f, blk, start, len)
<1>1. /\ s \in Seq(BlockIndex) /\ len \in Nat /\ DOMAIN s = 1 .. len
      /\ \A i \in 1 .. len : s[i] \in BlockIndex
  BY BlockSeqType DEF Along
<1>2. 0 \notin BlockIndex
  BY DEF BlockIndex
<1> DEFINE Stops(n) == n \in Nat \ {0} /\ (n >= len \/ blk[s[n]].next = 0)
<1>3. PICK cut \in Nat \ {0} : Stops(cut) /\ \A n \in Nat \ {0} : n < cut => ~Stops(n)
  <2> DEFINE S == {n \in Nat \ {0} : Stops(n)}
  <2>1. len + 1 \in S /\ S \in SUBSET Nat
    BY <1>1
  <2> HIDE DEF S
  <2>2. PICK c \in S : \A y \in S : c <= y
    BY <2>1, LeastExists
  <2> QED
    BY <2>2 DEF S
<1> DEFINE End(n) == IF n < cut THEN n ELSE cut
           f == [n \in 0 .. len |-> SubSeq(s, 1, End(n))]
<1>4. ASSUME NEW n \in 0 .. len
      PROVE  SubSeq(s, 1, End(n)) = Turn(blk, start, n, f[n - 1])
  <2>1. CASE n = 0
    <3>1. SubSeq(s, 1, 0) = <<>>
      BY <1>1
    <3> QED
      BY <1>3, <2>1, <3>1 DEF Turn
  <2>2. CASE n = 1
    <3>1. FirstOf(s) = s[1] /\ s[1] # 0 /\ start = s[1]
      BY <1>1, <1>2, <2>2 DEF FirstOf, Along
    <3>2. f[n - 1] = SubSeq(s, 1, 0) /\ SubSeq(s, 1, 0) = <<>>
      BY <1>1, <1>3, <2>2
    <3>3. End(n) = 1
      BY <1>3, <2>2
    <3>4. SubSeq(s, 1, 1) = Append(<<>>, s[1])
      <4>1. 1 <= len
        BY <2>2
      <4> HIDE DEF f, End
      <4>2. SubSeq(s, 1, 0 + 1) = Append(SubSeq(s, 1, 0), s[1])
        BY <1>1, <4>1
      <4>3. 0 + 1 = 1
        OBVIOUS
      <4> QED
        BY <3>2, <4>2, <4>3, Zenon
    <3> HIDE DEF f, End
    <3> QED
      BY <2>2, <3>1, <3>2, <3>3, <3>4 DEF Turn
  <2>3. CASE n > 1
    <3> DEFINE k == End(n - 1)
    <3>1. k \in 1 .. len /\ k <= n - 1 /\ f[n - 1] = SubSeq(s, 1, k) /\ k < len
      BY <1>1, <1>3, <2>3
    <3>2. /\ SubSeq(s, 1, k) # <<>> /\ Len(SubSeq(s, 1, k)) = k
          /\ SubSeq(s, 1, k)[k] = s[k]
      <4> HIDE DEF f, k
      <4>1. \A j \in 1 .. k : s[j] \in BlockIndex
        BY <1>1, <3>1
      <4>2. /\ Len(SubSeq(s, 1, k)) = IF 1 <= k THEN k - 1 + 1 ELSE 0
            /\ \A j \in 1 .. k - 1 + 1 : SubSeq(s, 1, k)[j] = s[1 + j - 1]
        BY <1>1, <3>1, <4>1, SubSeqProperties
      <4> QED
        BY <1>1, <3>1, <4>2
    <3>3. CASE n - 1 < cut
      <4>1. k = n - 1 /\ ~Stops(k) /\ End(n) = n
        BY <1>1, <1>3, <2>3, <3>3
      <4>2. blk[s[k]].next # 0
        BY <3>1, <4>1
      <4>3. blk[s[k]].next = s[k + 1]
        BY <1>1, <3>1, <4>2 DEF Along
      <4>4. SubSeq(s, 1, k + 1) = Append(SubSeq(s, 1, k), s[k + 1])
        BY <1>1, <3>1
      <4>5. End(n) = k + 1 /\ n # 0 /\ n # 1
        BY <2>3, <4>1
      <4> HIDE DEF f, End, k
      <4> QED
        BY <3>1, <3>2, <4>2, <4>3, <4>4, <4>5 DEF Turn
    <3>4. CASE n - 1 >= cut
      <4>1. k = cut /\ End(n) = cut /\ cut < len
        BY <1>1, <1>3, <2>3, <3>4
      <4>2. blk[s[k]].next = 0
        BY <1>1, <1>3, <4>1
      <4>3. End(n) = k /\ n # 0 /\ n # 1
        BY <2>3, <4>1
      <4> HIDE DEF f, End, k
      <4> QED
        BY <3>1, <3>2, <4>2, <4>3 DEF Turn
    <3>5. n - 1 < cut \/ n - 1 >= cut
      BY <1>1, <1>3
    <3> QED
      BY <3>3, <3>4, <3>5, Zenon
  <2>4. n = 0 \/ n = 1 \/ n > 1
    BY <1>1
  <2> QED
    BY <2>1, <2>2, <2>3, <2>4, Zenon
<1>5. f = [n \in 0 .. len |-> Turn(blk, start, n, f[n - 1])]
  <2> DEFINE T(n) == Turn(blk, start, n, f[n - 1])
             E(n) == SubSeq(s, 1, End(n))
  <2>1. \A n \in 0 .. len : E(n) = T(n)
    BY <1>4
  <2>2. f = [n \in 0 .. len |-> E(n)]
    OBVIOUS
  <2> HIDE DEF T, E, f
  <2>3. f = [n \in 0 .. len |-> T(n)]
    BY <2>1, <2>2
  <2> QED
    BY <2>3 DEF T
<1> QED
  BY <1>5, Zenon DEF Walks

\* Whatever the walk shows of such a file is of its blocks, in their places.
LEMMA WalkShows ==
  ASSUME NEW blk, NEW start, NEW s, Along(blk, start, s), NEW len, len = Len(s),
         NEW f, Walks(f, blk, start, len)
  PROVE  \A k \in DOMAIN f[len] : k \in DOMAIN s /\ f[len][k] = s[k]
<1>1. /\ s \in Seq(BlockIndex) /\ len \in Nat /\ DOMAIN s = 1 .. len
      /\ \A i \in 1 .. len : s[i] \in BlockIndex
  BY BlockSeqType DEF Along
<1> DEFINE Good(n) == /\ f[n] \in Seq(BlockIndex) /\ Len(f[n]) <= n
                      /\ \A k \in 1 .. Len(f[n]) : k \in 1 .. len /\ f[n][k] = s[k]
<1>2. ASSUME NEW n \in 0 .. len, n # 0 => Good(n - 1)
      PROVE  Good(n)
  <2>1. f[n] = Turn(blk, start, n, f[n - 1])
    <3> DEFINE T(x) == Turn(blk, start, x, f[x - 1])
    <3>1. f = [x \in 0 .. len |-> T(x)]
      BY DEF Walks
    <3> HIDE DEF T
    <3>2. f[n] = T(n)
      BY <3>1
    <3> QED
      BY <3>2 DEF T
  <2>2. CASE n = 0
    <3>1. f[n] = <<>>
      BY <2>1, <2>2 DEF Turn
    <3> SUFFICES /\ <<>> \in Seq(BlockIndex) /\ Len(<<>>) <= n
                 /\ \A k \in 1 .. Len(<<>>) : k \in 1 .. len /\ <<>>[k] = s[k]
      BY <3>1, Zenon
    <3> QED
      BY <2>2
  <2>3. CASE n # 0
    <3> DEFINE p == f[n - 1]
    <3>1. /\ p \in Seq(BlockIndex) /\ Len(p) <= n - 1 /\ Len(p) \in Nat
          /\ \A k \in 1 .. Len(p) : k \in 1 .. len /\ p[k] = s[k]
      BY <1>2, <2>3
    <3> HIDE DEF p
    <3>2. CASE f[n] = p
      <4> SUFFICES /\ p \in Seq(BlockIndex) /\ Len(p) <= n
                   /\ \A k \in 1 .. Len(p) : k \in 1 .. len /\ p[k] = s[k]
        BY <3>2, Zenon
      <4> QED
        BY <3>1
    <3>3. CASE f[n] = Append(p, s[Len(p) + 1]) /\ Len(p) + 1 \in 1 .. len
      <4> DEFINE q == Append(p, s[Len(p) + 1])
      <4>1. s[Len(p) + 1] \in BlockIndex
        BY <1>1, <3>3
      <4>2. /\ q \in Seq(BlockIndex) /\ Len(q) = Len(p) + 1
            /\ \A k \in 1 .. Len(p) : q[k] = p[k]
            /\ q[Len(p) + 1] = s[Len(p) + 1]
        BY <3>1, <4>1
      <4> HIDE DEF q
      <4>3. q \in Seq(BlockIndex) /\ Len(q) <= n
        BY <3>1, <4>2
      <4>4. ASSUME NEW k \in 1 .. Len(q) PROVE k \in 1 .. len /\ q[k] = s[k]
        <5>1. k \in 1 .. Len(p) \/ k = Len(p) + 1
          BY <3>1, <4>2
        <5> QED
          BY <3>1, <3>3, <4>2, <5>1
      <4>5. f[n] = q
        BY <3>3 DEF q
      <4> QED
        BY <4>3, <4>4, <4>5, Zenon
    <3>4. f[n] = p \/ (f[n] = Append(p, s[Len(p) + 1]) /\ Len(p) + 1 \in 1 .. len)
      <4>1. CASE n = 1
        <5>1. p = <<>> /\ Len(p) + 1 = 1
          BY <3>1, <4>1
        <5>2. f[n] = IF start = 0 THEN p ELSE Append(p, start)
          BY <2>1, <4>1 DEF Turn, p
        <5>3. start = s[1] /\ 1 \in 1 .. len
          BY <1>1, <4>1 DEF Along, FirstOf
        <5> QED
          BY <5>1, <5>2, <5>3
      <4>2. CASE n # 1 /\ p = <<>>
        BY <2>1, <2>3, <4>2 DEF Turn, p
      <4>3. CASE n # 1 /\ p # <<>>
        <5>1. Len(p) \in 1 .. len - 1
          BY <1>1, <3>1, <4>3
        <5>2. p[Len(p)] = s[Len(p)]
          BY <3>1, <5>1
        <5>3. blk[s[Len(p)]].next \in {0, s[Len(p) + 1]}
          BY <1>1, <5>1 DEF Along
        <5>4. f[n] = IF blk[p[Len(p)]].next = 0 THEN p ELSE Append(p, blk[p[Len(p)]].next)
          BY <2>1, <2>3, <4>3 DEF Turn, p
        <5>5. Len(p) + 1 \in 1 .. len
          BY <1>1, <5>1
        <5> QED
          BY <5>2, <5>3, <5>4, <5>5
      <4> QED
        BY <4>1, <4>2, <4>3
    <3> QED
      BY <3>2, <3>3, <3>4
  <2> QED
    BY <2>2, <2>3
<1>3. \A n \in 0 .. len : Good(n)
  <2> HIDE DEF Good
  <2> DEFINE S == {n \in 0 .. len : ~Good(n)}
  <2> SUFFICES ASSUME S # {} PROVE FALSE
    OBVIOUS
  <2>1. S \in SUBSET Nat
    BY <1>1
  <2>2. PICK n \in S : \A y \in S : n <= y
    BY <2>1, LeastExists, Zenon
  <2>3. n \in 0 .. len /\ ~Good(n)
    OBVIOUS
  <2>4. n # 0 => n - 1 \in 0 .. len /\ n - 1 \notin S
    BY <1>1, <2>2, <2>3
  <2>5. n # 0 => Good(n - 1)
    BY <2>4
  <2> QED
    BY <1>2, <2>3, <2>5
<1>4. Good(len)
  <2> HIDE DEF Good
  <2> QED
    BY <1>1, <1>3
<1> QED
  BY <1>1, <1>4

LEMMA ShownPrefix ==
  ASSUME NEW v, NEW ch, Family(v.meta, v.blocks, ch), NEW i \in FilesOf(v.meta)
  PROVE  \A k \in DOMAIN ShownOf(v, i) : k \in DOMAIN ch[i] /\ ShownOf(v, i)[k] = ch[i][k]
<1> DEFINE len == BlocksFor(v.meta[i].total_size)
           start == v.meta[i].start_index
           walk == CHOOSE walk : walk = [n \in 0 .. len |-> Turn(v.blocks, start, n, walk[n - 1])]
<1>1. Along(v.blocks, start, ch[i]) /\ len = Len(ch[i])
  BY DEF Along, Family
<1>2. ShownOf(v, i) = walk[len]
  BY Zenon DEF ShownOf, Turn
<1>3. Walks(walk, v.blocks, start, len)
  <2>1. \E f : Walks(f, v.blocks, start, len)
    BY <1>1, WalkExists
  <2> QED
    BY <2>1, Zenon DEF Walks
<1> HIDE DEF walk, len, start
<1>4. \A k \in DOMAIN walk[len] : k \in DOMAIN ch[i] /\ walk[len][k] = ch[i][k]
  BY <1>1, <1>3, WalkShows
<1> QED
  BY <1>2, <1>4

\* So no block is shown twice.
LEMMA FamilyShows ==
  ASSUME NEW ch, Family(image.meta, image.blocks, ch)
  PROVE  NoFileShowsAnother
<1> SUFFICES ASSUME NEW i \in FilesOf(image.meta), NEW j \in FilesOf(image.meta),
                    NEW k \in DOMAIN ShownOf(image, i), NEW l \in DOMAIN ShownOf(image, j),
                    ShownOf(image, i)[k] = ShownOf(image, j)[l]
             PROVE  i = j /\ k = l
  BY Zenon DEF NoFileShowsAnother
<1>1. /\ k \in DOMAIN ch[i] /\ ShownOf(image, i)[k] = ch[i][k]
      /\ l \in DOMAIN ch[j] /\ ShownOf(image, j)[l] = ch[j][l]
  BY ShownPrefix
<1>2. ch[i][k] \in BlocksOf(ch[i]) /\ ch[i][k] \in BlocksOf(ch[j])
  BY <1>1 DEF BlocksOf
<1>3. i = j
  BY <1>2 DEF Family
<1>4. ch[i] \in BlockSeq
  BY DEF Family
<1> QED
  BY <1>1, <1>3, <1>4 DEF BlockSeq

-----------------------------------------------------------------------------
(* The chains of the files in the memory. *)

FileChains == [i \in FilesOf(meta) |-> CHOOSE s \in ChainOfEntry(i) : TRUE]

LEMMA MemoryChains ==
  ASSUME Inv, Shape
  PROVE  /\ \A i \in FilesOf(meta) :
              /\ i \in Live(meta) /\ FileChains[i] \in ChainOfEntry(i) /\ FileChains[i] \in BlockSeq
              /\ Len(FileChains[i]) = BlocksFor(meta[i].total_size)
              /\ FirstOf(FileChains[i]) = meta[i].start_index
              /\ \A n \in 1 .. Len(FileChains[i]) - 1 :
                    blocks[FileChains[i][n]].next = FileChains[i][n + 1]
              /\ \A s \in ChainOfEntry(i) : s = FileChains[i]
         /\ \A i, j \in FilesOf(meta) : i # j =>
               BlocksOf(FileChains[i]) \cap BlocksOf(FileChains[j]) = {}
<1>1. /\ meta \in [MetaIndex -> MetaEntry] /\ blocks \in [BlockIndex -> Block]
      /\ SizesFit(meta, blocks) /\ BlocksOwnedOnce
  BY InvOwnedOnce DEF Inv, TypeOK, Shape, Accounted
<1>2. ASSUME NEW i \in FilesOf(meta)
      PROVE  /\ i \in Live(meta) /\ FileChains[i] \in ChainOfEntry(i) /\ FileChains[i] \in BlockSeq
             /\ Len(FileChains[i]) = BlocksFor(meta[i].total_size)
             /\ FirstOf(FileChains[i]) = meta[i].start_index
             /\ \A n \in 1 .. Len(FileChains[i]) - 1 :
                   blocks[FileChains[i][n]].next = FileChains[i][n + 1]
             /\ \A s \in ChainOfEntry(i) : s = FileChains[i]
  <2>1. i \in Live(meta) /\ meta[i].type = FILE /\ i \in MetaIndex
    BY DEF FilesOf, Live
  <2>2. meta[i].start_index \in 0 .. NB
    BY <1>1, <2>1 DEF MetaEntry
  <2>3. PICK s \in ChainOfEntry(i) : Len(s) = BlocksFor(meta[i].total_size)
    BY <1>1, <2>1 DEF SizesFit, ChainOfEntry
  <2>4. \A t \in ChainOfEntry(i) : t = s
    BY <1>1, <2>2, ChainUnique DEF ChainOfEntry
  <2>5. FileChains[i] = s
    <3>1. FileChains[i] = CHOOSE t \in ChainOfEntry(i) : TRUE
      BY DEF FileChains
    <3> QED
      BY <2>4, <3>1
  <2>6. s \in BlockSeq /\ FirstOf(s) = meta[i].start_index
        /\ \A n \in DOMAIN s : blocks[s[n]].next = NextIn(s, n)
    BY DEF ChainOfEntry, Chains
  <2>7. \A n \in 1 .. Len(s) - 1 : blocks[s[n]].next = s[n + 1]
    <3>1. DOMAIN s = 1 .. Len(s) /\ Len(s) \in Nat
      BY <2>6, BlockSeqType
    <3> QED
      BY <2>6, <3>1 DEF NextIn
  <2> QED
    BY <2>1, <2>3, <2>4, <2>5, <2>6, <2>7
<1>3. ASSUME NEW i \in FilesOf(meta), NEW j \in FilesOf(meta), i # j
      PROVE  BlocksOf(FileChains[i]) \cap BlocksOf(FileChains[j]) = {}
  BY <1>1, <1>2, <1>3 DEF BlocksOwnedOnce
<1> QED
  BY <1>2, <1>3

LEMMA InFileIs ==
  ASSUME Inv, Shape, NEW b
  PROVE  InFile(meta, blocks, b) <=> \E i \in FilesOf(meta) : b \in BlocksOf(FileChains[i])
  BY MemoryChains DEF InFile, ChainOfEntry

\* A file's block is marked and no directory's.
LEMMA InFileUsed ==
  ASSUME Inv, NEW b, InFile(meta, blocks, b)
  PROVE  b \in free_bitmap /\ \A d \in Live(meta) : meta[d].type = DIR => meta[d].start_index # b
<1>1. PICK i \in FilesOf(meta) : \E s \in Chains(blocks, meta[i].start_index) : b \in BlocksOf(s)
  BY DEF InFile
<1>2. PICK s \in Chains(blocks, meta[i].start_index) : b \in BlocksOf(s)
  BY <1>1
<1>3. i \in Live(meta) /\ meta[i].type = FILE /\ i \in MetaIndex
  BY DEF FilesOf, Live
<1>4. /\ meta \in [MetaIndex -> MetaEntry] /\ free_bitmap \in SUBSET BlockIndex
      /\ blocks \in [BlockIndex -> Block] /\ WellLinked(meta, free_bitmap, blocks)
  BY DEF Inv, TypeOK
<1>5. Owns(meta, free_bitmap, blocks, i, s)
  BY <1>2, <1>3, <1>4, ChainOwned
<1>6. PICK k \in DOMAIN s : b = s[k]
  BY <1>2 DEF BlocksOf
<1>7. DOMAIN s = 1 .. Len(s)
  BY BlockSeqType DEF Chains
<1> QED
  BY <1>3, <1>5, <1>6, <1>7 DEF Owns, FILE, DIR

LEMMA SameFiles ==
  ASSUME NEW m, NEW m2, SameTable(m, m2)
  PROVE  FilesOf(m2) = FilesOf(m)
  BY DEF SameTable, FilesOf, SameNode

\* An image with the table and the files' blocks of the memory has its files.
LEMMA MemoryFamily ==
  ASSUME Inv, Shape, NEW m, NEW blk, SameTable(meta, m),
         \A b \in BlockIndex : InFile(meta, blocks, b) => blk[b] = blocks[b]
  PROVE  Family(m, blk, FileChains)
<1>1. /\ FilesOf(m) = FilesOf(meta)
      /\ \A i \in FilesOf(meta) : m[i] = meta[i]
  BY SameFiles DEF SameTable
<1>2. ASSUME NEW i \in FilesOf(meta), NEW n \in 1 .. Len(FileChains[i]) - 1
      PROVE  blk[FileChains[i][n]].next = FileChains[i][n + 1]
  <2>1. FileChains[i] \in BlockSeq
    BY MemoryChains
  <2>2. n \in DOMAIN FileChains[i] /\ FileChains[i][n] \in BlockIndex
    <3>1. n \in 1 .. Len(FileChains[i])
      BY <2>1, BlockSeqType
    <3> QED
      BY <2>1, <3>1, BlockSeqType
  <2>3. InFile(meta, blocks, FileChains[i][n])
    BY <2>2, InFileIs DEF BlocksOf
  <2> QED
    BY <2>2, <2>3, MemoryChains
<1> QED
  BY <1>1, <1>2, MemoryChains DEF Family

-----------------------------------------------------------------------------
(* The tree the image holds. *)

\* The tree u is t after one operation of OFSTree, or t.
Vacancy(t, p) == /\ p # <<>> /\ p \notin DOMAIN t
                 /\ SubSeq(p, 1, Len(p) - 1) \in DOMAIN t /\ t[SubSeq(p, 1, Len(p) - 1)].dir
Spots(t)      == {Append(p, n) : p \in DOMAIN t, n \in Name}
Added(t, p, n) == [q \in DOMAIN t \cup {p} |-> IF q = p THEN n ELSE t[q]]

OneOperation(t, u) ==
  \/ \E p \in Spots(t), size \in Size : Vacancy(t, p) /\ u = Added(t, p, [dir |-> FALSE, size |-> size])
  \/ \E p \in Spots(t) : Vacancy(t, p) /\ u = Added(t, p, [dir |-> TRUE, size |-> 0])
  \/ \E p \in DOMAIN t : /\ p \in DOMAIN t /\ p # <<>>
                         /\ {q \in DOMAIN t : q # <<>> /\ SubSeq(q, 1, Len(q) - 1) = p} = {}
                         /\ u = [q \in DOMAIN t \ {p} |-> t[q]]
  \/ \E p \in DOMAIN t, size \in Size : /\ p \in DOMAIN t /\ ~t[p].dir
                                        /\ u = [t EXCEPT ![p].size = size]
  \/ \E p \in DOMAIN t, q \in Spots(t) :
        /\ p \in DOMAIN t /\ ~t[p].dir /\ Vacancy(t, q)
        /\ u = [x \in (DOMAIN t \ {p}) \cup {q} |-> IF x = q THEN t[p] ELSE t[x]]

LEMMA TreeOperation == Tree!Next => OneOperation(Abs, Abs')
<1>1. ASSUME NEW p PROVE Tree!Vacant(p) <=> Vacancy(Abs, p)
  BY DEF Tree!Vacant, Tree!Parent, Vacancy, Abs, TreeOf, NodeOf
<1>2. Tree!Places = Spots(Abs)
  BY DEF Tree!Places, Spots, Abs, TreeOf, NodeOf
<1>3. ASSUME NEW p, NEW size
      PROVE  Tree!MakeFile(p, size)
             <=> Vacancy(Abs, p) /\ Abs' = Added(Abs, p, [dir |-> FALSE, size |-> size])
  <2>1. Tree!MakeFile(p, size)
        <=> Tree!Vacant(p) /\ Abs' = Added(Abs, p, [dir |-> FALSE, size |-> size])
    BY DEF Tree!MakeFile, Tree!With, Tree!File, Added, Abs, TreeOf, NodeOf
  <2> QED
    BY <1>1, <2>1
<1>4. ASSUME NEW p
      PROVE  Tree!MakeFolder(p)
             <=> Vacancy(Abs, p) /\ Abs' = Added(Abs, p, [dir |-> TRUE, size |-> 0])
  <2>1. Tree!MakeFolder(p)
        <=> Tree!Vacant(p) /\ Abs' = Added(Abs, p, [dir |-> TRUE, size |-> 0])
    BY DEF Tree!MakeFolder, Tree!With, Tree!Folder, Added, Abs, TreeOf, NodeOf
  <2> QED
    BY <1>1, <2>1
<1>5. ASSUME NEW p
      PROVE  Tree!Remove(p)
             <=> /\ p \in DOMAIN Abs /\ p # <<>>
                 /\ {q \in DOMAIN Abs : q # <<>> /\ SubSeq(q, 1, Len(q) - 1) = p} = {}
                 /\ Abs' = [q \in DOMAIN Abs \ {p} |-> Abs[q]]
  BY DEF Tree!Remove, Tree!Children, Tree!Parent, Tree!Without, Abs, TreeOf, NodeOf
<1>6. ASSUME NEW p, NEW size
      PROVE  Tree!Resize(p, size)
             <=> /\ p \in DOMAIN Abs /\ ~Abs[p].dir
                 /\ Abs' = [Abs EXCEPT ![p].size = size]
  BY DEF Tree!Resize, Abs, TreeOf, NodeOf
<1>7. ASSUME NEW p, NEW q
      PROVE  Tree!Move(p, q)
             <=> /\ p \in DOMAIN Abs /\ ~Abs[p].dir /\ Vacancy(Abs, q)
                 /\ Abs' = [x \in (DOMAIN Abs \ {p}) \cup {q} |-> IF x = q THEN Abs[p] ELSE Abs[x]]
  <2>1. Tree!Move(p, q)
        <=> /\ p \in DOMAIN Abs /\ ~Abs[p].dir /\ Tree!Vacant(q)
            /\ Abs' = [x \in (DOMAIN Abs \ {p}) \cup {q} |-> IF x = q THEN Abs[p] ELSE Abs[x]]
    BY DEF Tree!Move, Abs, TreeOf, NodeOf
  <2> QED
    BY <1>1, <2>1
<1> SUFFICES ASSUME Tree!Next PROVE OneOperation(Abs, Abs')
  OBVIOUS
<1>8. CASE \E p \in Tree!Places, size \in Size : Tree!MakeFile(p, size)
  BY <1>2, <1>3, <1>8, Zenon DEF OneOperation
<1>9. CASE \E p \in Tree!Places : Tree!MakeFolder(p)
  BY <1>2, <1>4, <1>9, Zenon DEF OneOperation
<1>10. CASE \E p \in DOMAIN Abs : Tree!Remove(p)
  BY <1>2, <1>5, <1>10, Zenon DEF OneOperation
<1>11. CASE \E p \in DOMAIN Abs, size \in Size : Tree!Resize(p, size)
  BY <1>2, <1>6, <1>11, Zenon DEF OneOperation
<1>12. CASE \E p \in DOMAIN Abs, q \in Tree!Places : Tree!Move(p, q)
  BY <1>2, <1>7, <1>12, Zenon DEF OneOperation
<1> QED
  BY <1>8, <1>9, <1>10, <1>11, <1>12 DEF Tree!Next, Abs, TreeOf, NodeOf

LEMMA DurableOperation == OneOperation(ImageTree, ImageTree') => Durable!Next
<1>1. ASSUME NEW p PROVE Durable!Vacant(p) <=> Vacancy(ImageTree, p)
  BY DEF Durable!Vacant, Durable!Parent, Vacancy
<1>2. Durable!Places = Spots(ImageTree)
  BY DEF Durable!Places, Spots
<1>3. ASSUME NEW p, NEW size
      PROVE  Durable!MakeFile(p, size)
             <=> Vacancy(ImageTree, p) /\ ImageTree' = Added(ImageTree, p, [dir |-> FALSE, size |-> size])
  <2>1. Durable!MakeFile(p, size)
        <=> Durable!Vacant(p) /\ ImageTree' = Added(ImageTree, p, [dir |-> FALSE, size |-> size])
    BY DEF Durable!MakeFile, Durable!With, Durable!File, Added
  <2> QED
    BY <1>1, <2>1
<1>4. ASSUME NEW p
      PROVE  Durable!MakeFolder(p)
             <=> Vacancy(ImageTree, p) /\ ImageTree' = Added(ImageTree, p, [dir |-> TRUE, size |-> 0])
  <2>1. Durable!MakeFolder(p)
        <=> Durable!Vacant(p) /\ ImageTree' = Added(ImageTree, p, [dir |-> TRUE, size |-> 0])
    BY DEF Durable!MakeFolder, Durable!With, Durable!Folder, Added
  <2> QED
    BY <1>1, <2>1
<1>5. ASSUME NEW p
      PROVE  Durable!Remove(p)
             <=> /\ p \in DOMAIN ImageTree /\ p # <<>>
                 /\ {q \in DOMAIN ImageTree : q # <<>> /\ SubSeq(q, 1, Len(q) - 1) = p} = {}
                 /\ ImageTree' = [q \in DOMAIN ImageTree \ {p} |-> ImageTree[q]]
  BY DEF Durable!Remove, Durable!Children, Durable!Parent, Durable!Without
<1>6. ASSUME NEW p, NEW size
      PROVE  Durable!Resize(p, size)
             <=> /\ p \in DOMAIN ImageTree /\ ~ImageTree[p].dir
                 /\ ImageTree' = [ImageTree EXCEPT ![p].size = size]
  BY DEF Durable!Resize
<1>7. ASSUME NEW p, NEW q
      PROVE  Durable!Move(p, q)
             <=> /\ p \in DOMAIN ImageTree /\ ~ImageTree[p].dir /\ Vacancy(ImageTree, q)
                 /\ ImageTree' = [x \in (DOMAIN ImageTree \ {p}) \cup {q} |-> IF x = q THEN ImageTree[p] ELSE ImageTree[x]]
  <2>1. Durable!Move(p, q)
        <=> /\ p \in DOMAIN ImageTree /\ ~ImageTree[p].dir /\ Durable!Vacant(q)
            /\ ImageTree' = [x \in (DOMAIN ImageTree \ {p}) \cup {q} |-> IF x = q THEN ImageTree[p] ELSE ImageTree[x]]
    BY DEF Durable!Move
  <2> QED
    BY <1>1, <2>1
<1> SUFFICES ASSUME OneOperation(ImageTree, ImageTree') PROVE Durable!Next
  OBVIOUS
<1>8. CASE \E p \in Spots(ImageTree), size \in Size :
           Vacancy(ImageTree, p) /\ ImageTree' = Added(ImageTree, p, [dir |-> FALSE, size |-> size])
  <2>1. \E p \in Durable!Places, size \in Size : Durable!MakeFile(p, size)
    BY <1>2, <1>3, <1>8, Zenon
  <2> QED
    BY <2>1 DEF Durable!Next
<1>9. CASE \E p \in Spots(ImageTree) :
           Vacancy(ImageTree, p) /\ ImageTree' = Added(ImageTree, p, [dir |-> TRUE, size |-> 0])
  <2>1. \E p \in Durable!Places : Durable!MakeFolder(p)
    BY <1>2, <1>4, <1>9, Zenon
  <2> QED
    BY <2>1 DEF Durable!Next
<1>10. CASE \E p \in DOMAIN ImageTree :
           /\ p \in DOMAIN ImageTree /\ p # <<>>
           /\ {q \in DOMAIN ImageTree : q # <<>> /\ SubSeq(q, 1, Len(q) - 1) = p} = {}
           /\ ImageTree' = [q \in DOMAIN ImageTree \ {p} |-> ImageTree[q]]
  <2>1. \E p \in DOMAIN ImageTree : Durable!Remove(p)
    BY <1>2, <1>5, <1>10, Zenon
  <2> QED
    BY <2>1 DEF Durable!Next
<1>11. CASE \E p \in DOMAIN ImageTree, size \in Size :
           /\ p \in DOMAIN ImageTree /\ ~ImageTree[p].dir
           /\ ImageTree' = [ImageTree EXCEPT ![p].size = size]
  <2>1. \E p \in DOMAIN ImageTree, size \in Size : Durable!Resize(p, size)
    BY <1>2, <1>6, <1>11, Zenon
  <2> QED
    BY <2>1 DEF Durable!Next
<1>12. CASE \E p \in DOMAIN ImageTree, q \in Spots(ImageTree) :
           /\ p \in DOMAIN ImageTree /\ ~ImageTree[p].dir /\ Vacancy(ImageTree, q)
           /\ ImageTree' = [x \in (DOMAIN ImageTree \ {p}) \cup {q} |-> IF x = q THEN ImageTree[p] ELSE ImageTree[x]]
  <2>1. \E p \in DOMAIN ImageTree, q \in Durable!Places : Durable!Move(p, q)
    BY <1>2, <1>7, <1>12, Zenon
  <2> QED
    BY <2>1 DEF Durable!Next
<1> QED
  BY <1>8, <1>9, <1>10, <1>11, <1>12, Zenon DEF OneOperation

LEMMA ImageTreeIs == ImageTree = TreeOf(image.meta, rebuild_path_index(image.meta))
  BY Zenon DEF ImageTree, TreeOf, NodeOf

\* A table that tells clients the same holds the same tree.
LEMMA SameTableTree ==
  ASSUME NEW m, NEW m2, NEW g, m2 \in [MetaIndex -> MetaEntry], PathsMatch(m, g), SameTable(m, m2)
  PROVE  PathsMatch(m2, g) /\ rebuild_path_index(m2) = g /\ TreeOf(m2, g) = TreeOf(m, g)
<1>1. /\ Live(m2) = Live(m) /\ \A i \in Live(m) : SameNode(m, m2, i)
  BY DEF SameTable
<1>2. \A p \in DOMAIN g : g[p] \in Live(m)
  BY DEF PathsMatch
<1>3. PathsMatch(m2, g)
  <2>1. \A p \in DOMAIN g : m2[g[p]].parent = m[g[p]].parent /\ m2[g[p]].name = m[g[p]].name
    BY <1>1, <1>2 DEF SameNode
  <2> QED
    BY <1>1, <2>1 DEF PathsMatch
<1>4. rebuild_path_index(m2) = g
  BY <1>3, RebuildIs
<1>5. TreeOf(m2, g) = TreeOf(m, g)
  <2>1. /\ TreeOf(m, g) = [t \in DOMAIN TreeOf(m, g) |-> TreeOf(m, g)[t]]
        /\ \A t : t \in DOMAIN TreeOf(m, g) <=> \E p \in DOMAIN g : p.toks = t
        /\ \A p \in DOMAIN g : TreeOf(m, g)[p.toks] = NodeOf(m[g[p]])
    BY TreeOfIs
  <2>2. /\ TreeOf(m2, g) = [t \in DOMAIN TreeOf(m2, g) |-> TreeOf(m2, g)[t]]
        /\ \A t : t \in DOMAIN TreeOf(m2, g) <=> \E p \in DOMAIN g : p.toks = t
        /\ \A p \in DOMAIN g : TreeOf(m2, g)[p.toks] = NodeOf(m2[g[p]])
    BY <1>3, TreeOfIs
  <2>3. \A p \in DOMAIN g : NodeOf(m2[g[p]]) = NodeOf(m[g[p]])
    BY <1>1, <1>2 DEF SameNode, NodeOf
  <2>4. DOMAIN TreeOf(m2, g) = DOMAIN TreeOf(m, g)
    BY <2>1, <2>2
  <2>5. \A t \in DOMAIN TreeOf(m, g) : TreeOf(m2, g)[t] = TreeOf(m, g)[t]
    BY <2>1, <2>2, <2>3
  <2> QED
    BY <2>1, <2>2, <2>4, <2>5
<1> QED
  BY <1>3, <1>4, <1>5

-----------------------------------------------------------------------------
(* The invariant of a process that is up. *)

UpInv ==
  /\ TreeInv
  /\ todo \in Seq(Writes) /\ image \in Vol
  /\ BlocksCome(todo, image.blocks, blocks)
  /\ BitmapComes(todo, image.free_bitmap, meta, blocks)
  /\ TableComes(todo, image.meta, meta)
  /\ LateOutside(todo, meta, blocks)
  /\ TablePending(todo) => /\ FilesWhole(todo, image.meta, image.blocks)
                           /\ ImageTree = Abs \/ OneOperation(ImageTree, Abs)

LEMMA MarkedFiles ==
  Inv => \A b : InFile(meta, blocks, b) =>
           b \in free_bitmap /\ \A d \in Live(meta) : meta[d].type = DIR => meta[d].start_index # b
  BY InFileUsed

LEMMA MarkedFilesNext ==
  Inv' => \A b : InFile(meta', blocks', b) =>
            b \in free_bitmap' /\ \A d \in Live(meta') : meta'[d].type = DIR => meta'[d].start_index # b
<1>1. (Inv => \A b : InFile(meta, blocks, b) =>
           b \in free_bitmap /\ \A d \in Live(meta) : meta[d].type = DIR => meta[d].start_index # b)'
  BY MarkedFiles, PTL
<1> QED
  BY <1>1

LEMMA TableWritten ==
  ASSUME UpInv, ~ TablePending(todo)
  PROVE  /\ SameTable(meta, image.meta) /\ ImageTree = Abs
         /\ Family(image.meta, image.blocks, FileChains)
<1>1. /\ Inv /\ Shape /\ PathsMatch(meta, path_index)
      /\ image.meta \in [MetaIndex -> MetaEntry]
  BY DEF UpInv, TreeInv, Vol
<1>2. SameTable(meta, image.meta)
  BY DEF UpInv, TablePending, TableComes
<1>3. ImageTree = Abs
  BY <1>1, <1>2, SameTableTree, ImageTreeIs DEF Abs
<1>4. ASSUME NEW b \in BlockIndex, InFile(meta, blocks, b)
      PROVE  image.blocks[b] = blocks[b]
  <2> SUFFICES ASSUME NEW k \in DOMAIN todo, Goes(todo, k, "blocks"), todo[k].at = b PROVE FALSE
    BY DEF UpInv, BlocksCome
  <2>1. \A l \in DOMAIN todo : Goes(todo, l, "meta") => l < k
    BY DEF TablePending
  <2> QED
    BY <1>4, <2>1 DEF UpInv, LateOutside
<1>5. Family(image.meta, image.blocks, FileChains)
  BY <1>1, <1>2, <1>4, MemoryFamily
<1> QED
  BY <1>2, <1>3, <1>5

LEMMA UpShows == UpInv => NoFileShowsAnother
<1> SUFFICES ASSUME UpInv PROVE NoFileShowsAnother
  OBVIOUS
<1>1. CASE TablePending(todo)
  <2>1. PICK ch : Family(image.meta, image.blocks, ch)
    BY <1>1 DEF UpInv, FilesWhole
  <2> QED
    BY <2>1, FamilyShows
<1>2. CASE ~ TablePending(todo)
  BY <1>2, TableWritten, FamilyShows
<1> QED
  BY <1>1, <1>2

\* Between two calls the image is the memory, up to the blocks of directories in
\* table and bitmap.
LEMMA Settled ==
  ASSUME UpInv, todo = <<>>
  PROVE  /\ image.blocks = blocks /\ SameTable(meta, image.meta)
         /\ Marks(meta, blocks, image.free_bitmap) /\ ImageTree = Abs
<1>1. ASSUME NEW k \in DOMAIN todo PROVE FALSE
  <2>1. DOMAIN todo = {}
    OBVIOUS
  <2> QED
    BY <2>1
<1>2. SameTable(meta, image.meta) /\ ImageTree = Abs
  BY <1>1, TableWritten DEF TablePending
<1>3. Marks(meta, blocks, image.free_bitmap)
  BY <1>1 DEF UpInv, BitmapComes
<1>4. image.blocks = blocks
  <2>1. /\ image.blocks \in [BlockIndex -> Block] /\ blocks \in [BlockIndex -> Block]
        /\ \A b \in BlockIndex : image.blocks[b] = blocks[b]
    BY <1>1 DEF UpInv, BlocksCome, TreeInv, Inv, TypeOK, Vol
  <2> QED
    BY <2>1
<1> QED
  BY <1>2, <1>3, <1>4

-----------------------------------------------------------------------------
(* The steps that are no call. *)

LEMMA WriteStep ==
  ASSUME UpInv, write
  PROVE  UpInv' /\ (image'.meta = image.meta \/ Durable!Next \/ ImageTree' = ImageTree)
<1> DEFINE t == todo
           w == Head(todo)
<1>1. /\ todo \in Seq(Writes) /\ todo # <<>> /\ image' = Written(image, w) /\ todo' = Tail(todo)
      /\ image \in Vol /\ UNCHANGED vars
  BY DEF UpInv, write
<1>2. w \in Writes /\ Tail(todo) \in Seq(Writes)
  BY <1>1, NextWrite
<1>3. image' \in Vol /\ todo' \in Seq(Writes)
  BY <1>1, <1>2, WrittenIs
<1>4. TreeInv' /\ Abs' = Abs
  <2>1. TreeInv'
    BY <1>1, NextInv, NextShape, NextMatch, TreeNextIsNext DEF UpInv, TreeInv
  <2>2. Abs' = Abs
    BY <1>1 DEF Abs, TreeOf, NodeOf, vars
  <2> QED
    BY <2>1, <2>2
<1>5. meta' = meta /\ blocks' = blocks
  BY <1>1 DEF vars
<1>6. /\ BlocksCome(todo', image'.blocks, blocks')
      /\ BitmapComes(todo', image'.free_bitmap, meta', blocks')
      /\ TableComes(todo', image'.meta, meta')
      /\ LateOutside(todo', meta', blocks')
  BY <1>1, <1>5, BlocksComeOn, BitmapComesOn, TableComesOn, LateOutsideOn DEF UpInv
<1>7. CASE TablePending(todo')
  <2>1. TablePending(todo)
    <3>1. PICK k \in DOMAIN Tail(todo) : Goes(Tail(todo), k, "meta")
      BY <1>1, <1>7 DEF TablePending
    <3>2. Goes(todo, k + 1, "meta") /\ k + 1 \in DOMAIN todo
      BY <1>1, <3>1, Later DEF Goes
    <3> QED
      BY <3>2 DEF TablePending
  <2>2. PICK ch : Family(image.meta, image.blocks, ch) /\ EarlyHarmless(todo, image.meta, ch)
    BY <2>1 DEF UpInv, FilesWhole
  <2>3. /\ image'.meta = image.meta
        /\ Family(image'.meta, image'.blocks, ch) /\ EarlyHarmless(todo', image'.meta, ch)
    BY <1>1, <1>7, <2>2, FilesWholeOn DEF UpInv
  <2>4. ImageTree' = ImageTree
    BY <2>3 DEF ImageTree
  <2>5. ImageTree' = Abs' \/ OneOperation(ImageTree', Abs')
    BY <1>4, <2>1, <2>4 DEF UpInv
  <2> QED
    BY <1>3, <1>4, <1>6, <2>3, <2>5, Zenon DEF UpInv, FilesWhole
<1>8. CASE ~ TablePending(todo')
  <2>1. UpInv'
    BY <1>3, <1>4, <1>6, <1>8 DEF UpInv
  <2>2. ImageTree' = Abs'
    <3>1. (UpInv /\ ~ TablePending(todo) => ImageTree = Abs)'
      BY TableWritten, PTL
    <3> QED
      BY <1>8, <2>1, <3>1
  <2>3. CASE TablePending(todo)
    <3>1. ImageTree = Abs \/ OneOperation(ImageTree, Abs)
      BY <2>3 DEF UpInv
    <3>2. CASE ImageTree = Abs
      BY <1>4, <2>1, <2>2, <3>2
    <3>3. CASE OneOperation(ImageTree, Abs)
      <4>1. OneOperation(ImageTree, ImageTree')
        BY <1>4, <2>2, <3>3
      <4> QED
        BY <2>1, <4>1, DurableOperation
    <3> QED
      BY <3>1, <3>2, <3>3
  <2>4. CASE ~ TablePending(todo)
    BY <1>4, <2>1, <2>2, <2>4, TableWritten
  <2> QED
    BY <2>3, <2>4
<1> QED
  BY <1>7, <1>8

-----------------------------------------------------------------------------
(* The writes of a call: blocks, the table, then bitmap and blocks. *)

LEMMA Pieces ==
  ASSUME NEW pre \in Seq(Writes), NEW w \in Writes, NEW post \in Seq(Writes),
         NEW t, t = pre \o <<w>> \o post
  PROVE  /\ t \in Seq(Writes) /\ Len(pre) \in Nat
         /\ \A k \in DOMAIN t :
              \/ k \in DOMAIN pre /\ t[k] = pre[k]
              \/ k = Len(pre) + 1 /\ t[k] = w
              \/ /\ k > Len(pre) + 1 /\ k - (Len(pre) + 1) \in DOMAIN post
                 /\ t[k] = post[k - (Len(pre) + 1)]
         /\ \A k \in DOMAIN pre : k \in DOMAIN t /\ t[k] = pre[k] /\ k \in Nat /\ k <= Len(pre)
         /\ Len(pre) + 1 \in DOMAIN t /\ t[Len(pre) + 1] = w
         /\ \A k \in DOMAIN post : /\ Len(pre) + 1 + k \in DOMAIN t /\ t[Len(pre) + 1 + k] = post[k]
                                   /\ k \in Nat
<1> DEFINE u == pre \o <<w>>
<1>1. /\ u \in Seq(Writes) /\ Len(u) = Len(pre) + 1 /\ Len(pre) \in Nat
      /\ \A k \in 1 .. Len(pre) : u[k] = pre[k]
      /\ u[Len(pre) + 1] = w
  OBVIOUS
<1> HIDE DEF u
<1>2. t = u \o post
  BY DEF u
<1>3. /\ t \in Seq(Writes) /\ Len(t) = Len(u) + Len(post) /\ Len(post) \in Nat
      /\ DOMAIN t = 1 .. Len(t)
      /\ \A k \in 1 .. Len(t) : t[k] = IF k <= Len(u) THEN u[k] ELSE post[k - Len(u)]
  BY <1>1, <1>2, ConcatProperties
<1>4. DOMAIN pre = 1 .. Len(pre) /\ DOMAIN post = 1 .. Len(post)
  OBVIOUS
<1>5. \A k \in DOMAIN post : Len(pre) + 1 + k \in DOMAIN t /\ t[Len(pre) + 1 + k] = post[k]
                             /\ k \in Nat
  <2> SUFFICES ASSUME NEW k \in 1 .. Len(post)
               PROVE  Len(pre) + 1 + k \in 1 .. Len(t) /\ t[Len(pre) + 1 + k] = post[k]
    BY <1>3, <1>4
  <2>1. Len(pre) + 1 + k \in 1 .. Len(t) /\ ~(Len(pre) + 1 + k <= Len(u))
    BY <1>1, <1>3
  <2>2. (Len(pre) + 1 + k) - Len(u) = k
    BY <1>1
  <2> QED
    BY <1>3, <2>1, <2>2
<1> QED
  BY <1>1, <1>3, <1>4, <1>5

\* The writes before the table: of blocks, to the value the call leaves, if not
\* overwritten by a later one, or outside the files.
Early(pre, A, m, blk, blk2) ==
  /\ \A k \in DOMAIN pre : /\ pre[k].region = "blocks"
                           /\ \/ pre[k].value = blk2[pre[k].at]
                              \/ ~ InFile(m, blk, pre[k].at)
                           /\ \/ pre[k].value = blk2[pre[k].at]
                              \/ \E l \in DOMAIN pre : l > k /\ pre[l].at = pre[k].at
  /\ \A b \in A : \E k \in DOMAIN pre : pre[k].at = b

\* Those after it: of blocks outside the files, and a bitmap with the files' blocks.
Late(post, X, m2, blk2) ==
  /\ \A k \in DOMAIN post :
        \/ /\ post[k].region = "blocks" /\ post[k].value = blk2[post[k].at]
           /\ ~ InFile(m2, blk2, post[k].at)
        \/ post[k].region = "free_bitmap" /\ Marks(m2, blk2, post[k].value)
  /\ \A b \in X : \E k \in DOMAIN post : Goes(post, k, "blocks") /\ post[k].at = b

\* The links inside the files stay or are cut.
Soft(m, blk, blk2) ==
  \A b \in BlockIndex : InFile(m, blk, b) /\ blk[b].next # 0 => blk2[b].next \in {0, blk[b].next}

MarksStay(post, m, blk, m2, blk2) ==
  \/ \E k \in DOMAIN post : Goes(post, k, "free_bitmap")
  \/ \A b \in BlockIndex : InFile(m2, blk2, b) => InFile(m, blk, b)

\* ch has the chains of the files of m.
ChainsAre(m, blk, ch) ==
  \A i \in FilesOf(m) : \A n \in 1 .. Len(ch[i]) - 1 :
     /\ ch[i][n] \in BlockIndex /\ InFile(m, blk, ch[i][n])
     /\ blk[ch[i][n]].next = ch[i][n + 1] /\ ch[i][n + 1] # 0

\* A call that makes table and blocks m2 and blk2 of m and blk writes pre, the
\* table mv, then post.
Calls(pre, mv, post, m, blk, m2, blk2) ==
  /\ pre \in Seq(Writes) /\ mv \in [MetaIndex -> MetaEntry] /\ post \in Seq(Writes)
  /\ SameTable(m2, mv)
  /\ MarksStay(post, m, blk, m2, blk2) /\ Soft(m, blk, blk2)
  /\ \E A, X : /\ Early(pre, A, m, blk, blk2) /\ Late(post, X, m2, blk2)
               /\ \A b \in BlockIndex : b \in A \/ b \in X \/ blk2[b] = blk[b]

\* The image v has table and blocks m and blk, and a bitmap with the files' blocks.
Holds(v, m, blk) == v.blocks = blk /\ SameTable(m, v.meta) /\ Marks(m, blk, v.free_bitmap)

LEMMA CallWrites ==
  ASSUME NEW pre, NEW mv, NEW post, NEW t, t = pre \o MetaWrite(mv) \o post,
         NEW m, NEW blk, NEW v, Holds(v, m, blk), NEW m2, NEW blk2,
         Calls(pre, mv, post, m, blk, m2, blk2),
         NEW ch, ChainsAre(m, blk, ch), Family(v.meta, v.blocks, ch)
  PROVE  /\ t \in Seq(Writes)
         /\ BlocksCome(t, v.blocks, blk2)
         /\ BitmapComes(t, v.free_bitmap, m2, blk2)
         /\ TableComes(t, v.meta, m2)
         /\ LateOutside(t, m2, blk2)
         /\ FilesWhole(t, v.meta, v.blocks)
<1>20. PICK A, X : /\ Early(pre, A, m, blk, blk2) /\ Late(post, X, m2, blk2)
                  /\ \A b \in BlockIndex : b \in A \/ b \in X \/ blk2[b] = blk[b]
  BY DEF Calls
<1>21. /\ pre \in Seq(Writes) /\ mv \in [MetaIndex -> MetaEntry] /\ post \in Seq(Writes)
       /\ SameTable(m2, mv) /\ MarksStay(post, m, blk, m2, blk2) /\ Soft(m, blk, blk2)
       /\ v.blocks = blk /\ SameTable(m, v.meta) /\ Marks(m, blk, v.free_bitmap)
  BY DEF Calls, Holds
<1> DEFINE w == Write("meta", 0, mv)
           z == Len(pre) + 1
<1>1. w \in Writes /\ w.region = "meta" /\ w.value = mv
  BY <1>21 DEF Writes, Write
<1>2. t = pre \o <<w>> \o post
  BY DEF MetaWrite
<1> HIDE DEF w
<1>3. /\ t \in Seq(Writes) /\ z \in Nat
      /\ \A k \in DOMAIN t : \/ k \in DOMAIN pre /\ t[k] = pre[k] /\ k < z
                             \/ k = z /\ t[k] = w
                             \/ k > z /\ k - z \in DOMAIN post /\ t[k] = post[k - z]
      /\ \A k \in DOMAIN pre : k \in DOMAIN t /\ t[k] = pre[k] /\ k < z
      /\ z \in DOMAIN t /\ t[z] = w
      /\ \A k \in DOMAIN post : z + k \in DOMAIN t /\ t[z + k] = post[k]
  BY <1>1, <1>2, <1>21, Pieces
<1> HIDE DEF z
<1>4. \A k \in DOMAIN pre : pre[k].region = "blocks"
  BY <1>20, <1>21 DEF Early
<1>5. \A k \in DOMAIN post : post[k].region \in {"blocks", "free_bitmap"}
  BY <1>20, <1>21 DEF Late
\* Where each region's writes are.
<1>6. ASSUME NEW k, Goes(t, k, "meta") PROVE k = z
  BY <1>20, <1>21, <1>1, <1>3, <1>4, <1>5, <1>6 DEF Goes
<1>7. ASSUME NEW k, Goes(t, k, "blocks")
      PROVE  \/ k \in DOMAIN pre /\ t[k] = pre[k] /\ k < z
             \/ k > z /\ Goes(post, k - z, "blocks") /\ t[k] = post[k - z]
  BY <1>20, <1>21, <1>1, <1>3, <1>7 DEF Goes
<1>8. ASSUME NEW k, Goes(t, k, "free_bitmap")
      PROVE  Goes(post, k - z, "free_bitmap") /\ t[k] = post[k - z]
  BY <1>20, <1>21, <1>1, <1>3, <1>4, <1>8 DEF Goes
<1>9. \A k \in DOMAIN pre : Goes(t, k, "blocks") /\ t[k] = pre[k] /\ k \in DOMAIN t
  BY <1>20, <1>21, <1>3, <1>4 DEF Goes
<1>10. \A k, r : Goes(post, k, r) => Goes(t, z + k, r) /\ t[z + k] = post[k] /\ z + k \in DOMAIN t
  BY <1>20, <1>21, <1>3 DEF Goes
<1>11. Goes(t, z, "meta") /\ z \in DOMAIN t /\ t[z].value = mv
  BY <1>20, <1>21, <1>1, <1>3 DEF Goes
<1>12. BlocksCome(t, v.blocks, blk2)
  <2>1. ASSUME NEW k \in DOMAIN t, Goes(t, k, "blocks")
        PROVE  \/ t[k].value = blk2[t[k].at]
               \/ \E l \in DOMAIN t : l > k /\ Goes(t, l, "blocks") /\ t[l].at = t[k].at
    <3>1. CASE k \in DOMAIN pre /\ t[k] = pre[k]
      <4>1. CASE \E l \in DOMAIN pre : l > k /\ pre[l].at = pre[k].at
        BY <1>20, <1>21, <1>9, <3>1, <4>1
      <4> QED
        BY <1>20, <1>21, <3>1, <4>1 DEF Early
    <3>2. CASE Goes(post, k - z, "blocks") /\ t[k] = post[k - z]
      BY <1>20, <1>21, <3>2 DEF Late, Goes
    <3> QED
      BY <1>20, <1>21, <1>7, <2>1, <3>1, <3>2
  <2>2. ASSUME NEW b \in BlockIndex
        PROVE  v.blocks[b] = blk2[b] \/ \E k \in DOMAIN t : Goes(t, k, "blocks") /\ t[k].at = b
    <3>1. CASE b \in A
      BY <1>20, <1>21, <1>9, <3>1 DEF Early
    <3>2. CASE b \in X
      <4>1. PICK k \in DOMAIN post : Goes(post, k, "blocks") /\ post[k].at = b
        BY <1>20, <1>21, <3>2 DEF Late
      <4>2. Goes(t, z + k, "blocks") /\ t[z + k].at = b /\ z + k \in DOMAIN t
        BY <1>20, <1>21, <1>10, <4>1
      <4> QED
        BY <1>20, <1>21, <4>2
    <3>3. CASE blk2[b] = blk[b]
      BY <1>20, <1>21, <3>3
    <3> QED
      BY <1>20, <1>21, <3>1, <3>2, <3>3
  <2> QED
    BY <1>20, <1>21, <2>1, <2>2 DEF BlocksCome
<1>13. BitmapComes(t, v.free_bitmap, m2, blk2)
  <2>1. ASSUME NEW k \in DOMAIN t, Goes(t, k, "free_bitmap") PROVE Marks(m2, blk2, t[k].value)
    <3>1. k - z \in DOMAIN post /\ post[k - z].region = "free_bitmap" /\ t[k] = post[k - z]
      BY <1>20, <1>21, <1>8, <2>1 DEF Goes
    <3> QED
      BY <1>20, <1>21, <3>1 DEF Late
  <2>2. CASE \E k \in DOMAIN post : Goes(post, k, "free_bitmap")
    BY <1>20, <1>21, <1>10, <2>1, <2>2 DEF BitmapComes
  <2>3. CASE \A b \in BlockIndex : InFile(m2, blk2, b) => InFile(m, blk, b)
    BY <1>20, <1>21, <2>1, <2>3 DEF BitmapComes, Marks
  <2> QED
    BY <1>20, <1>21, <2>2, <2>3 DEF MarksStay
<1>14. TableComes(t, v.meta, m2)
  BY <1>20, <1>21, <1>6, <1>11 DEF TableComes
<1>15. LateOutside(t, m2, blk2)
  <2> SUFFICES ASSUME NEW k \in DOMAIN t, Goes(t, k, "blocks"),
                      \A l \in DOMAIN t : Goes(t, l, "meta") => l < k
               PROVE  ~ InFile(m2, blk2, t[k].at)
    BY <1>20, <1>21 DEF LateOutside
  <2>1. z < k
    BY <1>20, <1>21, <1>11
  <2>2. k \in Nat
    BY <1>20, <1>21, <1>3
  <2>3. Goes(post, k - z, "blocks") /\ t[k] = post[k - z]
    BY <1>20, <1>21, <1>3, <1>7, <2>1, <2>2
  <2> QED
    BY <1>20, <1>21, <2>3 DEF Late, Goes
<1>16. FilesOf(v.meta) = FilesOf(m)
  BY <1>21, SameFiles
<1>17. ASSUME NEW k \in DOMAIN pre PROVE Harmless(v.meta, ch, pre[k])
  <2> SUFFICES ASSUME NEW i \in FilesOf(m), NEW n \in 1 .. Len(ch[i]) - 1, ch[i][n] = pre[k].at
               PROVE  pre[k].value.next \in {0, ch[i][n + 1]}
    BY <1>20, <1>21, <1>16 DEF Harmless
  <2>1. /\ ch[i][n] \in BlockIndex /\ InFile(m, blk, ch[i][n])
        /\ blk[ch[i][n]].next = ch[i][n + 1] /\ ch[i][n + 1] # 0
    BY <1>20, <1>21 DEF ChainsAre
  <2>2. pre[k].value = blk2[pre[k].at]
    BY <1>20, <1>21, <2>1 DEF Early
  <2>3. blk2[ch[i][n]].next \in {0, blk[ch[i][n]].next}
    BY <1>20, <1>21, <2>1 DEF Soft
  <2> QED
    BY <1>20, <1>21, <2>1, <2>2, <2>3
<1>18. EarlyHarmless(t, v.meta, ch)
  <2> SUFFICES ASSUME NEW k \in DOMAIN t, NEW l \in DOMAIN t, Goes(t, k, "meta"), l < k
               PROVE  Harmless(v.meta, ch, t[l])
    BY <1>20, <1>21 DEF EarlyHarmless
  <2>1. k = z
    BY <1>20, <1>21, <1>6
  <2>2. l \in DOMAIN pre /\ t[l] = pre[l]
    <3>1. l \in Nat /\ z \in Nat /\ l < z
      BY <1>20, <1>21, <1>3, <2>1
    <3>2. ~(l = z) /\ ~(l > z)
      BY <1>20, <1>21, <3>1
    <3> QED
      BY <1>20, <1>21, <1>3, <3>2
  <2> QED
    BY <1>20, <1>21, <1>17, <2>2
<1>19. FilesWhole(t, v.meta, v.blocks)
  BY <1>20, <1>21, <1>18, Zenon DEF FilesWhole
<1> QED
  BY <1>20, <1>21, <1>3, <1>12, <1>13, <1>14, <1>15, <1>19

LEMMA MemoryLinks ==
  ASSUME Inv, Shape
  PROVE  ChainsAre(meta, blocks, FileChains)
<1> SUFFICES ASSUME NEW i \in FilesOf(meta), NEW n \in 1 .. Len(FileChains[i]) - 1
             PROVE  /\ FileChains[i][n] \in BlockIndex /\ InFile(meta, blocks, FileChains[i][n])
                    /\ blocks[FileChains[i][n]].next = FileChains[i][n + 1]
                    /\ FileChains[i][n + 1] # 0
  BY DEF ChainsAre
<1>1. FileChains[i] \in BlockSeq
  BY MemoryChains
<1>2. n \in 1 .. Len(FileChains[i]) /\ n + 1 \in 1 .. Len(FileChains[i])
  BY <1>1, BlockSeqType
<1>3. n \in DOMAIN FileChains[i] /\ FileChains[i][n] \in BlockIndex
      /\ FileChains[i][n + 1] \in BlockIndex
  BY <1>1, <1>2, BlockSeqType
<1>4. InFile(meta, blocks, FileChains[i][n])
  BY <1>3, InFileIs DEF BlocksOf
<1> QED
  BY <1>3, <1>4, MemoryChains DEF BlockIndex

LEMMA TreeInvNext ==
  ASSUME TreeInv, [TreeNext]_vars
  PROVE  TreeInv' /\ (Abs' = Abs \/ OneOperation(Abs, Abs'))
<1>1. TreeInv'
  BY TreeNextIsNext, NextInv, NextShape, NextMatch DEF TreeInv
<1>2. [Tree!Next]_Abs
  BY <1>1, TreeStep
<1> QED
  BY <1>1, <1>2, TreeOperation

\* A call leaves its writes in todo, and the image as it was.
LEMMA CallStep ==
  ASSUME UpInv, todo = <<>>, image' = image, [TreeNext]_vars,
         NEW pre, NEW mv, NEW post, todo' = pre \o MetaWrite(mv) \o post,
         Calls(pre, mv, post, meta, blocks, meta', blocks')
  PROVE  UpInv'
<1>1. Holds(image, meta, blocks) /\ ImageTree = Abs /\ image.blocks = blocks
  BY Settled DEF Holds
<1>2. ~ TablePending(todo)
  <2>1. DOMAIN todo = {}
    OBVIOUS
  <2> QED
    BY <2>1 DEF TablePending
<1>3. Family(image.meta, image.blocks, FileChains)
  BY <1>2, TableWritten
<1>4. Inv /\ Shape /\ TreeInv /\ image \in Vol
  BY DEF UpInv, TreeInv
<1>5. TreeInv' /\ (Abs' = Abs \/ OneOperation(Abs, Abs'))
  BY <1>4, TreeInvNext
<1>6. ChainsAre(meta, blocks, FileChains)
  BY <1>4, MemoryLinks
<1>7. /\ todo' \in Seq(Writes)
      /\ BlocksCome(todo', image.blocks, blocks')
      /\ BitmapComes(todo', image.free_bitmap, meta', blocks')
      /\ TableComes(todo', image.meta, meta')
      /\ LateOutside(todo', meta', blocks')
      /\ FilesWhole(todo', image.meta, image.blocks)
  BY <1>1, <1>3, <1>6, CallWrites
<1>8. ImageTree' = ImageTree
  BY DEF ImageTree
<1> QED
  BY <1>1, <1>4, <1>5, <1>7, <1>8 DEF UpInv

-----------------------------------------------------------------------------
(* What the calls have to show for it. *)

BlocksTo(s, blk2) == [i \in DOMAIN s |-> Write("blocks", s[i], blk2[s[i]])]

LEMMA BlocksToIs ==
  ASSUME NEW blk2 \in [BlockIndex -> Block], NEW s \in Seq(BlockIndex)
  PROVE  /\ BlocksTo(s, blk2) \in Seq(Writes) /\ Len(BlocksTo(s, blk2)) = Len(s)
         /\ DOMAIN BlocksTo(s, blk2) = DOMAIN s /\ DOMAIN s = 1 .. Len(s)
         /\ \A k \in DOMAIN s : /\ BlocksTo(s, blk2)[k].region = "blocks"
                                /\ BlocksTo(s, blk2)[k].at = s[k] /\ s[k] \in BlockIndex
                                /\ BlocksTo(s, blk2)[k].value = blk2[s[k]]
<1>1. DOMAIN s = 1 .. Len(s) /\ Len(s) \in Nat /\ \A k \in DOMAIN s : s[k] \in BlockIndex
  OBVIOUS
<1>2. \A k \in DOMAIN s : Write("blocks", s[k], blk2[s[k]]) \in Writes
  BY <1>1 DEF Write, Writes
<1> DEFINE W(k) == Write("blocks", s[k], blk2[s[k]])
<1>3. \A k \in DOMAIN s : W(k) \in Writes /\ W(k).region = "blocks" /\ W(k).at = s[k]
                          /\ W(k).value = blk2[s[k]]
  BY <1>2 DEF Write
<1>4. BlocksTo(s, blk2) = [k \in 1 .. Len(s) |-> W(k)]
  BY <1>1 DEF BlocksTo
<1> HIDE DEF W
<1>5. [k \in 1 .. Len(s) |-> W(k)] \in Seq(Writes)
  BY <1>1, <1>3
<1> QED
  BY <1>1, <1>3, <1>4, <1>5

\* The blocks a call writes once, before the table.
LEMMA EarlyBlocks ==
  ASSUME NEW blk2 \in [BlockIndex -> Block], NEW s \in Seq(BlockIndex), NEW m, NEW blk
  PROVE  BlocksTo(s, blk2) \in Seq(Writes) /\ Early(BlocksTo(s, blk2), BlocksOf(s), m, blk, blk2)
  BY BlocksToIs DEF Early, BlocksOf

LEMMA NoLate ==
  ASSUME NEW m2, NEW blk2
  PROVE  <<>> \in Seq(Writes) /\ Late(<<>>, {}, m2, blk2)
<1> DEFINE e == <<>>
<1>1. e \in Seq(Writes) /\ DOMAIN e = {}
  OBVIOUS
<1> HIDE DEF e
<1>2. Late(e, {}, m2, blk2)
  BY <1>1 DEF Late
<1> QED
  BY <1>1, <1>2 DEF e

LEMMA LateBitmap ==
  ASSUME NEW m2, NEW blk2, NEW used \in SUBSET BlockIndex, Marks(m2, blk2, used), NEW m, NEW blk
  PROVE  /\ BitmapWrite(used) \in Seq(Writes) /\ Late(BitmapWrite(used), {}, m2, blk2)
         /\ MarksStay(BitmapWrite(used), m, blk, m2, blk2)
<1> DEFINE w == Write("free_bitmap", 0, used)
           e == BitmapWrite(used)
<1>1. w \in Writes /\ w.region = "free_bitmap" /\ w.value = used
  BY DEF Write, Writes
<1>2. e = <<w>>
  BY DEF BitmapWrite
<1> HIDE DEF w, e
<1>3. e \in Seq(Writes) /\ DOMAIN e = {1} /\ e[1] = w
  BY <1>1, <1>2
<1>4. Late(e, {}, m2, blk2)
  BY <1>1, <1>3 DEF Late
<1>5. MarksStay(e, m, blk, m2, blk2)
  BY <1>1, <1>3 DEF MarksStay, Goes
<1> QED
  BY <1>3, <1>4, <1>5 DEF e

\* A block that is free or a directory's is in no file.
LEMMA OutsideFiles ==
  ASSUME Inv, NEW b,
         b \notin free_bitmap \/ \E d \in Live(meta) : meta[d].type = DIR /\ meta[d].start_index = b
  PROVE  ~ InFile(meta, blocks, b)
  BY InFileUsed

\* A call that changes no file's first block and no link of a file makes no block
\* a file's.
LEMMA FilesSame ==
  ASSUME Inv, Shape, NEW m2 \in [MetaIndex -> MetaEntry],
         NEW blk2 \in [BlockIndex -> Block],
         \A i \in FilesOf(m2) : i \in FilesOf(meta) /\ m2[i].start_index = meta[i].start_index,
         \A b \in BlockIndex : InFile(meta, blocks, b) => blk2[b].next = blocks[b].next
  PROVE  \A b : InFile(m2, blk2, b) => InFile(meta, blocks, b)
<1> SUFFICES ASSUME NEW b, NEW i \in FilesOf(m2), NEW s \in Chains(blk2, m2[i].start_index),
                    b \in BlocksOf(s)
             PROVE  InFile(meta, blocks, b)
  BY DEF InFile
<1>1. i \in FilesOf(meta) /\ m2[i].start_index = meta[i].start_index
  OBVIOUS
<1> DEFINE c == FileChains[i]
<1>2. c \in Chains(blocks, meta[i].start_index)
  BY <1>1, MemoryChains DEF ChainOfEntry
<1> HIDE DEF c
<1>3. \A x \in BlocksOf(c) : InFile(meta, blocks, x) /\ x \in BlockIndex
  <2>1. \A x \in BlocksOf(c) : InFile(meta, blocks, x)
    BY <1>1, <1>2 DEF InFile
  <2>2. c \in BlockSeq
    BY <1>2 DEF Chains
  <2> QED
    BY <2>1, <2>2, BlockSeqType DEF BlocksOf
<1>4. c \in Chains(blk2, meta[i].start_index)
  BY <1>2, <1>3, ChainKept
<1>5. meta[i].start_index \in 0 .. NB
  BY <1>1 DEF Inv, TypeOK, FilesOf, Live, MetaEntry
<1>6. s = c
  BY <1>1, <1>4, <1>5, ChainUnique
<1> QED
  BY <1>3, <1>6

LEMMA SameTableSelf == ASSUME NEW m PROVE SameTable(m, m)
  BY DEF SameTable, SameNode

\* A call that rewrites block x, which is in no file, and no file's first block.
LEMMA OneBlockCall ==
  ASSUME Inv, Shape, TypeOK', NEW x \in BlockIndex, ~ InFile(meta, blocks, x),
         \A b \in BlockIndex : b # x => blocks'[b] = blocks[b],
         \A i \in FilesOf(meta') : i \in FilesOf(meta) /\ meta'[i].start_index = meta[i].start_index,
         NEW post \in Seq(Writes), Late(post, {}, meta', blocks')
  PROVE  Calls(BlockWrites(<<x>>), meta', post, meta, blocks, meta', blocks')
<1> DEFINE pre == BlocksTo(<<x>>, blocks')
<1>1. /\ meta' \in [MetaIndex -> MetaEntry] /\ blocks' \in [BlockIndex -> Block]
      /\ <<x>> \in Seq(BlockIndex) /\ BlocksOf(<<x>>) = {x}
  BY DEF TypeOK, BlocksOf
<1>2. pre \in Seq(Writes) /\ Early(pre, {x}, meta, blocks, blocks')
  BY <1>1, EarlyBlocks
<1>3. \A b \in BlockIndex : InFile(meta, blocks, b) => blocks'[b].next = blocks[b].next
  OBVIOUS
<1>4. \A b : InFile(meta', blocks', b) => InFile(meta, blocks, b)
  BY <1>1, <1>3, FilesSame
<1>5. MarksStay(post, meta, blocks, meta', blocks') /\ Soft(meta, blocks, blocks')
  BY <1>3, <1>4 DEF MarksStay, Soft
<1>6. \A b \in BlockIndex : b \in {x} \/ b \in {} \/ blocks'[b] = blocks[b]
  OBVIOUS
<1>7. BlockWrites(<<x>>) = pre
  BY DEF BlockWrites, BlocksTo
<1> HIDE DEF pre
<1>8. \E A, X : /\ Early(pre, A, meta, blocks, blocks') /\ Late(post, X, meta', blocks')
                /\ \A b \in BlockIndex : b \in A \/ b \in X \/ blocks'[b] = blocks[b]
  BY <1>2, <1>6, Zenon
<1> QED
  BY <1>1, <1>2, <1>5, <1>7, <1>8, SameTableSelf, Zenon DEF Calls

LEMMA NoMore ==
  ASSUME NEW s \in Seq(Writes), NEW m \in [MetaIndex -> MetaEntry]
  PROVE  s \o MetaWrite(m) = s \o MetaWrite(m) \o <<>>
<1> DEFINE w == Write("meta", 0, m)
<1>1. w \in Writes
  BY DEF Writes, Write
<1>2. MetaWrite(m) = <<w>>
  BY DEF MetaWrite
<1> HIDE DEF w
<1>3. s \o <<w>> \in Seq(Writes)
  BY <1>1
<1>4. s \o <<w>> \o <<>> = s \o <<w>>
  BY <1>3
<1> QED
  BY <1>2, <1>4

-----------------------------------------------------------------------------
(* The calls. *)

\* dir_add_child of d leaves the volume w: the block of d, x, has changed, and
\* was its block or nobody's.
Hung(v, d, w, x) ==
  /\ w \in Vol /\ x \in BlockIndex /\ x = w.meta[d].start_index
  /\ \A b \in BlockIndex : b # x => w.blocks[b] = v.blocks[b]
  /\ x = v.meta[d].start_index \/ x \notin v.free_bitmap
  /\ w.free_bitmap \subseteq v.free_bitmap \cup {x}
  /\ \A j \in MetaIndex \ {d} : w.meta[j] = v.meta[j]
  /\ SameNode(v.meta, w.meta, d)

LEMMA AddFrame ==
  ASSUME NEW v \in Vol, NEW d \in MetaIndex, NEW c \in MetaIndex,
         NEW r \in dir_add_child(v, d, c), r.ok
  PROVE  Hung(v, d, r.vol, r.vol.meta[d].start_index)
<1>1. r.vol \in Vol /\ (AddLists(v, d, c, r) \/ AddAllocates(v, d, c, r))
  BY AddChild DEF AddFails
<1>2. /\ v.blocks \in [BlockIndex -> Block] /\ v.meta \in [MetaIndex -> MetaEntry]
      /\ c \in Word /\ r.vol \in Vol
  BY AddChild, SizesAssumption DEF Vol, Word, MetaIndex
<1>3. CASE AddLists(v, d, c, r)
  <2> DEFINE x == v.meta[d].start_index
  <2>1. x \in BlockIndex /\ r.vol.meta = v.meta /\ r.vol.free_bitmap = v.free_bitmap
    BY <1>3 DEF AddLists
  <2>2. PICK w \in dir_block_read(v, d) : r.vol.blocks = WithChildren(v.blocks, x, Append(w, c))
    BY <1>3 DEF AddLists
  <2> DEFINE cs == Append(w, c)
  <2>3. cs \in Seq(Word) /\ r.vol.blocks = WithChildren(v.blocks, x, cs)
    BY <1>2, <2>2, ReadType, AppendProperties
  <2> HIDE DEF cs
  <2>4. \A b \in BlockIndex : b # x => r.vol.blocks[b] = v.blocks[b]
    BY <1>2, <2>1, <2>3, WithChildrenType
  <2> QED
    BY <1>2, <2>1, <2>4 DEF Hung, SameNode
<1>4. CASE AddAllocates(v, d, c, r)
  <2>1. PICK x \in BlockIndex \ v.free_bitmap :
          /\ r.vol.meta = [v.meta EXCEPT ![d].start_index = x]
          /\ r.vol.free_bitmap = v.free_bitmap \cup {x}
          /\ r.vol.blocks = WithChildren(v.blocks, x, <<c>>)
    BY <1>4 DEF AddAllocates
  <2> DEFINE cs == <<c>>
  <2>2. cs \in Seq(Word) /\ r.vol.blocks = WithChildren(v.blocks, x, cs)
    BY <1>2, <2>1
  <2> HIDE DEF cs
  <2>3. \A b \in BlockIndex : b # x => r.vol.blocks[b] = v.blocks[b]
    BY <1>2, <2>1, <2>2, WithChildrenType
  <2>4. v.meta[d] \in MetaEntry /\ r.vol.meta[d] = [v.meta[d] EXCEPT !.start_index = x]
        /\ \A j \in MetaIndex \ {d} : r.vol.meta[j] = v.meta[j]
    BY <1>2, <2>1
  <2>5. r.vol.meta[d].start_index = x /\ SameNode(v.meta, r.vol.meta, d)
    BY <2>4 DEF SameNode, MetaEntry
  <2> QED
    BY <1>2, <2>1, <2>3, <2>4, <2>5 DEF Hung
<1> QED
  BY <1>1, <1>3, <1>4

\* dir_remove_child writes the directory's block only.
LEMMA RemoveFrame ==
  ASSUME NEW v \in Vol, NEW d \in MetaIndex, NEW c \in MetaIndex,
         NEW r \in dir_remove_child(v, d, c)
  PROVE  /\ r.vol \in Vol /\ r.vol.meta = v.meta /\ r.vol.free_bitmap = v.free_bitmap
         /\ \A b \in BlockIndex : b # v.meta[d].start_index => r.vol.blocks[b] = v.blocks[b]
<1>1. /\ r.vol \in Vol /\ r.vol.meta = v.meta /\ r.vol.free_bitmap = v.free_bitmap
      /\ v.blocks \in [BlockIndex -> Block]
  BY RemoveChild DEF Vol
<1>2. PICK w \in dir_block_read(v, d) : RemoveFails(v, d, c, r, w) \/ RemoveUnlists(v, d, c, r, w)
  BY RemoveChild
<1>3. CASE RemoveFails(v, d, c, r, w)
  BY <1>1, <1>3 DEF RemoveFails
<1>4. CASE RemoveUnlists(v, d, c, r, w)
  <2> DEFINE x == v.meta[d].start_index
  <2>1. x \in BlockIndex /\ r.vol.blocks = WithChildren(v.blocks, x, EraseFirst(w, c))
    BY <1>4 DEF RemoveUnlists
  <2>2. w \in Seq(Word) /\ \E k \in 1 .. Len(w) : w[k] = c
    BY <1>4, ReadType DEF RemoveUnlists
  <2>3. EraseFirst(w, c) \in Seq(Word)
    BY <2>2, EraseFirstType
  <2>4. \A b \in BlockIndex : b # x => r.vol.blocks[b] = v.blocks[b]
    BY <1>1, <2>1, <2>3, WithChildrenType
  <2> QED
    BY <1>1, <2>4
<1> QED
  BY <1>2, <1>3, <1>4

LEMMA HungFiles ==
  ASSUME NEW v, NEW d \in Live(v.meta), v.meta[d].type = DIR, NEW w, NEW x, Hung(v, d, w, x)
  PROVE  /\ FilesOf(w.meta) = FilesOf(v.meta) /\ Live(w.meta) = Live(v.meta)
         /\ \A i \in FilesOf(v.meta) : w.meta[i] = v.meta[i]
<1>1. Live(w.meta) = Live(v.meta)
  BY DEF Hung, Live, SameNode
<1>2. w.meta[d].type = DIR
  BY DEF Hung, SameNode
<1>3. \A j \in Live(v.meta) : j # d => w.meta[j] = v.meta[j]
  BY DEF Hung, Live
<1> QED
  BY <1>1, <1>2, <1>3 DEF FilesOf, FILE, DIR

LEMMA IsCall ==
  ASSUME UpInv, TreeNext
  PROVE  /\ Inv /\ Shape /\ Inv' /\ TypeOK' /\ TypeOK /\ TreeInv'
         /\ PathsMatch(meta, path_index)
<1>1. Inv /\ Shape /\ TreeInv /\ PathsMatch(meta, path_index)
  BY DEF UpInv, TreeInv
<1>2. TreeInv'
  BY <1>1, TreeInvNext
<1> QED
  BY <1>1, <1>2 DEF TreeInv, Inv

LEMMA MakeDirStep ==
  ASSUME UpInv, NEW p \in ClientPath, mkdir(p)
  PROVE  UpInv'
<1>1. /\ MakeDirInside(p) /\ dir_create(p) /\ todo = <<>> /\ image' = image
      /\ todo' = mkdir_writes(path_index'[p])
  BY DEF mkdir, Idle, MakeDirInside
<1>2. TreeNext
  BY <1>1 DEF TreeNext
<1>3. /\ Inv /\ Shape /\ Inv' /\ TypeOK' /\ TypeOK /\ PathsMatch(meta, path_index)
      /\ meta' \in [MetaIndex -> MetaEntry]
  BY <1>2, IsCall DEF TypeOK
<1> DEFINE d == path_index[ParentPath(p)]
<1>4. PICK i \in MetaIndex : Grows(p, DIR, 0, i) /\ path_index' = rebuild_path_index(meta')
  BY <1>1, <1>3, MakeDirShape
<1>5. path_index'[p] = i /\ meta'[i].parent = d
  <2>1. path_index' = Inserted(p, i)
    BY <1>3, <1>4, GrowsKeeps, RebuildIs
  <2> QED
    BY <1>4, <2>1 DEF Grows, Inserted
<1>6. PICK n \in MetaIndex : \E v \in Vol :
         DirCreates(p, n, v) /\ \E r \in dir_add_child(v, d, n) : DirCreated(n, r)
  BY <1>1, <1>3, DirCreateParts
<1>7. PICK v \in Vol :
         DirCreates(p, n, v) /\ \E r \in dir_add_child(v, d, n) : DirCreated(n, r)
  BY <1>6
<1>8. PICK r \in dir_add_child(v, d, n) : DirCreated(n, r)
  BY <1>7
<1>9. /\ d \in Live(meta) /\ meta[d].type = DIR /\ n \notin Live(meta)
      /\ v.free_bitmap = free_bitmap /\ v.blocks = blocks
      /\ Live(v.meta) = Live(meta) \cup {n}
      /\ v.meta[n].type = DIR /\ \A j \in MetaIndex \ {n} : v.meta[j] = meta[j]
  <2>1. v.meta[n] = NewEntry(DIR, p, 0, 0)
    BY <1>7 DEF DirCreates
  <2>2. NewEntry(DIR, p, 0, 0).type = DIR
    BY DEF NewEntry
  <2> QED
    BY <1>7, <2>1, <2>2 DEF DirCreates
<1> HIDE DEF d
<1>10. d \in MetaIndex /\ d \in Live(v.meta) /\ v.meta[d] = meta[d]
  BY <1>9 DEF Live
<1>11. r.ok
  <2> SUFFICES ASSUME ~r.ok PROVE FALSE
    OBVIOUS
  <2>1. meta'[n].valid = 1 /\ n \notin Live(meta')
    <3>1. r.vol.meta = v.meta
      BY <1>8, <1>10, AddChild DEF AddFails, AddLists, AddAllocates
    <3>2. meta' = [v.meta EXCEPT ![n].valid = 1]
      BY <1>8, <3>1 DEF DirCreated
    <3>3. v.meta \in [MetaIndex -> MetaEntry]
      BY DEF Vol
    <3>4. v.meta[n] \in MetaEntry /\ meta'[n] = [v.meta[n] EXCEPT !.valid = 1]
          /\ \A j \in MetaIndex \ {n} : meta'[j] = v.meta[j]
      BY <3>2, <3>3
    <3>5. meta'[n].valid = 1
      BY <3>4 DEF MetaEntry
    <3> QED
      BY <3>5 DEF Live
  <2>2. \A j \in Live(meta') : j \in Live(meta)
    <3>1. r.vol.meta = v.meta
      BY <1>8, <1>10, AddChild DEF AddFails, AddLists, AddAllocates
    <3>2. meta' = [v.meta EXCEPT ![n].valid = 1] /\ v.meta \in [MetaIndex -> MetaEntry]
      BY <1>8, <3>1 DEF DirCreated, Vol
    <3>3. \A j \in MetaIndex \ {n} : meta'[j] = meta[j]
      BY <1>9, <3>2
    <3> QED
      BY <2>1, <3>3 DEF Live
  <2> QED
    BY <1>4, <2>2 DEF Grows
<1> DEFINE x == meta'[d].start_index
<1>12. /\ meta' = r.vol.meta /\ blocks' = r.vol.blocks
  BY <1>8, <1>11 DEF DirCreated, Becomes
<1>13. Hung(v, d, r.vol, x)
  BY <1>8, <1>10, <1>11, <1>12, AddFrame
<1>14. x \in BlockIndex /\ \A b \in BlockIndex : b # x => blocks'[b] = blocks[b]
  BY <1>9, <1>12, <1>13 DEF Hung
<1>15. ~ InFile(meta, blocks, x)
  <2>1. x = meta[d].start_index \/ x \notin free_bitmap
    BY <1>9, <1>10, <1>13 DEF Hung
  <2> QED
    BY <1>3, <1>9, <2>1, OutsideFiles
<1>16. \A j \in FilesOf(meta') : j \in FilesOf(meta) /\ meta'[j].start_index = meta[j].start_index
  <2>1. FilesOf(meta') = FilesOf(v.meta) /\ \A j \in FilesOf(v.meta) : meta'[j] = v.meta[j]
    BY <1>9, <1>10, <1>12, <1>13, HungFiles
  <2>2. \A j \in FilesOf(v.meta) : j \in FilesOf(meta) /\ v.meta[j] = meta[j]
    BY <1>9 DEF FilesOf, FILE, DIR, Live
  <2> QED
    BY <2>1, <2>2
<1> DEFINE pre == BlockWrites(<<x>>)
           post == <<>>
<1>17. post \in Seq(Writes) /\ Late(post, {}, meta', blocks')
  BY NoLate
<1> HIDE DEF post, x
<1>18. Calls(pre, meta', post, meta, blocks, meta', blocks')
  BY <1>3, <1>14, <1>15, <1>16, <1>17, OneBlockCall
<1> HIDE DEF pre
<1>19. todo' = pre \o MetaWrite(meta') \o post
  <2>1. pre \in Seq(Writes)
    BY <1>18 DEF Calls
  <2>2. todo' = pre \o MetaWrite(meta')
    BY <1>1, <1>5 DEF mkdir_writes, pre, x
  <2> QED
    BY <1>3, <2>1, <2>2, NoMore DEF post
<1> QED
  BY <1>1, <1>2, <1>18, <1>19, CallStep

\* The parent of an entry besides the root has a block, which is in no file.
LEMMA ParentBlock ==
  ASSUME Inv, Shape, NEW i \in Live(meta) \ {Root}
  PROVE  LET x == meta[meta[i].parent].start_index
         IN  /\ meta[i].parent \in MetaIndex /\ meta[i].parent \in Live(meta)
             /\ meta[meta[i].parent].type = DIR
             /\ x \in BlockIndex /\ ~ InFile(meta, blocks, x)
<1> DEFINE d == meta[i].parent
<1>1. Lists(meta, blocks, d, i)
  BY DEF Shape, AllHang
<1> HIDE DEF d
<1>2. d \in Live(meta) /\ meta[d].type = DIR /\ IsDirWithBlock(meta, d) /\ d \in MetaIndex
  BY <1>1 DEF Lists, IsDirWithBlock, Live
<1>3. meta[d].start_index \in BlockIndex
  BY <1>2, InvBlocks, DirBlock
<1>4. ~ InFile(meta, blocks, meta[d].start_index)
  BY <1>2, OutsideFiles
<1> QED
  BY <1>2, <1>3, <1>4 DEF d

LEMMA RemoveDirStep ==
  ASSUME UpInv, NEW p \in ClientPath, rmdir(p)
  PROVE  UpInv'
<1> DEFINE i == path_index[p]
           d == meta[i].parent
           x == meta[d].start_index
<1>1. /\ dir_delete(p) /\ todo = <<>> /\ image' = image /\ todo' = rmdir_writes(i)
  BY DEF rmdir, Idle
<1>2. TreeNext
  BY <1>1 DEF TreeNext
<1>3. /\ Inv /\ Shape /\ TypeOK' /\ meta' \in [MetaIndex -> MetaEntry]
  BY <1>2, IsCall DEF TypeOK
<1>4. /\ i \in MetaIndex /\ i \in Live(meta) /\ i # Root /\ meta[i].type = DIR
      /\ \E v \in Vol : DirDeleteEffect(i, v)
  BY <1>1, <1>3, DirDeleteParts
<1> HIDE DEF i
<1>5. PICK v \in Vol : DirDeleteEffect(i, v)
  BY <1>4
<1>6. PICK r \in dir_remove_child(Volume, d, i) : v = r.vol
  BY <1>5 DEF DirDeleteEffect
<1>7. /\ d \in MetaIndex /\ x \in BlockIndex /\ ~ InFile(meta, blocks, x)
  BY <1>3, <1>4, ParentBlock
<1> HIDE DEF d
<1>8. Volume \in Vol /\ Volume.meta = meta /\ Volume.blocks = blocks
  BY <1>3, InvParts, VolumeTyped DEF Volume
<1>9. \A b \in BlockIndex : b # x => blocks'[b] = blocks[b]
  <2>1. \A b \in BlockIndex : b # Volume.meta[d].start_index => r.vol.blocks[b] = Volume.blocks[b]
    BY <1>4, <1>6, <1>7, <1>8, RemoveFrame
  <2> QED
    BY <1>5, <1>6, <1>8, <2>1 DEF DirDeleteEffect
<1>10. \A j \in FilesOf(meta') : j \in FilesOf(meta) /\ meta'[j].start_index = meta[j].start_index
  <2>1. meta'[i].valid = 1 /\ \A j \in MetaIndex \ {i} : meta'[j] = meta[j]
    BY <1>5 DEF DirDeleteEffect
  <2> QED
    BY <2>1 DEF FilesOf, Live
<1> DEFINE pre == BlockWrites(<<x>>)
           post == <<>>
<1>11. post \in Seq(Writes) /\ Late(post, {}, meta', blocks')
  BY NoLate
<1> HIDE DEF post, x
<1>12. Calls(pre, meta', post, meta, blocks, meta', blocks')
  BY <1>3, <1>7, <1>9, <1>10, <1>11, OneBlockCall
<1> HIDE DEF pre
<1>13. todo' = pre \o MetaWrite(meta') \o post
  <2>1. pre \in Seq(Writes)
    BY <1>12 DEF Calls
  <2>2. todo' = pre \o MetaWrite(meta')
    BY <1>1 DEF rmdir_writes, pre, x, d
  <2> QED
    BY <1>3, <2>1, <2>2, NoMore DEF post
<1> QED
  BY <1>1, <1>2, <1>12, <1>13, CallStep

LEMMA DeleteStep ==
  ASSUME UpInv, NEW p \in ClientPath, delete(p)
  PROVE  UpInv'
<1> DEFINE i == path_index[p]
           d == meta[i].parent
           x == meta[d].start_index
<1>1. /\ file_delete(p) /\ todo = <<>> /\ image' = image /\ todo' = delete_writes(i)
  BY DEF delete, Idle
<1>2. TreeNext
  BY <1>1 DEF TreeNext
<1>3. /\ Inv /\ Inv' /\ Shape /\ TypeOK' /\ meta' \in [MetaIndex -> MetaEntry]
      /\ free_bitmap' \in SUBSET BlockIndex
  BY <1>2, IsCall DEF TypeOK
<1>4. /\ i \in MetaIndex /\ i \in Live(meta) /\ i # Root /\ meta[i].type = FILE
      /\ \E s \in Chains(blocks, meta[i].start_index) : \E f \in Vol : \E v \in Vol :
            DeleteEffect(i, s, f, v)
  BY <1>1, <1>3, DeleteParts
<1> HIDE DEF i
<1>5. PICK s \in Chains(blocks, meta[i].start_index) : \E f \in Vol : \E v \in Vol :
            DeleteEffect(i, s, f, v)
  BY <1>4
<1>6. PICK f \in Vol : \E v \in Vol : DeleteEffect(i, s, f, v)
  BY <1>5
<1>7. PICK v \in Vol : DeleteEffect(i, s, f, v)
  BY <1>6
<1>8. /\ d \in MetaIndex /\ x \in BlockIndex /\ ~ InFile(meta, blocks, x)
  BY <1>3, <1>4, ParentBlock
<1>9. PICK r \in dir_remove_child(f, d, i) : v = r.vol
  BY <1>7, <1>8 DEF DeleteEffect
<1> HIDE DEF d
<1>10. \A b \in BlockIndex : b # x => blocks'[b] = blocks[b]
  <2>1. f.meta = meta /\ f.blocks = blocks /\ blocks' = r.vol.blocks
    BY <1>7, <1>9 DEF DeleteEffect
  <2>2. \A b \in BlockIndex : b # f.meta[d].start_index => r.vol.blocks[b] = f.blocks[b]
    BY <1>4, <1>8, <1>9, RemoveFrame
  <2> QED
    BY <2>1, <2>2
<1>11. \A j \in FilesOf(meta') : j \in FilesOf(meta) /\ meta'[j].start_index = meta[j].start_index
  <2>1. meta'[i].valid = 1 /\ \A j \in MetaIndex \ {i} : meta'[j] = meta[j]
    BY <1>7 DEF DeleteEffect
  <2> QED
    BY <2>1 DEF FilesOf, Live
<1> DEFINE pre == BlockWrites(<<x>>)
           post == BitmapWrite(free_bitmap')
<1>12. post \in Seq(Writes) /\ Late(post, {}, meta', blocks')
  <2>1. Marks(meta', blocks', free_bitmap')
    BY <1>3, MarkedFilesNext DEF Marks
  <2> QED
    BY <1>3, <2>1, LateBitmap
<1> HIDE DEF post, x
<1>13. Calls(pre, meta', post, meta, blocks, meta', blocks')
  BY <1>3, <1>8, <1>10, <1>11, <1>12, OneBlockCall
<1> HIDE DEF pre
<1>14. todo' = pre \o MetaWrite(meta') \o post
  BY <1>1 DEF delete_writes, pre, x, d, post
<1> QED
  BY <1>1, <1>2, <1>13, <1>14, CallStep

\* The chain a walk finds is the chain there is.
LEMMA ChosenChain ==
  ASSUME NEW blk \in [BlockIndex -> Block], NEW x \in 0 .. NB, NEW s \in Chains(blk, x)
  PROVE  (CHOOSE t \in Chains(blk, x) : TRUE) = s
<1> DEFINE c == CHOOSE t \in Chains(blk, x) : TRUE
<1>1. c \in Chains(blk, x)
  OBVIOUS
<1> HIDE DEF c
<1>2. c = s
  BY <1>1, ChainUnique
<1> QED
  BY <1>2 DEF c

LEMMA EditStep ==
  ASSUME UpInv, NEW p \in ClientPath, NEW pos \in Size, edit(p, pos)
  PROVE  UpInv'
<1> DEFINE i == path_index[p]
           n == pos \div BlockPayload + 1
<1>1. /\ file_edit(p, pos) /\ todo = <<>> /\ image' = image /\ todo' = edit_writes(i, pos)
  BY DEF edit, Idle
<1>2. TreeNext
  BY <1>1 DEF TreeNext
<1>3. /\ Inv /\ Shape /\ TypeOK /\ TypeOK' /\ meta' \in [MetaIndex -> MetaEntry]
      /\ blocks \in [BlockIndex -> Block] /\ blocks' \in [BlockIndex -> Block]
  BY <1>2, IsCall DEF TypeOK
<1>4. /\ UNCHANGED meta /\ \A b \in BlockIndex : blocks'[b].next = blocks[b].next
  BY <1>1, <1>3, EditParts
<1>5. PICK s \in Chains(blocks, meta[i].start_index) :
        n \in DOMAIN s /\ \E e \in Data : blocks' = [blocks EXCEPT ![s[n]].items = e]
  BY <1>1 DEF file_edit
<1>6. i \in MetaIndex /\ meta[i].start_index \in 0 .. NB
  BY <1>1, <1>3 DEF TypeOK, file_edit, MetaEntry
<1> DEFINE x == s[n]
<1>7. x \in BlockIndex
  BY <1>5, BlockSeqType DEF Chains
<1>8. edit_writes(i, pos) = BlockWrites(<<x>>) \o MetaWrite(meta')
  BY <1>3, <1>6, ChosenChain DEF edit_writes
<1> HIDE DEF i, n
<1>9. \A b \in BlockIndex : b # x => blocks'[b] = blocks[b]
  BY <1>3, <1>5, <1>7
<1> DEFINE pre == BlocksTo(<<x>>, blocks')
           post == <<>>
<1> HIDE DEF x
<1>10. pre \in Seq(Writes) /\ Early(pre, {x}, meta, blocks, blocks')
  <2>1. <<x>> \in Seq(BlockIndex) /\ BlocksOf(<<x>>) = {x}
    BY <1>7 DEF BlocksOf
  <2> QED
    BY <1>3, <2>1, EarlyBlocks
<1>11. post \in Seq(Writes) /\ Late(post, {}, meta', blocks')
  BY NoLate
<1>12. BlockWrites(<<x>>) = pre
  BY DEF BlockWrites, BlocksTo
<1> HIDE DEF pre, post
<1>13. MarksStay(post, meta, blocks, meta', blocks') /\ Soft(meta, blocks, blocks')
  <2>1. \A b : InFile(meta', blocks', b) => InFile(meta, blocks, b)
    <3>1. \A j \in FilesOf(meta') : j \in FilesOf(meta) /\ meta'[j].start_index = meta[j].start_index
      BY <1>4
    <3> QED
      BY <1>3, <1>4, <3>1, FilesSame
  <2> QED
    BY <1>4, <2>1 DEF MarksStay, Soft
<1>14. \E A, X : /\ Early(pre, A, meta, blocks, blocks') /\ Late(post, X, meta', blocks')
                 /\ \A b \in BlockIndex : b \in A \/ b \in X \/ blocks'[b] = blocks[b]
  <2>1. \A b \in BlockIndex : b \in {x} \/ b \in {} \/ blocks'[b] = blocks[b]
    BY <1>9
  <2> QED
    BY <1>10, <1>11, <2>1, Zenon
<1>15. Calls(pre, meta', post, meta, blocks, meta', blocks')
  BY <1>3, <1>10, <1>11, <1>13, <1>14, SameTableSelf, Zenon DEF Calls
<1>16. todo' = pre \o MetaWrite(meta') \o post
  BY <1>1, <1>3, <1>8, <1>10, <1>12, NoMore DEF post
<1> QED
  BY <1>1, <1>2, <1>15, <1>16, CallStep

\* dir_remove_child has one outcome.
LEMMA OneRemoval ==
  ASSUME NEW v \in Vol, NEW d \in MetaIndex, NEW c,
         NEW r \in dir_remove_child(v, d, c)
  PROVE  (CHOOSE o \in dir_remove_child(v, d, c) : TRUE) = r
<1> DEFINE Done(w) == IF c \in {w[k] : k \in DOMAIN w}
                      THEN [ok |-> TRUE,
                            vol |-> [v EXCEPT !.blocks = WithChildren(@, v.meta[d].start_index,
                                                                      EraseFirst(w, c))]]
                      ELSE [ok |-> FALSE, vol |-> v]
           o == CHOOSE o \in dir_remove_child(v, d, c) : TRUE
<1>1. v.blocks \in [BlockIndex -> Block] /\ v.meta[d].start_index \in 0 .. NB
  BY DEF Vol, MetaEntry
<1>2. dir_remove_child(v, d, c) = {Done(w) : w \in dir_block_read(v, d)}
  BY DEF dir_remove_child
<1>3. o \in dir_remove_child(v, d, c)
  OBVIOUS
<1> HIDE DEF Done, o
<1>4. PICK w1 \in dir_block_read(v, d) : r = Done(w1)
  BY <1>2
<1>5. PICK w2 \in dir_block_read(v, d) : o = Done(w2)
  BY <1>2, <1>3
<1>6. w1 = w2
  <2>1. PICK s1 \in Chains(v.blocks, v.meta[d].start_index) : w1 = Words(v.blocks, s1)
    BY DEF dir_block_read
  <2>2. PICK s2 \in Chains(v.blocks, v.meta[d].start_index) : w2 = Words(v.blocks, s2)
    BY DEF dir_block_read
  <2>3. s1 = s2
    BY <1>1, ChainUnique
  <2> QED
    BY <2>1, <2>2, <2>3
<1> QED
  BY <1>4, <1>5, <1>6 DEF o

\* Two blocks written one after the other, which are one block at times.
LEMMA TwoWrites ==
  ASSUME NEW y \in BlockIndex, NEW x \in BlockIndex, NEW e \in Block,
         NEW blk2 \in [BlockIndex -> Block], NEW m, NEW blk,
         ~ InFile(m, blk, y), ~ InFile(m, blk, x), y # x => e = blk2[y]
  PROVE  LET pre == <<Write("blocks", y, e)>> \o BlocksTo(<<x>>, blk2)
         IN  pre \in Seq(Writes) /\ Early(pre, {x, y}, m, blk, blk2)
<1> DEFINE w1 == Write("blocks", y, e)
           w2 == Write("blocks", x, blk2[x])
           pre == <<w1>> \o BlocksTo(<<x>>, blk2)
<1>1. /\ w1 \in Writes /\ w1.region = "blocks" /\ w1.at = y /\ w1.value = e
      /\ w2 \in Writes /\ w2.region = "blocks" /\ w2.at = x /\ w2.value = blk2[x]
  BY DEF Write, Writes
<1>2. BlocksTo(<<x>>, blk2) = <<w2>>
  <2>1. BlocksTo(<<x>>, blk2) = [k \in {1} |-> w2]
    BY DEF BlocksTo
  <2> QED
    BY <2>1
<1> HIDE DEF w1, w2
<1>3. pre = <<w1>> \o <<w2>>
  BY <1>2
<1> HIDE DEF pre
<1>4. /\ pre \in Seq(Writes) /\ DOMAIN pre = {1, 2} /\ pre[1] = w1 /\ pre[2] = w2
  <2>1. /\ <<w1>> \in Seq(Writes) /\ Len(<<w1>>) = 1 /\ <<w1>>[1] = w1
        /\ <<w2>> \in Seq(Writes) /\ Len(<<w2>>) = 1 /\ <<w2>>[1] = w2
    BY <1>1
  <2>2. /\ pre \in Seq(Writes) /\ Len(pre) = 1 + 1
        /\ \A k \in 1 .. 1 + 1 : pre[k] = IF k <= 1 THEN <<w1>>[k] ELSE <<w2>>[k - 1]
    BY <1>3, <2>1, ConcatProperties
  <2>3. DOMAIN pre = 1 .. 2
    BY <2>2
  <2>4. pre[1] = w1 /\ pre[2] = w2
    BY <2>1, <2>2
  <2> QED
    BY <2>2, <2>3, <2>4
<1>5. \/ w1.value = blk2[w1.at]
      \/ \E l \in DOMAIN pre : l > 1 /\ pre[l].at = w1.at
  <2>1. CASE y = x
    BY <1>1, <1>4, <2>1
  <2>2. CASE y # x
    BY <1>1, <2>2
  <2> QED
    BY <2>1, <2>2
<1>6. Early(pre, {x, y}, m, blk, blk2)
  BY <1>1, <1>4, <1>5 DEF Early
<1> QED
  BY <1>4, <1>6 DEF pre, w1

LEMMA RenameStep ==
  ASSUME UpInv, NEW p \in ClientPath, NEW q \in ClientPath, rename(p, q)
  PROVE  UpInv'
<1> DEFINE i == path_index[p]
           to == path_index[PrefixPath(q)]
           d == meta[i].parent
           y == meta[d].start_index
<1>1. /\ RenameInside(p, q) /\ file_rename(p, q) /\ MayRename(p, q)
      /\ todo = <<>> /\ image' = image /\ todo' = rename_writes(i, q)
  BY DEF rename, Idle, RenameInside, file_rename
<1>2. TreeNext
  BY <1>1 DEF TreeNext
<1>3. /\ Inv /\ Shape /\ TypeOK /\ TypeOK' /\ meta' \in [MetaIndex -> MetaEntry]
      /\ blocks \in [BlockIndex -> Block] /\ blocks' \in [BlockIndex -> Block]
  BY <1>2, IsCall DEF TypeOK
<1>4. PICK r \in dir_remove_child(Volume, d, i) :
        \E a \in dir_add_child(Moved(p, q, r), to, i) : a.ok /\ Becomes(a.vol)
  BY <1>1 DEF file_rename
<1>5. PICK a \in dir_add_child(Moved(p, q, r), to, i) : a.ok /\ Becomes(a.vol)
  BY <1>4
<1> DEFINE v == Moved(p, q, r)
<1>6. /\ i \in Live(meta) /\ i # Root /\ to \in Live(meta) /\ v \in Vol
      /\ Live(v.meta) = Live(meta) /\ v.meta[i].parent = to
      /\ \A j \in MetaIndex : v.meta[j].type = meta[j].type
      /\ \A j \in MetaIndex \ {i} : v.meta[j] = meta[j]
      /\ v.meta[i].start_index = meta[i].start_index
      /\ v.free_bitmap = free_bitmap /\ v.blocks = r.vol.blocks
  BY <1>1, <1>3, MovedLinked
<1>7. Moves(p, q)
  BY <1>1, <1>3, RenameShape
<1>8. meta'[i].parent = to /\ meta[to].type = DIR
  BY <1>7 DEF Moves
<1> DEFINE x == meta'[to].start_index
<1>9. rename_writes(i, q) = <<Write("blocks", y, r.vol.blocks[y])>>
                            \o BlockWrites(<<x>>) \o MetaWrite(meta')
  <2>1. Volume \in Vol /\ d \in MetaIndex
    BY <1>3, <1>6, ParentBlock, VolumeTyped
  <2>2. (CHOOSE o \in dir_remove_child(Volume, d, i) : TRUE) = r
    BY <2>1, OneRemoval
  <2> QED
    BY <1>8, <2>2 DEF rename_writes
<1>10. v.meta \in [MetaIndex -> MetaEntry] /\ meta' = a.vol.meta /\ blocks' = a.vol.blocks
  BY <1>5, <1>6 DEF Becomes, Vol
<1> HIDE DEF v, to, i
<1>11. i \in MetaIndex /\ to \in MetaIndex /\ to \in Live(v.meta) /\ v.meta[to].type = DIR
  BY <1>6, <1>8 DEF Live
<1>12. Hung(v, to, a.vol, x)
  BY <1>5, <1>6, <1>10, <1>11, AddFrame DEF v
<1>13. x \in BlockIndex /\ \A b \in BlockIndex : b # x => blocks'[b] = v.blocks[b]
  BY <1>10, <1>12 DEF Hung
<1>14. ~ InFile(meta, blocks, x)
  <2>1. x = meta[to].start_index \/ x \notin free_bitmap
    <3>1. v.meta[to].start_index = meta[to].start_index
      BY <1>6, <1>11
    <3> QED
      BY <1>6, <1>12, <3>1 DEF Hung
  <2> QED
    BY <1>3, <1>6, <1>8, <2>1, OutsideFiles
<1>15. y \in BlockIndex /\ ~ InFile(meta, blocks, y) /\ d \in MetaIndex
  BY <1>3, <1>6, ParentBlock
<1>16. /\ r.vol.blocks \in [BlockIndex -> Block]
       /\ \A b \in BlockIndex : b # y => v.blocks[b] = blocks[b]
  <2>1. Volume \in Vol /\ Volume.meta = meta /\ Volume.blocks = blocks
    BY <1>3, VolumeTyped DEF Volume
  <2>2. /\ r.vol \in Vol
        /\ \A b \in BlockIndex : b # Volume.meta[d].start_index => r.vol.blocks[b] = Volume.blocks[b]
    BY <1>4, <1>11, <1>15, <2>1, RemoveFrame
  <2> QED
    BY <1>6, <2>1, <2>2 DEF Vol
<1>17. \A j \in FilesOf(meta') : j \in FilesOf(meta) /\ meta'[j].start_index = meta[j].start_index
  <2>1. FilesOf(meta') = FilesOf(v.meta) /\ \A j \in FilesOf(v.meta) : meta'[j] = v.meta[j]
    BY <1>10, <1>11, <1>12, HungFiles
  <2>2. \A j \in FilesOf(v.meta) : j \in FilesOf(meta) /\ v.meta[j].start_index = meta[j].start_index
    BY <1>6 DEF FilesOf, Live
  <2> QED
    BY <2>1, <2>2
<1> DEFINE e == r.vol.blocks[y]
           pre == <<Write("blocks", y, e)>> \o BlocksTo(<<x>>, blocks')
           post == <<>>
<1>18. e \in Block /\ (y # x => e = blocks'[y])
  BY <1>6, <1>13, <1>15, <1>16
<1>19. todo' = pre \o MetaWrite(meta')
  <2>1. BlockWrites(<<x>>) = BlocksTo(<<x>>, blocks')
    BY DEF BlockWrites, BlocksTo
  <2> QED
    BY <1>1, <1>9, <2>1
<1> HIDE DEF e, x, y, d
<1>20. pre \in Seq(Writes) /\ Early(pre, {x, y}, meta, blocks, blocks')
  BY <1>3, <1>13, <1>14, <1>15, <1>18, TwoWrites
<1>21. post \in Seq(Writes) /\ Late(post, {}, meta', blocks')
  BY NoLate
<1> HIDE DEF pre, post
<1>22. MarksStay(post, meta, blocks, meta', blocks') /\ Soft(meta, blocks, blocks')
  <2>1. \A b \in BlockIndex : InFile(meta, blocks, b) => blocks'[b].next = blocks[b].next
    BY <1>13, <1>14, <1>15, <1>16
  <2>2. \A b : InFile(meta', blocks', b) => InFile(meta, blocks, b)
    BY <1>3, <1>17, <2>1, FilesSame
  <2> QED
    BY <2>1, <2>2 DEF MarksStay, Soft
<1>23. \E A, X : /\ Early(pre, A, meta, blocks, blocks') /\ Late(post, X, meta', blocks')
                 /\ \A b \in BlockIndex : b \in A \/ b \in X \/ blocks'[b] = blocks[b]
  <2>1. \A b \in BlockIndex : b \in {x, y} \/ b \in {} \/ blocks'[b] = blocks[b]
    BY <1>13, <1>16
  <2> QED
    BY <1>20, <1>21, <2>1, Zenon
<1>24. Calls(pre, meta', post, meta, blocks, meta', blocks')
  BY <1>3, <1>20, <1>21, <1>22, <1>23, SameTableSelf, Zenon DEF Calls
<1>25. todo' = pre \o MetaWrite(meta') \o post
  BY <1>3, <1>19, <1>20, NoMore DEF post
<1> QED
  BY <1>1, <1>2, <1>24, <1>25, CallStep

\* The bitmap, then block x of a directory, both after the table.
LEMMA BitmapAndBlock ==
  ASSUME NEW used \in SUBSET BlockIndex, NEW x \in BlockIndex,
         NEW blk2 \in [BlockIndex -> Block], NEW m2, Marks(m2, blk2, used),
         ~ InFile(m2, blk2, x), NEW m, NEW blk
  PROVE  LET post == BitmapWrite(used) \o BlocksTo(<<x>>, blk2)
         IN  /\ post \in Seq(Writes) /\ Late(post, {x}, m2, blk2)
             /\ MarksStay(post, m, blk, m2, blk2)
             /\ BitmapWrite(used) \in Seq(Writes) /\ BlocksTo(<<x>>, blk2) \in Seq(Writes)
<1> DEFINE w1 == Write("free_bitmap", 0, used)
           w2 == Write("blocks", x, blk2[x])
           post == BitmapWrite(used) \o BlocksTo(<<x>>, blk2)
<1>1. /\ w1 \in Writes /\ w1.region = "free_bitmap" /\ w1.value = used
      /\ w2 \in Writes /\ w2.region = "blocks" /\ w2.at = x /\ w2.value = blk2[x]
  BY DEF Write, Writes
<1>2. BlocksTo(<<x>>, blk2) = <<w2>>
  <2>1. BlocksTo(<<x>>, blk2) = [k \in {1} |-> w2]
    BY DEF BlocksTo
  <2> QED
    BY <2>1
<1>3. BitmapWrite(used) = <<w1>>
  BY DEF BitmapWrite
<1> HIDE DEF w1, w2
<1>4. post = <<w1>> \o <<w2>>
  BY <1>2, <1>3
<1> HIDE DEF post
<1>5. /\ post \in Seq(Writes) /\ DOMAIN post = {1, 2} /\ post[1] = w1 /\ post[2] = w2
      /\ <<w1>> \in Seq(Writes) /\ <<w2>> \in Seq(Writes)
  <2>1. /\ <<w1>> \in Seq(Writes) /\ Len(<<w1>>) = 1 /\ <<w1>>[1] = w1
        /\ <<w2>> \in Seq(Writes) /\ Len(<<w2>>) = 1 /\ <<w2>>[1] = w2
    BY <1>1
  <2>2. /\ post \in Seq(Writes) /\ Len(post) = 1 + 1
        /\ \A k \in 1 .. 1 + 1 : post[k] = IF k <= 1 THEN <<w1>>[k] ELSE <<w2>>[k - 1]
    BY <1>4, <2>1, ConcatProperties
  <2>3. DOMAIN post = 1 .. 2
    BY <2>2
  <2>4. post[1] = w1 /\ post[2] = w2
    BY <2>1, <2>2
  <2> QED
    BY <2>1, <2>2, <2>3, <2>4
<1>6. Late(post, {x}, m2, blk2)
  <2>1. \A k \in DOMAIN post :
           \/ /\ post[k].region = "blocks" /\ post[k].value = blk2[post[k].at]
              /\ ~ InFile(m2, blk2, post[k].at)
           \/ post[k].region = "free_bitmap" /\ Marks(m2, blk2, post[k].value)
    BY <1>1, <1>5
  <2>2. Goes(post, 2, "blocks") /\ post[2].at = x /\ 2 \in DOMAIN post
    BY <1>1, <1>5 DEF Goes
  <2> QED
    BY <2>1, <2>2 DEF Late
<1>7. MarksStay(post, m, blk, m2, blk2)
  BY <1>1, <1>5 DEF MarksStay, Goes
<1> QED
  BY <1>2, <1>3, <1>5, <1>6, <1>7 DEF post

\* The table without the place of the new directory block tells the same.
LEMMA BlockUntold ==
  ASSUME NEW m \in [MetaIndex -> MetaEntry], NEW d \in Live(m), m[d].type = DIR,
         NEW b \in 0 .. NB
  PROVE  LET mv == [m EXCEPT ![d].start_index = b]
         IN  mv \in [MetaIndex -> MetaEntry] /\ SameTable(m, mv)
<1> DEFINE mv == [m EXCEPT ![d].start_index = b]
<1>1. d \in MetaIndex /\ m[d] \in MetaEntry
  BY DEF Live
<1>2. mv[d] = [m[d] EXCEPT !.start_index = b] /\ \A j \in MetaIndex \ {d} : mv[j] = m[j]
  BY <1>1
<1>3. mv \in [MetaIndex -> MetaEntry]
  <2>1. [m[d] EXCEPT !.start_index = b] \in MetaEntry
    BY <1>1 DEF MetaEntry
  <2>2. mv = [m EXCEPT ![d] = [m[d] EXCEPT !.start_index = b]]
    BY <1>1
  <2> QED
    BY <2>1, <2>2
<1>4. SameNode(m, mv, d)
  BY <1>1, <1>2 DEF SameNode, MetaEntry
<1> HIDE DEF mv
<1>5. Live(mv) = Live(m)
  BY <1>1, <1>2, <1>4 DEF Live, SameNode
<1>6. \A j \in Live(m) : SameNode(m, mv, j)
  BY <1>2, <1>4 DEF Live, SameNode
<1>7. \A j \in FilesOf(m) : mv[j] = m[j]
  BY <1>2 DEF FilesOf, Live, FILE, DIR
<1> QED
  BY <1>3, <1>5, <1>6, <1>7 DEF SameTable, mv

LEMMA CreateStep ==
  ASSUME UpInv, NEW p \in ClientPath, NEW size \in Size, create(p, size)
  PROVE  UpInv'
<1> DEFINE d == path_index[ParentPath(p)]
<1>1. /\ CreateInside(p, size) /\ file_create(p, size) /\ todo = <<>> /\ image' = image
  BY DEF create, Idle, CreateInside
<1>2. TreeNext
  BY <1>1 DEF TreeNext
<1>3. /\ Inv /\ Inv' /\ Shape /\ TypeOK /\ TypeOK' /\ meta' \in [MetaIndex -> MetaEntry]
      /\ blocks \in [BlockIndex -> Block] /\ blocks' \in [BlockIndex -> Block]
      /\ meta \in [MetaIndex -> MetaEntry] /\ free_bitmap \in SUBSET BlockIndex
  BY <1>2, IsCall DEF TypeOK
<1>4. PICK i \in MetaIndex : \E s \in BlockSeq : \E v \in Vol :
            /\ Creates(p, size, i, s, v)
            /\ \E r \in dir_add_child(v, d, i) : Becomes(r.vol)
            /\ path_index' = Inserted(p, i)
  BY <1>1, <1>3, CreateParts
<1>5. PICK s \in BlockSeq : \E v \in Vol :
            /\ Creates(p, size, i, s, v)
            /\ \E r \in dir_add_child(v, d, i) : Becomes(r.vol)
            /\ path_index' = Inserted(p, i)
  BY <1>4
<1>6. PICK v \in Vol :
            /\ Creates(p, size, i, s, v)
            /\ \E r \in dir_add_child(v, d, i) : Becomes(r.vol)
            /\ path_index' = Inserted(p, i)
  BY <1>5
<1>7. PICK r \in dir_add_child(v, d, i) : Becomes(r.vol)
  BY <1>6
<1>8. path_index'[p] = i
  BY <1>6 DEF Inserted
<1>9. PICK s2 \in Chains(blocks', meta'[i].start_index) : todo' = create_writes(i, s2)
  BY <1>8 DEF create
<1>10. /\ d \in Live(meta) /\ i \notin Live(meta)
       /\ \A k \in 1 .. Len(s) : s[k] \in BlockIndex /\ s[k] \notin free_bitmap
       /\ v.free_bitmap = free_bitmap \cup BlocksOf(s)
       /\ \A b \in free_bitmap : v.blocks[b] = blocks[b]
       /\ \A b \in BlockIndex : b \notin BlocksOf(s) => v.blocks[b] = blocks[b]
       /\ \A k \in 1 .. Len(s) : v.blocks[s[k]].next = NextIn(s, k)
       /\ Live(v.meta) = Live(meta) \cup {i}
       /\ \A j \in MetaIndex \ {i} : v.meta[j] = meta[j]
  BY <1>6 DEF Creates
<1>11. v.meta[i].start_index = FirstOf(s) /\ v.meta[i].parent = d /\ v.meta[i].type = FILE
  <2>1. v.meta[i] = NewEntry(FILE, p, FirstOf(s), size)
    BY <1>6 DEF Creates
  <2> QED
    BY <2>1 DEF NewEntry
<1>12. meta[d].type = DIR
  <2>1. PICK n \in MetaIndex : Grows(p, FILE, size, n)
    BY <1>1, <1>3, CreateShape
  <2> QED
    BY <2>1 DEF Grows
<1> DEFINE x == meta'[d].start_index
           mv == [meta' EXCEPT ![d].start_index = meta[d].start_index]
<1> HIDE DEF d
<1>13. d \in MetaIndex /\ d # i /\ d \in Live(v.meta) /\ v.meta[d] = meta[d]
       /\ v.meta[d].type = DIR
  BY <1>10, <1>12 DEF Live
<1>14. meta' = r.vol.meta /\ blocks' = r.vol.blocks /\ free_bitmap' = r.vol.free_bitmap
  BY <1>7 DEF Becomes
<1>15. r.ok
  <2> SUFFICES ASSUME ~ r.ok PROVE FALSE
    OBVIOUS
  <2>1. r.vol = v /\ v.meta[d].start_index = 0
    BY <1>7, <1>13, AddChild DEF AddFails, AddLists, AddAllocates
  <2>2. AllHang(meta', blocks')
    BY <1>1, <1>3, CreateShape DEF Shape
  <2>3. i \in Live(meta') \ {Root} /\ meta'[i].parent = d
    BY <1>6, <1>10, <1>11, <1>14, <2>1 DEF Creates
  <2>4. Lists(meta', blocks', d, i)
    BY <2>2, <2>3 DEF AllHang
  <2> QED
    BY <1>14, <2>1, <2>4 DEF Lists, IsDirWithBlock
<1>16. Hung(v, d, r.vol, x)
  BY <1>7, <1>13, <1>14, <1>15, AddFrame
<1>17. /\ x \in BlockIndex /\ \A b \in BlockIndex : b # x => blocks'[b] = v.blocks[b]
       /\ free_bitmap' \subseteq v.free_bitmap \cup {x}
       /\ meta'[i] = v.meta[i] /\ d \in Live(meta') /\ meta'[d].type = DIR
  BY <1>13, <1>14, <1>16 DEF Hung, SameNode, Live
\* The block of the directory is none of the file's.
<1>18. x \notin BlocksOf(s)
  <2>1. \A b \in BlocksOf(s) : b \in v.free_bitmap /\ b \notin free_bitmap
    BY <1>10, BlockSeqType DEF BlocksOf
  <2>2. meta[d].start_index # 0 => meta[d].start_index \in free_bitmap
    BY <1>3, <1>10 DEF Inv, WellLinked
  <2>3. x # 0 /\ (x = meta[d].start_index \/ x \notin v.free_bitmap)
    BY <1>13, <1>16, <1>17, SizesAssumption DEF Hung, BlockIndex
  <2> QED
    BY <2>1, <2>2, <2>3
<1>19. s2 = s
  <2>1. \A k \in 1 .. Len(s) : blocks'[s[k]].next = NextIn(s, k)
    <3>1. \A k \in 1 .. Len(s) : s[k] \in BlockIndex /\ s[k] # x
      BY <1>10, <1>18, BlockSeqType DEF BlocksOf
    <3> QED
      BY <1>10, <1>17, <3>1
  <2>2. DOMAIN s = 1 .. Len(s)
    BY BlockSeqType
  <2>3. meta'[i].start_index = FirstOf(s)
    BY <1>11, <1>17
  <2>4. s \in Chains(blocks', meta'[i].start_index)
    BY <2>1, <2>2, <2>3 DEF Chains
  <2>5. meta'[i].start_index \in 0 .. NB
    BY <1>3 DEF MetaEntry
  <2> QED
    BY <1>3, <1>9, <2>4, <2>5, ChainUnique
<1> DEFINE used == free_bitmap \cup BlocksOf(s)
           pre == BlocksTo(s, blocks')
           post == BitmapWrite(used) \o BlocksTo(<<x>>, blocks')
<1>20. /\ s \in Seq(BlockIndex) /\ used \in SUBSET BlockIndex
  BY <1>3, BlockSeqType DEF BlocksOf
<1>21. ~ InFile(meta', blocks', x)
  BY <1>3, <1>17, MarkedFilesNext
<1>22. Marks(meta', blocks', used)
  <2> SUFFICES ASSUME NEW b \in BlockIndex, InFile(meta', blocks', b) PROVE b \in used
    BY DEF Marks
  <2>1. b \in free_bitmap' /\ b # x
    BY <1>3, <1>17, MarkedFilesNext
  <2> QED
    BY <1>10, <1>17, <2>1
<1>23. mv \in [MetaIndex -> MetaEntry] /\ SameTable(meta', mv)
  <2>1. meta[d].start_index \in 0 .. NB
    BY <1>3, <1>13 DEF MetaEntry
  <2> QED
    BY <1>3, <1>17, <2>1, BlockUntold
<1>24. todo' = BlocksTo(s, blocks') \o MetaWrite(mv) \o BitmapWrite(used) \o BlocksTo(<<x>>, blocks')
  <2>1. meta'[i].parent = d
    BY <1>11, <1>17
  <2>2. BlockWrites(s) = BlocksTo(s, blocks') /\ BlockWrites(<<x>>) = BlocksTo(<<x>>, blocks')
    BY DEF BlockWrites, BlocksTo
  <2> QED
    BY <1>9, <1>19, <2>1, <2>2 DEF create_writes
<1> HIDE DEF x, mv, used
<1>25. pre \in Seq(Writes) /\ Early(pre, BlocksOf(s), meta, blocks, blocks')
  BY <1>3, <1>20, EarlyBlocks
<1>26. /\ post \in Seq(Writes) /\ Late(post, {x}, meta', blocks')
       /\ MarksStay(post, meta, blocks, meta', blocks')
       /\ BitmapWrite(used) \in Seq(Writes) /\ BlocksTo(<<x>>, blocks') \in Seq(Writes)
  BY <1>3, <1>17, <1>20, <1>21, <1>22, BitmapAndBlock
<1>27. \A b \in BlockIndex : b \in BlocksOf(s) \/ b \in {x} \/ blocks'[b] = blocks[b]
  BY <1>10, <1>17
<1>28. Soft(meta, blocks, blocks')
  <2>1. \A b \in BlockIndex : InFile(meta, blocks, b) => b \in free_bitmap /\ b # x
    <3>1. x = meta[d].start_index \/ x \notin free_bitmap
      BY <1>10, <1>13, <1>16 DEF Hung
    <3>2. ~ InFile(meta, blocks, x)
      BY <1>3, <1>10, <1>12, <3>1, OutsideFiles
    <3> QED
      BY <1>3, <3>2, MarkedFiles
  <2> QED
    BY <1>10, <1>17, <2>1 DEF Soft
<1>29. todo' = pre \o MetaWrite(mv) \o post
  <2> DEFINE w == Write("meta", 0, mv)
             b1 == BitmapWrite(used)
             b2 == BlocksTo(<<x>>, blocks')
  <2>1. w \in Writes
    BY <1>23 DEF Writes, Write
  <2>2. MetaWrite(mv) = <<w>>
    BY DEF MetaWrite
  <2> HIDE DEF w
  <2>3. pre \o <<w>> \in Seq(Writes)
    BY <1>25, <2>1
  <2>4. b1 \in Seq(Writes) /\ b2 \in Seq(Writes)
    BY <1>26
  <2>5. todo' = ((pre \o <<w>>) \o b1) \o b2
    BY <1>24, <2>2
  <2> DEFINE a == pre \o <<w>>
  <2>6. a \in Seq(Writes) /\ todo' = (a \o b1) \o b2
    BY <2>3, <2>5
  <2> HIDE DEF b1, b2, a
  <2>7. (a \o b1) \o b2 = a \o (b1 \o b2)
    BY <2>4, <2>6, ConcatAssociative
  <2> QED
    BY <2>2, <2>6, <2>7 DEF a, b1, b2
<1> HIDE DEF pre, post
<1>30. \E A, X : /\ Early(pre, A, meta, blocks, blocks') /\ Late(post, X, meta', blocks')
                 /\ \A b \in BlockIndex : b \in A \/ b \in X \/ blocks'[b] = blocks[b]
  BY <1>25, <1>26, <1>27, Zenon
<1>31. Calls(pre, mv, post, meta, blocks, meta', blocks')
  BY <1>23, <1>25, <1>26, <1>28, <1>30, Zenon DEF Calls
<1> QED
  BY <1>1, <1>2, <1>29, <1>31, CallStep

\* The blocks of the list c from the one at place keep on, that one by itself.
LEMMA TailWrites ==
  ASSUME NEW c \in Seq(BlockIndex), NEW keep \in 0 .. Len(c),
         NEW blk2 \in [BlockIndex -> Block], NEW m, NEW blk
  PROVE  LET pre == (IF keep = 0 THEN <<>> ELSE BlocksTo(<<c[keep]>>, blk2))
                    \o BlocksTo(SubSeq(c, keep + 1, Len(c)), blk2)
             A == {c[k] : k \in {l \in 1 .. Len(c) : l >= keep}}
         IN  pre \in Seq(Writes) /\ Early(pre, A, m, blk, blk2)
<1> DEFINE one == IF keep = 0 THEN <<>> ELSE BlocksTo(<<c[keep]>>, blk2)
           rest == SubSeq(c, keep + 1, Len(c))
           more == BlocksTo(rest, blk2)
           pre == one \o more
           A == {c[k] : k \in {l \in 1 .. Len(c) : l >= keep}}
<1>1. /\ Len(c) \in Nat /\ keep \in Nat /\ keep <= Len(c) /\ DOMAIN c = 1 .. Len(c)
      /\ \A k \in 1 .. Len(c) : c[k] \in BlockIndex
  OBVIOUS
<1>2. /\ one \in Seq(Writes) /\ DOMAIN one = 1 .. Len(one) /\ Len(one) = IF keep = 0 THEN 0 ELSE 1
      /\ \A k \in 1 .. Len(one) : one[k].region = "blocks" /\ one[k].value = blk2[one[k].at]
      /\ keep # 0 => one[1].at = c[keep]
  <2>1. CASE keep = 0
    <3> DEFINE e == <<>>
    <3>1. e \in Seq(Writes) /\ DOMAIN e = 1 .. Len(e) /\ Len(e) = 0
      OBVIOUS
    <3>2. one = e
      BY <2>1
    <3> HIDE DEF e, one
    <3> QED
      BY <2>1, <3>1, <3>2
  <2>2. CASE keep # 0
    <3> DEFINE z == <<c[keep]>>
    <3>1. z \in Seq(BlockIndex) /\ Len(z) = 1 /\ z[1] = c[keep]
      BY <1>1, <2>2
    <3>2. one = BlocksTo(z, blk2)
      BY <2>2
    <3> HIDE DEF z, one
    <3>3. /\ one \in Seq(Writes) /\ Len(one) = 1 /\ DOMAIN one = 1 .. 1
          /\ \A k \in 1 .. 1 : /\ one[k].region = "blocks" /\ one[k].at = z[k]
                               /\ one[k].value = blk2[z[k]]
      BY <3>1, <3>2, BlocksToIs
    <3> QED
      BY <2>2, <3>1, <3>3
  <2> QED
    BY <2>1, <2>2
<1>3. rest \in Seq(BlockIndex) /\ Len(rest) = Len(c) - keep
      /\ \A k \in 1 .. Len(c) - keep : rest[k] = c[keep + k]
  <2>1. keep + 1 \in Int /\ Len(c) \in Int /\ \A k \in keep + 1 .. Len(c) : c[k] \in BlockIndex
    BY <1>1
  <2>2. /\ rest \in Seq(BlockIndex)
        /\ Len(rest) = IF keep + 1 <= Len(c) THEN Len(c) - (keep + 1) + 1 ELSE 0
        /\ \A k \in 1 .. Len(c) - (keep + 1) + 1 : rest[k] = c[(keep + 1) + k - 1]
    BY <2>1, SubSeqProperties
  <2> HIDE DEF rest
  <2>3. /\ Len(c) - (keep + 1) + 1 = Len(c) - keep
        /\ \A k \in 1 .. Len(c) - keep : (keep + 1) + k - 1 = keep + k
    BY <1>1
  <2>4. Len(rest) = Len(c) - keep
    <3> DEFINE n == Len(c)
    <3>1. n \in Nat /\ Len(rest) = IF keep + 1 <= n THEN n - (keep + 1) + 1 ELSE 0
      BY <1>1, <2>2
    <3> HIDE DEF n
    <3>2. CASE keep + 1 <= n
      BY <1>1, <3>1, <3>2 DEF n
    <3>3. CASE ~(keep + 1 <= n)
      <4>1. Len(rest) = 0
        BY <3>1, <3>3
      <4>2. keep \in Nat /\ keep <= n
        BY <1>1 DEF n
      <4>3. n - keep = 0
        BY <3>1, <3>3, <4>2
      <4> QED
        BY <4>1, <4>3 DEF n
    <3> QED
      BY <3>2, <3>3
  <2>5. ASSUME NEW k \in 1 .. Len(c) - keep PROVE rest[k] = c[keep + k]
    BY <2>2, <2>3
  <2> QED
    BY <2>2, <2>4, <2>5
<1> HIDE DEF one, rest
<1>4. /\ more \in Seq(Writes) /\ Len(more) = Len(c) - keep /\ DOMAIN more = 1 .. Len(c) - keep
      /\ \A k \in 1 .. Len(c) - keep : /\ more[k].region = "blocks" /\ more[k].at = c[keep + k]
                                       /\ more[k].value = blk2[more[k].at]
  <2>1. /\ more \in Seq(Writes) /\ Len(more) = Len(rest)
        /\ DOMAIN more = DOMAIN rest /\ DOMAIN rest = 1 .. Len(rest)
        /\ \A k \in DOMAIN rest : /\ more[k].region = "blocks" /\ more[k].at = rest[k]
                                  /\ more[k].value = blk2[rest[k]]
    BY <1>3, BlocksToIs
  <2> HIDE DEF more
  <2> QED
    BY <1>3, <2>1
<1> HIDE DEF more
<1>5. /\ pre \in Seq(Writes) /\ Len(pre) = Len(one) + Len(more)
      /\ \A k \in 1 .. Len(one) + Len(more) :
            pre[k] = IF k <= Len(one) THEN one[k] ELSE more[k - Len(one)]
  BY <1>2, <1>4, ConcatProperties
<1> HIDE DEF pre
<1>6. DOMAIN pre = 1 .. Len(one) + Len(more)
  BY <1>5
<1>7. \A k \in DOMAIN pre : pre[k].region = "blocks" /\ pre[k].value = blk2[pre[k].at]
  <2> TAKE k \in DOMAIN pre
  <2>1. CASE k <= Len(one)
    BY <1>2, <1>5, <1>6, <2>1
  <2>2. CASE ~(k <= Len(one))
    <3>1. k - Len(one) \in 1 .. Len(c) - keep
      BY <1>1, <1>2, <1>4, <1>6, <2>2
    <3> QED
      BY <1>4, <1>5, <1>6, <2>2, <3>1
  <2> QED
    BY <2>1, <2>2
<1>8. \A b \in A : \E k \in DOMAIN pre : pre[k].at = b
  <2> SUFFICES ASSUME NEW l \in 1 .. Len(c), l >= keep
               PROVE  \E k \in DOMAIN pre : pre[k].at = c[l]
    OBVIOUS
  <2>1. CASE l = keep
    <3>1. keep # 0 /\ Len(one) = 1
      BY <1>2, <2>1
    <3>2. 1 \in 1 .. Len(one) + Len(more)
      BY <1>1, <1>4, <3>1
    <3>3. pre[1] = one[1]
      BY <1>5, <3>1, <3>2
    <3> QED
      BY <1>2, <1>6, <2>1, <3>1, <3>2, <3>3
  <2>2. CASE l # keep
    <3> DEFINE k == l - keep
               q == Len(one) + k
    <3>1. k \in 1 .. Len(c) - keep /\ keep + k = l
      BY <1>1, <2>2
    <3>2. Len(one) \in Nat /\ q \in 1 .. Len(one) + Len(more) /\ ~(q <= Len(one))
          /\ q - Len(one) = k
      BY <1>1, <1>2, <1>4, <3>1
    <3>3. pre[q] = more[k]
      BY <1>5, <3>2
    <3>4. more[k].at = c[l]
      BY <1>4, <3>1
    <3> HIDE DEF q
    <3> QED
      BY <1>6, <3>2, <3>3, <3>4
  <2> QED
    BY <2>1, <2>2
<1> HIDE DEF A
<1>9. Early(pre, A, m, blk, blk2)
  BY <1>7, <1>8 DEF Early
<1> QED
  BY <1>5, <1>9 DEF A, pre, one, more, rest

\* What file_truncate leaves: the chain c of the file, which differs from the
\* chain s it had only from its block number keep on.
Truncated(i, s, c, keep) ==
  /\ c \in Chains(blocks', meta'[i].start_index)
  /\ keep = IF Len(c) < Len(s) THEN Len(c) ELSE Len(s)
  /\ \A b \in BlockIndex : \/ blocks'[b] = blocks[b]
                           \/ \E k \in 1 .. Len(c) : k >= keep /\ c[k] = b
  /\ Soft(meta, blocks, blocks')
  /\ Len(c) = Len(s) => UNCHANGED <<free_bitmap, blocks>> /\ meta'[i].start_index = meta[i].start_index

LEMMA KeptWhole ==
  ASSUME Inv, TypeOK', NEW i \in Live(meta), meta[i].type = FILE,
         NEW s \in Chains(blocks, meta[i].start_index), NEW need, SameBlocks(i, s, need)
  PROVE  \E c, keep : Truncated(i, s, c, keep)
<1>1. /\ blocks' = blocks /\ free_bitmap' = free_bitmap
      /\ meta'[i].start_index = meta[i].start_index
  BY DEF SameBlocks, SameLinks
<1>2. Soft(meta, blocks, blocks')
  BY <1>1 DEF Soft
<1>3. Truncated(i, s, s, Len(s))
  BY <1>1, <1>2 DEF Truncated
<1> QED
  BY <1>3

LEMMA KeptHead ==
  ASSUME Inv, TypeOK', NEW i \in Live(meta), meta[i].type = FILE,
         NEW s \in Chains(blocks, meta[i].start_index), NEW need \in Nat, FewerBlocks(i, s, need)
  PROVE  \E c, keep : Truncated(i, s, c, keep)
<1>1. /\ s \in BlockSeq /\ Len(s) \in Nat /\ DOMAIN s = 1 .. Len(s)
      /\ \A k \in 1 .. Len(s) : s[k] \in BlockIndex
      /\ \A k, l \in 1 .. Len(s) : s[k] = s[l] => k = l
  BY BlockSeqType DEF Chains
<1>2. /\ blocks \in [BlockIndex -> Block] /\ blocks' \in [BlockIndex -> Block]
      /\ meta[i].start_index \in 0 .. NB /\ i \in MetaIndex
  BY DEF Inv, TypeOK, Live, MetaEntry
<1>3. /\ need < Len(s)
      /\ \A b \in BlockIndex : blocks'[b].next \in {blocks[b].next, 0}
  BY DEF FewerBlocks
<1>4. Soft(meta, blocks, blocks')
  BY <1>3 DEF Soft
<1>5. CASE need = 0
  <2> DEFINE c == <<>>
  <2>1. c \in Chains(blocks', 0) /\ Len(c) = 0
    BY NoChain
  <2>2. meta'[i].start_index = 0 /\ blocks' = blocks
    BY <1>5 DEF FewerBlocks
  <2> HIDE DEF c
  <2>3. Truncated(i, s, c, 0)
    BY <1>1, <1>3, <1>4, <1>5, <2>1, <2>2 DEF Truncated
  <2> QED
    BY <2>3
<1>6. CASE need # 0
  <2>1. /\ need \in 1 .. Len(s) /\ blocks'[s[need]].next = 0
        /\ meta'[i].start_index = meta[i].start_index
        /\ \A b \in BlockIndex : b # s[need] => blocks'[b] = blocks[b]
    BY <1>1, <1>3, <1>6 DEF FewerBlocks, SameLinks
  <2>2. PointsTo(blocks, blocks', s, need, 0)
    BY <1>1, <2>1 DEF PointsTo
  <2>3. HasHead(blocks', meta[i].start_index, s, need)
    BY <1>2, <2>2, ChainHead
  <2>4. PICK c \in Chains(blocks', meta[i].start_index) :
           Len(c) = need /\ \A b : b \in BlocksOf(c) <=> \E k \in 1 .. need : b = s[k]
    BY <2>3 DEF HasHead
  <2>5. /\ c \in BlockSeq /\ DOMAIN c = 1 .. Len(c)
        /\ \A k \in 1 .. Len(c) : c[k] \in BlockIndex
    BY BlockSeqType DEF Chains
\* The last block kept is the one without a next.
  <2>6. c[need] = s[need]
    <3>1. s[need] \in BlocksOf(c)
      BY <2>1, <2>4
    <3>2. PICK k \in 1 .. need : c[k] = s[need]
      BY <2>4, <2>5, <3>1 DEF BlocksOf
    <3>3. NextIn(c, k) = 0
      BY <2>1, <2>4, <2>5, <3>2 DEF Chains
    <3>4. k = need
      <4> SUFFICES ASSUME k # need PROVE FALSE
        OBVIOUS
      <4>1. k < Len(c) /\ k + 1 \in 1 .. Len(c)
        BY <2>4, <3>2
      <4> QED
        BY <2>5, <3>3, <4>1 DEF NextIn, BlockIndex
    <3> QED
      BY <3>2, <3>4
  <2>7. need \in 1 .. Len(c) /\ need >= need
    BY <2>1, <2>4
  <2>8. \A b \in BlockIndex : \/ blocks'[b] = blocks[b]
                              \/ \E k \in 1 .. Len(c) : k >= need /\ c[k] = b
    BY <2>1, <2>6, <2>7
  <2>9. need = (IF Len(c) < Len(s) THEN Len(c) ELSE Len(s)) /\ Len(c) # Len(s)
    <3>1. Len(c) = need /\ need < Len(s) /\ need \in Nat /\ Len(s) \in Nat
      BY <1>1, <1>3, <2>4
    <3>2. need # Len(s)
      BY <3>1
    <3> QED
      BY <3>1, <3>2
  <2>10. c \in Chains(blocks', meta'[i].start_index)
    BY <2>1, <2>4
  <2>11. Truncated(i, s, c, need)
    BY <1>4, <2>8, <2>9, <2>10 DEF Truncated
  <2> QED
    BY <2>11
<1> QED
  BY <1>5, <1>6

LEMMA KeptAndMore ==
  ASSUME Inv, TypeOK', NEW i \in Live(meta), meta[i].type = FILE,
         NEW s \in Chains(blocks, meta[i].start_index), NEW need \in Nat,
         NEW new \in BlockSeq, MoreBlocks(i, s, need, new)
  PROVE  \E c, keep : Truncated(i, s, c, keep)
<1>1. /\ s \in BlockSeq /\ Len(s) \in Nat /\ DOMAIN s = 1 .. Len(s)
      /\ \A k \in 1 .. Len(s) : s[k] \in BlockIndex
      /\ new \in BlockSeq /\ Len(new) \in Nat /\ DOMAIN new = 1 .. Len(new)
      /\ \A k \in 1 .. Len(new) : new[k] \in BlockIndex
  BY BlockSeqType DEF Chains
<1>2. /\ blocks \in [BlockIndex -> Block] /\ blocks' \in [BlockIndex -> Block]
      /\ meta \in [MetaIndex -> MetaEntry] /\ free_bitmap \in SUBSET BlockIndex
      /\ WellLinked(meta, free_bitmap, blocks)
      /\ meta[i].start_index \in 0 .. NB /\ i \in MetaIndex
  BY DEF Inv, TypeOK, Live, MetaEntry
<1>3. Len(new) # 0 /\ need = Len(s) + Len(new)
  <2>1. need > Len(s) /\ Len(new) = need - Len(s) /\ need \in Nat /\ Len(s) \in Nat
    BY <1>1 DEF MoreBlocks
  <2>2. need - Len(s) # 0 /\ need = Len(s) + (need - Len(s))
    BY <2>1
  <2> QED
    BY <2>1, <2>2
<1>4. /\ \A k \in 1 .. Len(new) : new[k] \notin free_bitmap /\ blocks'[new[k]].next = NextIn(new, k)
      /\ \A b \in BlockIndex : b \notin BlocksOf(new) /\ (Len(s) = 0 \/ b # s[Len(s)])
                                => blocks'[b] = blocks[b]
      /\ Len(s) = 0 => meta'[i].start_index = new[1]
      /\ Len(s) # 0 => /\ meta'[i].start_index = meta[i].start_index
                       /\ blocks'[s[Len(s)]].next = new[1]
  BY DEF MoreBlocks, SameLinks
<1>5. \A k \in 1 .. Len(s) : s[k] \in free_bitmap
  <2>1. Owns(meta, free_bitmap, blocks, i, s)
    BY <1>2, ChainOwned
  <2> QED
    BY <2>1 DEF Owns
<1>6. \A b : b \in BlocksOf(new) => \E k \in 1 .. Len(new) : new[k] = b
  BY <1>1 DEF BlocksOf
<1>7. Soft(meta, blocks, blocks')
  <2> SUFFICES ASSUME NEW b \in BlockIndex, InFile(meta, blocks, b), blocks[b].next # 0
               PROVE  blocks'[b] = blocks[b]
    BY DEF Soft
  <2>0. blocks[b].next # 0
    OBVIOUS
  <2>1. b \notin BlocksOf(new)
    BY <1>4, <1>6, MarkedFiles
  <2>2. Len(s) # 0 => b # s[Len(s)]
    <3>1. Len(s) >= 1 => blocks[s[Len(s)]].next = 0
      BY <1>2, ChainStep
    <3>2. Len(s) # 0 => Len(s) >= 1
      BY <1>1
    <3> QED
      BY <2>0, <3>1, <3>2
  <2> QED
    BY <1>4, <2>1, <2>2
<1>8. CASE Len(s) = 0
  <2>1. new \in Chains(blocks', meta'[i].start_index)
    BY <1>1, <1>3, <1>4, <1>8 DEF Chains, FirstOf
  <2>2. \A b \in BlockIndex : \/ blocks'[b] = blocks[b]
                              \/ \E k \in 1 .. Len(new) : k >= 0 /\ new[k] = b
    BY <1>1, <1>4, <1>6, <1>8
  <2>3. Truncated(i, s, new, 0)
    BY <1>1, <1>3, <1>7, <1>8, <2>1, <2>2 DEF Truncated
  <2> QED
    BY <2>3
<1>9. CASE Len(s) # 0
  <2>1. Len(s) \in 1 .. Len(s)
    BY <1>1, <1>9
  <2>2. BlocksOf(new) \cap BlocksOf(s) = {}
    BY <1>1, <1>4, <1>5 DEF BlocksOf
  <2>3. PointsTo(blocks, blocks', s, Len(s), new[1])
    <3>1. \A k \in 1 .. Len(s) : s[k] \notin BlocksOf(new)
      BY <1>1, <2>2 DEF BlocksOf
    <3>2. \A k, l \in 1 .. Len(s) : s[k] = s[l] => k = l
      BY <1>1, BlockSeqType
    <3> QED
      BY <1>1, <1>4, <1>9, <2>1, <3>1, <3>2 DEF PointsTo
  <2>4. \A k \in 1 .. Len(new) : blocks'[new[k]].next = NextIn(new, k)
    BY <1>4
  <2>5. HasBoth(blocks', meta[i].start_index, s, new)
    BY <1>2, <1>3, <1>9, <2>2, <2>3, <2>4, ChainJoined
  <2>6. PICK c \in Chains(blocks', meta[i].start_index) :
           /\ Len(c) = Len(s) + Len(new)
           /\ \A k \in 1 .. Len(s) : c[k] = s[k]
           /\ \A k \in 1 .. Len(new) : c[Len(s) + k] = new[k]
    BY <2>5 DEF HasBoth
  <2>7. ASSUME NEW b \in BlockIndex, b \in BlocksOf(new) \/ b = s[Len(s)]
        PROVE  \E k \in 1 .. Len(c) : k >= Len(s) /\ c[k] = b
    <3>1. CASE b = s[Len(s)]
      <4>1. Len(s) \in 1 .. Len(c) /\ Len(s) >= Len(s)
        BY <1>1, <2>1, <2>6
      <4> QED
        BY <2>1, <2>6, <3>1, <4>1
    <3>2. CASE b \in BlocksOf(new)
      <4>1. PICK k \in 1 .. Len(new) : new[k] = b
        BY <1>6, <3>2
      <4>2. Len(s) + k \in 1 .. Len(c) /\ Len(s) + k >= Len(s)
        BY <1>1, <2>6
      <4>3. c[Len(s) + k] = b
        BY <2>6, <4>1
      <4> QED
        BY <4>2, <4>3
    <3> QED
      BY <2>7, <3>1, <3>2
  <2>8. \A b \in BlockIndex : \/ blocks'[b] = blocks[b]
                              \/ \E k \in 1 .. Len(c) : k >= Len(s) /\ c[k] = b
    BY <1>4, <2>7
  <2>9. Len(s) = (IF Len(c) < Len(s) THEN Len(c) ELSE Len(s)) /\ Len(c) # Len(s)
    <3>1. Len(c) = Len(s) + Len(new) /\ Len(s) \in Nat /\ Len(new) \in Nat /\ Len(new) # 0
      BY <1>1, <1>3, <2>6
    <3>2. ~(Len(c) < Len(s)) /\ Len(c) # Len(s)
      BY <3>1
    <3> QED
      BY <3>2
  <2>10. Truncated(i, s, c, Len(s))
    BY <1>4, <1>7, <1>9, <2>8, <2>9 DEF Truncated
  <2> QED
    BY <2>10
<1> QED
  BY <1>8, <1>9

LEMMA TruncatedChain ==
  ASSUME Inv, TypeOK', NEW p \in ClientPath, NEW size \in Size, file_truncate(p, size)
  PROVE  \E s \in Chains(blocks, meta[path_index[p]].start_index) :
           \E c, keep : Truncated(path_index[p], s, c, keep)
<1> DEFINE i == path_index[p]
           need == BlocksFor(size)
<1>1. i \in Live(meta) /\ meta[i].type = FILE /\ need \in Nat
  BY TruncateParts
<1>2. PICK s \in Chains(blocks, meta[i].start_index) :
         \/ SameBlocks(i, s, need)
         \/ FewerBlocks(i, s, need)
         \/ \E new \in BlockSeq : MoreBlocks(i, s, need, new)
  BY TruncateParts
<1> HIDE DEF i, need
<1>3. \E c, keep : Truncated(i, s, c, keep)
  BY <1>1, <1>2, KeptWhole, KeptHead, KeptAndMore
<1> QED
  BY <1>3 DEF i

LEMMA TruncateStep ==
  ASSUME UpInv, NEW p \in ClientPath, NEW size \in Size, truncate(p, size)
  PROVE  UpInv'
<1> DEFINE i == path_index[p]
<1>1. /\ file_truncate(p, size) /\ todo = <<>> /\ image' = image /\ todo' = truncate_writes(i)
  BY DEF truncate, Idle
<1>2. TreeNext
  BY <1>1 DEF TreeNext
<1>3. /\ Inv /\ Inv' /\ Shape /\ TypeOK /\ TypeOK' /\ meta' \in [MetaIndex -> MetaEntry]
      /\ blocks \in [BlockIndex -> Block] /\ blocks' \in [BlockIndex -> Block]
      /\ meta \in [MetaIndex -> MetaEntry] /\ free_bitmap' \in SUBSET BlockIndex
  BY <1>2, IsCall DEF TypeOK
<1>4. /\ i \in MetaIndex /\ i \in Live(meta) /\ meta[i].type = FILE
      /\ \A j \in MetaIndex \ {i} : meta'[j] = meta[j]
      /\ meta'[i].valid = meta[i].valid /\ meta'[i].type = meta[i].type
  BY <1>1, <1>3, TruncateParts
<1>5. PICK s \in Chains(blocks, meta[i].start_index) : \E c, keep : Truncated(i, s, c, keep)
  BY <1>1, <1>3, TruncatedChain
<1>6. PICK c, keep : Truncated(i, s, c, keep)
  BY <1>5
<1>7. /\ c \in Chains(blocks', meta'[i].start_index)
      /\ keep = IF Len(c) < Len(s) THEN Len(c) ELSE Len(s)
      /\ \A b \in BlockIndex : \/ blocks'[b] = blocks[b]
                               \/ \E k \in 1 .. Len(c) : k >= keep /\ c[k] = b
      /\ Soft(meta, blocks, blocks')
      /\ Len(c) = Len(s) => /\ blocks' = blocks
                            /\ meta'[i].start_index = meta[i].start_index
  BY <1>6 DEF Truncated
<1>8. meta[i].start_index \in 0 .. NB /\ meta'[i].start_index \in 0 .. NB
  BY <1>3, <1>4 DEF MetaEntry
<1>9. /\ (CHOOSE t \in Chains(blocks, meta[i].start_index) : TRUE) = s
      /\ (CHOOSE t \in Chains(blocks', meta'[i].start_index) : TRUE) = c
  BY <1>3, <1>7, <1>8, ChosenChain
<1> DEFINE one == IF keep = 0 THEN <<>> ELSE BlocksTo(<<c[keep]>>, blocks')
           rest == BlocksTo(SubSeq(c, keep + 1, Len(c)), blocks')
<1>10. todo' = IF Len(c) = Len(s) THEN MetaWrite(meta')
               ELSE one \o rest \o MetaWrite(meta') \o BitmapWrite(free_bitmap')
  <2>1. /\ BlockWrites(<<c[keep]>>) = BlocksTo(<<c[keep]>>, blocks')
        /\ BlockWrites(SubSeq(c, keep + 1, Len(c))) = rest
    BY DEF BlockWrites, BlocksTo
  <2> HIDE DEF rest, i
  <2>2. truncate_writes(i) =
          IF Len(c) = Len(s) THEN MetaWrite(meta')
          ELSE (IF keep = 0 THEN <<>> ELSE BlockWrites(<<c[keep]>>))
               \o BlockWrites(SubSeq(c, keep + 1, Len(c)))
               \o MetaWrite(meta') \o BitmapWrite(free_bitmap')
    BY <1>7, <1>9, Zenon DEF truncate_writes
  <2> QED
    BY <1>1, <2>1, <2>2
<1> HIDE DEF i
<1>11. FilesOf(meta') = FilesOf(meta)
  BY <1>4 DEF FilesOf, Live
<1>12. Marks(meta', blocks', free_bitmap')
  BY <1>3, MarkedFilesNext DEF Marks
<1>13. c \in BlockSeq /\ Len(c) \in Nat /\ c \in Seq(BlockIndex) /\ Len(s) \in Nat
  BY <1>7, BlockSeqType DEF Chains
<1>14. CASE Len(c) = Len(s)
  <2> DEFINE pre == <<>>
             post == <<>>
  <2>1. pre \in Seq(Writes) /\ Early(pre, {}, meta, blocks, blocks')
    <3>1. pre \in Seq(Writes) /\ DOMAIN pre = {}
      OBVIOUS
    <3> HIDE DEF pre
    <3> QED
      BY <3>1 DEF Early
  <2>2. post \in Seq(Writes) /\ Late(post, {}, meta', blocks')
    BY NoLate
  <2> HIDE DEF pre, post
  <2>3. MarksStay(post, meta, blocks, meta', blocks')
    <3>1. \A j \in FilesOf(meta') : j \in FilesOf(meta) /\ meta'[j].start_index = meta[j].start_index
      BY <1>4, <1>7, <1>11, <1>14 DEF FilesOf, Live
    <3>2. \A b \in BlockIndex : InFile(meta, blocks, b) => blocks'[b].next = blocks[b].next
      BY <1>7, <1>14
    <3>3. \A b : InFile(meta', blocks', b) => InFile(meta, blocks, b)
      BY <1>3, <3>1, <3>2, FilesSame
    <3> QED
      BY <3>3 DEF MarksStay
  <2>4. \E A, X : /\ Early(pre, A, meta, blocks, blocks') /\ Late(post, X, meta', blocks')
                  /\ \A b \in BlockIndex : b \in A \/ b \in X \/ blocks'[b] = blocks[b]
    <3>1. \A b \in BlockIndex : b \in {} \/ b \in {} \/ blocks'[b] = blocks[b]
      BY <1>7, <1>14
    <3> QED
      BY <2>1, <2>2, <3>1, Zenon
  <2>5. Calls(pre, meta', post, meta, blocks, meta', blocks')
    BY <1>3, <1>7, <2>1, <2>2, <2>3, <2>4, SameTableSelf, Zenon DEF Calls
  <2>6. todo' = pre \o MetaWrite(meta') \o post
    <3> DEFINE w == Write("meta", 0, meta')
    <3>1. w \in Writes /\ MetaWrite(meta') = <<w>>
      BY <1>3 DEF Writes, Write, MetaWrite
    <3> HIDE DEF w
    <3>2. <<>> \o <<w>> = <<w>>
      BY <3>1
    <3>3. pre \o MetaWrite(meta') = MetaWrite(meta')
      BY <3>1, <3>2 DEF pre
    <3>4. pre \o MetaWrite(meta') = pre \o MetaWrite(meta') \o post
      BY <1>3, <2>1, NoMore DEF post
    <3> QED
      BY <1>10, <1>14, <3>3, <3>4
  <2> QED
    BY <1>1, <1>2, <2>5, <2>6, CallStep
<1>15. CASE Len(c) # Len(s)
  <2> DEFINE pre == one \o rest
             A == {c[k] : k \in {l \in 1 .. Len(c) : l >= keep}}
             post == BitmapWrite(free_bitmap')
  <2>1. pre \in Seq(Writes) /\ Early(pre, A, meta, blocks, blocks')
    <3>1. keep \in 0 .. Len(c)
      BY <1>7, <1>13
    <3> QED
      BY <1>3, <1>13, <3>1, TailWrites
  <2>2. /\ post \in Seq(Writes) /\ Late(post, {}, meta', blocks')
        /\ MarksStay(post, meta, blocks, meta', blocks')
    BY <1>3, <1>12, LateBitmap
  <2>3. \A b \in BlockIndex : b \in A \/ b \in {} \/ blocks'[b] = blocks[b]
    BY <1>7
  <2>4. todo' = pre \o MetaWrite(meta') \o post
    BY <1>10, <1>15
  <2> HIDE DEF A, pre, post
  <2>5. \E B, X : /\ Early(pre, B, meta, blocks, blocks') /\ Late(post, X, meta', blocks')
                  /\ \A b \in BlockIndex : b \in B \/ b \in X \/ blocks'[b] = blocks[b]
    BY <2>1, <2>2, <2>3, Zenon
  <2>6. Calls(pre, meta', post, meta, blocks, meta', blocks')
    BY <1>3, <1>7, <2>1, <2>2, <2>5, SameTableSelf, Zenon DEF Calls
  <2> QED
    BY <1>1, <1>2, <2>4, <2>6, CallStep
<1> QED
  BY <1>14, <1>15

\* A process with no writes on their way.
LEMMA AtRest ==
  TreeInv /\ todo = <<>> /\ image \in Vol /\ Holds(image, meta, blocks) => UpInv
<1> SUFFICES ASSUME TreeInv, todo = <<>>, image \in Vol, Holds(image, meta, blocks) PROVE UpInv
  OBVIOUS
<1>1. todo \in Seq(Writes) /\ DOMAIN todo = {}
  OBVIOUS
<1>2. BlocksCome(todo, image.blocks, blocks)
  BY <1>1 DEF BlocksCome, Holds
<1>3. BitmapComes(todo, image.free_bitmap, meta, blocks)
  BY <1>1 DEF BitmapComes, Holds
<1>4. TableComes(todo, image.meta, meta)
  BY <1>1 DEF TableComes, Holds
<1>5. LateOutside(todo, meta, blocks) /\ ~ TablePending(todo)
  BY <1>1 DEF LateOutside, TablePending
<1> QED
  BY <1>1, <1>2, <1>3, <1>4, <1>5 DEF UpInv

LEMMA CreateNoSpaceStep ==
  ASSUME UpInv, NEW p \in ClientPath, NEW size \in Size, create_no_space(p, size)
  PROVE  UpInv'
<1>1. /\ CreateNoSpaceInside(p, size) /\ todo = <<>> /\ todo' = <<>> /\ image' = image
      /\ file_create_no_space(p, size)
  BY DEF create_no_space, Idle, CreateNoSpaceInside
<1>2. TreeNext
  BY <1>1 DEF TreeNext
<1>3. /\ Inv /\ Shape /\ TypeOK /\ TreeInv' /\ blocks' = blocks
  BY <1>1, <1>2, IsCall DEF file_create_no_space
<1>4. Live(meta') = Live(meta) /\ \A j \in Live(meta) : meta'[j] = meta[j]
  <2>1. PICK i \in find_free_meta_index(meta) :
          meta' = [meta EXCEPT ![i] =
                     [NewEntry(FILE, p, meta[i].start_index, size) EXCEPT !.valid = 1]]
    BY <1>1 DEF file_create_no_space
  <2>2. i \in MetaIndex /\ i \notin Live(meta)
    BY <2>1 DEF find_free_meta_index, Lowest, Live
  <2>3. \A j \in Live(meta) : meta'[j] = meta[j]
    BY <1>3, <2>1, <2>2 DEF TypeOK, Live
  <2>4. Live(meta') = Live(meta)
    BY <1>1, <1>3, CreateNoSpaceShape DEF Stays
  <2> QED
    BY <2>3, <2>4
<1>5. image.blocks = blocks /\ SameTable(meta, image.meta) /\ Marks(meta, blocks, image.free_bitmap)
  BY <1>1, Settled
<1>6. FilesOf(meta') = FilesOf(meta) /\ \A j \in FilesOf(meta) : meta'[j] = meta[j]
  BY <1>4 DEF FilesOf
<1>7. SameTable(meta', image.meta)
  BY <1>4, <1>5, <1>6 DEF SameTable, SameNode
<1>8. Marks(meta', blocks', image.free_bitmap)
  <2>1. \A b : InFile(meta', blocks', b) => InFile(meta, blocks, b)
    BY <1>3, <1>6 DEF InFile
  <2> QED
    BY <1>5, <2>1 DEF Marks
<1>9. Holds(image', meta', blocks') /\ image' \in Vol
  BY <1>1, <1>3, <1>5, <1>7, <1>8 DEF Holds, UpInv
<1>10. (TreeInv /\ todo = <<>> /\ image \in Vol /\ Holds(image, meta, blocks) => UpInv)'
  BY AtRest, PTL
<1> QED
  BY <1>1, <1>3, <1>9, <1>10

LEMMA ShutdownStep ==
  ASSUME UpInv, fs_shutdown
  PROVE  UpInv' /\ vars' = vars /\ ImageTree' = ImageTree
<1>1. /\ todo = <<>> /\ todo' = <<>> /\ fs_init(image')
      /\ image' = [image EXCEPT !.meta = meta, !.free_bitmap = free_bitmap]
  BY DEF fs_shutdown, shutdown_writes
<1>2. /\ TreeInv /\ Inv /\ TypeOK /\ image \in Vol /\ PathsMatch(meta, path_index)
  BY DEF UpInv, TreeInv, Inv
<1>3. image.blocks = blocks /\ ImageTree = Abs
  BY <1>1, Settled
<1>4. image'.meta = meta /\ image'.free_bitmap = free_bitmap /\ image'.blocks = blocks
  BY <1>1, <1>2, <1>3 DEF Vol
<1>5. vars' = vars
  <2>1. rebuild_path_index(meta) = path_index
    BY <1>2, RebuildIs DEF TypeOK
  <2> QED
    BY <1>1, <1>4, <2>1 DEF fs_init, Becomes, vars
<1>6. TreeInv' /\ Abs' = Abs
  <2>1. Abs' = Abs
    BY <1>5 DEF Abs, TreeOf, NodeOf, vars
  <2> QED
    BY <1>2, <1>5, <2>1, TreeInvNext
<1>7. image' \in Vol
  BY <1>1, <1>2 DEF Vol, TypeOK
<1>8. Holds(image', meta', blocks')
  <2>1. Marks(meta, blocks, free_bitmap)
    BY <1>2, MarkedFiles DEF Marks
  <2>2. meta' = meta /\ blocks' = blocks
    BY <1>5 DEF vars
  <2> QED
    BY <1>4, <2>1, <2>2, SameTableSelf DEF Holds
<1>9. (TreeInv /\ todo = <<>> /\ image \in Vol /\ Holds(image, meta, blocks) => UpInv)'
  BY AtRest, PTL
<1>10. UpInv'
  BY <1>1, <1>6, <1>7, <1>8, <1>9
<1>11. ImageTree' = Abs'
  <2>1. (UpInv /\ todo = <<>> => ImageTree = Abs)'
    BY Settled, PTL
  <2> QED
    BY <1>1, <1>10, <2>1
<1> QED
  BY <1>3, <1>5, <1>6, <1>10, <1>11

LEMMA PauseStep == ASSUME UpInv, UNCHANGED persist_vars PROVE UpInv'
<1>1. UNCHANGED vars /\ image' = image /\ todo' = todo /\ meta' = meta /\ blocks' = blocks
  BY DEF persist_vars, image_vars, vars
<1>2. TreeInv' /\ Abs' = Abs
  BY <1>1, TreeInvNext DEF UpInv, Abs, TreeOf, NodeOf, vars
<1>3. ImageTree' = ImageTree
  BY <1>1 DEF ImageTree
<1> QED
  BY <1>1, <1>2, <1>3 DEF UpInv

-----------------------------------------------------------------------------
(* The theorems. *)

\* A process that has ended does not start again: what its image shows is all
\* that is left to say.
PInv == NoFileShowsAnother /\ (up => UpInv)

LEMMA InitUp == PersistInit => UpInv
<1> SUFFICES ASSUME PersistInit PROVE UpInv
  OBVIOUS
<1>1. Init /\ image = Volume /\ todo = <<>>
  BY DEF PersistInit
<1>2. TreeInv
  BY <1>1, InitInv, InitShape, InitMatch DEF TreeInv
<1>3. Inv /\ TypeOK
  BY <1>2 DEF TreeInv, Inv
<1>4. image \in Vol
  BY <1>1, <1>3 DEF Volume, Vol, TypeOK
<1>5. Holds(image, meta, blocks)
  <2>1. Marks(meta, blocks, free_bitmap)
    BY <1>3, MarkedFiles DEF Marks
  <2> QED
    BY <1>1, <2>1, SameTableSelf DEF Holds, Volume
<1> QED
  BY <1>1, <1>2, <1>4, <1>5, AtRest

\* Every step of a process that is up keeps the invariant, except its end.
LEMMA UpNext ==
  ASSUME UpInv, [PersistNext]_persist_vars
  PROVE  \/ UpInv' /\ (image'.meta = image.meta \/ Durable!Next \/ ImageTree' = ImageTree)
         \/ crash
<1>1. ASSUME NEW p \in ClientPath, NEW size \in Size, create(p, size)
      PROVE  UpInv' /\ image'.meta = image.meta
  BY <1>1, CreateStep DEF create, Idle
<1>2. ASSUME NEW p \in ClientPath, NEW size \in Size, create_no_space(p, size)
      PROVE  UpInv' /\ image'.meta = image.meta
  BY <1>2, CreateNoSpaceStep DEF create_no_space, Idle
<1>3. ASSUME NEW p \in ClientPath, delete(p) PROVE UpInv' /\ image'.meta = image.meta
  BY <1>3, DeleteStep DEF delete, Idle
<1>4. ASSUME NEW p \in ClientPath, NEW pos \in Size, edit(p, pos)
      PROVE  UpInv' /\ image'.meta = image.meta
  BY <1>4, EditStep DEF edit, Idle
<1>5. ASSUME NEW p \in ClientPath, NEW size \in Size, truncate(p, size)
      PROVE  UpInv' /\ image'.meta = image.meta
  BY <1>5, TruncateStep DEF truncate, Idle
<1>6. ASSUME NEW p \in ClientPath, mkdir(p) PROVE UpInv' /\ image'.meta = image.meta
  BY <1>6, MakeDirStep DEF mkdir, Idle
<1>7. ASSUME NEW p \in ClientPath, rmdir(p) PROVE UpInv' /\ image'.meta = image.meta
  BY <1>7, RemoveDirStep DEF rmdir, Idle
<1>8. ASSUME NEW p \in ClientPath, NEW q \in ClientPath, rename(p, q)
      PROVE  UpInv' /\ image'.meta = image.meta
  BY <1>8, RenameStep DEF rename, Idle
<1>9. ASSUME write
      PROVE  UpInv' /\ (image'.meta = image.meta \/ Durable!Next \/ ImageTree' = ImageTree)
  BY <1>9, WriteStep
<1>10. ASSUME fs_shutdown PROVE UpInv' /\ ImageTree' = ImageTree
  BY <1>10, ShutdownStep
<1>11. ASSUME UNCHANGED persist_vars PROVE UpInv' /\ image'.meta = image.meta
  BY <1>11, PauseStep DEF persist_vars, image_vars
<1> QED
  BY <1>1, <1>2, <1>3, <1>4, <1>5, <1>6, <1>7, <1>8, <1>9, <1>10, <1>11 DEF PersistNext

\* The end of the process leaves the image; afterwards there are no steps.
LEMMA ImageStays ==
  ASSUME [PersistNext]_persist_vars, ~ up \/ crash
  PROVE  image' = image /\ (~ up') /\ (NoFileShowsAnother => NoFileShowsAnother')
<1>1. image' = image /\ ~ up'
  <2>1. CASE crash
    BY <2>1 DEF crash
  <2>2. CASE ~ up
    <3>1. ~ PersistNext
      BY <2>2 DEF PersistNext, create, create_no_space, delete, edit, truncate, mkdir, rmdir,
                  rename, Idle, write, fs_shutdown, crash
    <3> QED
      BY <2>2, <3>1 DEF persist_vars, image_vars
  <2> QED
    BY <2>1, <2>2
<1>2. NoFileShowsAnother => NoFileShowsAnother'
  BY <1>1 DEF NoFileShowsAnother
<1> QED
  BY <1>1, <1>2

LEMMA PersistInvariant == PersistSpec => []PInv
<1>1. PersistInit => PInv
  BY InitUp, UpShows DEF PInv
<1>2. PInv /\ [PersistNext]_persist_vars => PInv'
  <2> SUFFICES ASSUME PInv, [PersistNext]_persist_vars PROVE PInv'
    OBVIOUS
  <2>1. CASE UpInv'
    <3>1. (UpInv => NoFileShowsAnother)'
      BY UpShows, PTL
    <3> QED
      BY <2>1, <3>1 DEF PInv
  <2>2. CASE ~ up \/ crash
    BY <2>2, ImageStays DEF PInv
  <2> QED
    BY <2>1, <2>2, UpNext DEF PInv
<1> QED
  BY <1>1, <1>2, PTL DEF PersistSpec

\* At whatever write the process ends, no block of the image is shown by two files
\* or twice by one: the order of writes of every call of the core sees to it.
THEOREM NoFileShowsAnotherCorrect == PersistSpec => []NoFileShowsAnother
<1>1. PInv => NoFileShowsAnother
  BY DEF PInv
<1> QED
  BY <1>1, PersistInvariant, PTL

\* Between two calls the bitmap on the image has every block of every file of the
\* image: no allocation after a crash takes one.
THEOREM FilesStayMarkedCorrect == PersistSpec => []FilesStayMarked
<1>1. PInv => FilesStayMarked
  <2> SUFFICES ASSUME PInv, up, todo = <<>>, NEW i \in FilesOf(image.meta),
                      NEW s \in Chains(image.blocks, image.meta[i].start_index),
                      NEW b \in BlocksOf(s)
               PROVE  b \in image.free_bitmap
    BY DEF FilesStayMarked
  <2>1. /\ image.blocks = blocks /\ SameTable(meta, image.meta)
        /\ Marks(meta, blocks, image.free_bitmap)
    BY Settled DEF PInv
  <2>2. i \in FilesOf(meta) /\ image.meta[i] = meta[i]
    BY <2>1 DEF SameTable, SameNode, FilesOf
  <2>3. InFile(meta, blocks, b)
    BY <2>1, <2>2 DEF InFile
  <2>4. b \in BlockIndex
    BY BlockSeqType DEF Chains, BlocksOf
  <2> QED
    BY <2>1, <2>3, <2>4 DEF Marks
<1> QED
  BY <1>1, PersistInvariant, PTL

\* After a crash between two calls fs_init finds every path and every file whole.
THEOREM CrashKeepsReturnedCorrect == PersistSpec => CrashKeepsReturned
<1> DEFINE Kept == crash /\ todo = <<>> =>
                     /\ path_index' = path_index
                     /\ \A i \in FilesOf(meta) : /\ meta'[i] = meta[i]
                                                 /\ \A s \in ChainOfEntry(i) : \A k \in DOMAIN s :
                                                       blocks'[s[k]] = blocks[s[k]]
<1>1. PInv => [Kept]_persist_vars
  <2> SUFFICES ASSUME PInv, crash, todo = <<>>
               PROVE  /\ path_index' = path_index /\ blocks' = blocks
                      /\ \A i \in FilesOf(meta) : meta'[i] = meta[i]
    BY DEF Kept
  <2>1. UpInv /\ fs_init(image)
    BY DEF crash, PInv
  <2>2. image.blocks = blocks /\ SameTable(meta, image.meta)
    BY <2>1, Settled
  <2>3. image.meta \in [MetaIndex -> MetaEntry] /\ PathsMatch(meta, path_index)
    BY <2>1 DEF UpInv, TreeInv, Vol
  <2>4. rebuild_path_index(image.meta) = path_index
    BY <2>2, <2>3, SameTableTree
  <2> QED
    BY <2>1, <2>2, <2>4 DEF fs_init, Becomes, SameTable
<1> QED
  BY <1>1, PersistInvariant, PTL DEF PersistSpec, CrashKeepsReturned

\* A restart after fs_shutdown finds table, bitmap, blocks and path index as they were.
THEOREM CleanRestartKeepsCorrect == PersistSpec => CleanRestartKeeps
<1> DEFINE Kept == fs_shutdown => vars' = vars
<1>1. PInv => [Kept]_persist_vars
  BY ShutdownStep DEF PInv, fs_shutdown
<1> QED
  BY <1>1, PersistInvariant, PTL DEF PersistSpec, CleanRestartKeeps

\* The tree on the image goes from that before a call to that after it in one
\* write, each an operation of OFSTree; nothing between is ever on the image.
THEOREM DurableTreeCorrect == PersistSpec => DurableTree
<1>1. PersistInit => Durable!Init
  <2> SUFFICES ASSUME PersistInit PROVE Durable!Init
    OBVIOUS
  <2>1. Init /\ todo = <<>>
    BY DEF PersistInit
  <2>2. ImageTree = Abs
    BY <2>1, InitUp, Settled
  <2>3. Tree!Init
    BY <2>1, InitTree
  <2>4. Abs = [t \in {<<>>} |-> [dir |-> TRUE, size |-> 0]]
    BY <2>3 DEF Tree!Init, Tree!Folder, Abs, TreeOf, NodeOf
  <2> QED
    BY <2>2, <2>4 DEF Durable!Init, Durable!Folder
<1>2. PInv /\ [PersistNext]_persist_vars => [image'.meta = image.meta \/ Durable!Next]_ImageTree
  <2> SUFFICES ASSUME PInv, [PersistNext]_persist_vars
               PROVE  image'.meta = image.meta \/ Durable!Next \/ ImageTree' = ImageTree
    OBVIOUS
  <2>1. CASE ~ up \/ crash
    BY <2>1, ImageStays
  <2>2. CASE ~(~ up \/ crash)
    BY <2>2, UpNext DEF PInv
  <2> QED
    BY <2>1, <2>2
<1> QED
  BY <1>1, <1>2, PersistInvariant, PTL DEF PersistSpec, DurableTree
==========================================================================
