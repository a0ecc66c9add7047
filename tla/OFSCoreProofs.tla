------------------------- MODULE OFSCoreProofs -------------------------
(*************************************************************************)
(* Facts about the operators OFSCore is built from - least and greatest   *)
(* elements, chains of blocks, directory blocks and the path index - and  *)
(* what they prove, for every number of slots and blocks, every block     *)
(* size and every set of client paths, sizes and data: type correctness   *)
(* and the safety properties of OFSCore.  Inv is the inductive invariant  *)
(* the latter follow from; that chains end is shown by a rank of the      *)
(* blocks.                                                                *)
(*************************************************************************)
EXTENDS OFSCore, TLAPS, SequenceTheorems, WellFoundedInduction, FiniteSetTheorems

-----------------------------------------------------------------------------
(* Scans from below and from above. *)

\* A nonempty set of naturals has a least element: the scans of
\* find_free_meta_index and dir_add_child stop somewhere.
LEMMA LeastExists ==
  ASSUME NEW S \in SUBSET Nat, S # {}
  PROVE  \E x \in S : \A y \in S : x <= y
<1> DEFINE R == OpToRel(<, Nat)
<1>1. \A x, y \in Nat : y < x => <<y, x>> \in R
  BY DEF OpToRel
<1>2. IsWellFoundedOn(R, Nat)
  BY NatLessThanWellFounded
<1> HIDE DEF R
<1>3. \E x \in S : \A y \in S : ~ (<<y, x>> \in R)
  BY <1>2, WFMin, Zenon
<1>4. PICK x \in S : \A y \in S : ~ (<<y, x>> \in R)
  BY <1>3
<1>5. ASSUME NEW y \in S PROVE x <= y
  <2>1. ~ (y < x) BY <1>1, <1>4
  <2> QED BY <2>1
<1> QED BY <1>5

\* A nonempty set of metadata slots has a greatest element: the entry that
\* keeps a path in rebuild_path_index.
LEMMA GreatestExists ==
  ASSUME NEW S \in SUBSET MetaIndex, S # {}
  PROVE  \E x \in S : \A y \in S : y <= x
<1> DEFINE T == {NM - x : x \in S}
<1>1. T \in SUBSET Nat /\ T # {}
  <2>1. \A x \in S : x \in Nat /\ x <= NM BY DEF MetaIndex
  <2>2. \A x \in S : NM - x \in Nat BY <2>1, SizesAssumption
  <2>3. PICK x \in S : TRUE OBVIOUS
  <2>4. NM - x \in T OBVIOUS
  <2> QED BY <2>2, <2>4, Zenon
<1> HIDE DEF T
<1>2. PICK t \in T : \A u \in T : t <= u
  BY <1>1, LeastExists, Zenon
<1>3. PICK x \in S : t = NM - x
  BY DEF T
<1>4. ASSUME NEW y \in S PROVE y <= x
  <2>1. NM - y \in T BY DEF T
  <2>2. NM - x <= NM - y BY <1>2, <1>3, <2>1
  <2> QED BY <2>2, SizesAssumption DEF MetaIndex
<1> QED BY <1>4

-----------------------------------------------------------------------------
(* Sequences of blocks. *)

\* What it is to be a sequence of distinct blocks.
LEMMA BlockSeqType ==
  ASSUME NEW s \in BlockSeq
  PROVE  /\ s \in Seq(BlockIndex) /\ Len(s) \in Nat /\ DOMAIN s = 1 .. Len(s)
         /\ \A i \in 1 .. Len(s) : s[i] \in BlockIndex
         /\ \A i, j \in 1 .. Len(s) : s[i] = s[j] => i = j
<1>1. PICK n \in 0 .. NB : s \in [1 .. n -> BlockIndex]
  BY DEF BlockSeq
<1>2. n \in Nat
  BY SizesAssumption
<1>3. s \in Seq(BlockIndex)
  BY <1>1, <1>2
<1>4. Len(s) = n /\ DOMAIN s = 1 .. n
  BY <1>1, <1>2, <1>3, LenProperties
<1>5. \A i, j \in DOMAIN s : s[i] = s[j] => i = j
  BY DEF BlockSeq
<1> QED BY <1>1, <1>2, <1>3, <1>4, <1>5

\* A chain, block by block: it begins at start, each block points to the next
\* one, and the last block points nowhere.
LEMMA ChainStep ==
  ASSUME NEW blk, NEW start \in 0 .. NB, NEW s \in Chains(blk, start)
  PROVE  /\ s \in BlockSeq
         /\ start = 0 => s = <<>>
         /\ start # 0 => Len(s) >= 1 /\ s[1] = start
         /\ \A i \in 1 .. Len(s) : i < Len(s) => blk[s[i]].next = s[i + 1]
         /\ Len(s) >= 1 => blk[s[Len(s)]].next = 0
<1>1. s \in BlockSeq /\ FirstOf(s) = start
  BY DEF Chains
<1>2. \A i \in DOMAIN s : blk[s[i]].next = NextIn(s, i)
  BY DEF Chains
<1>3. /\ s \in Seq(BlockIndex) /\ Len(s) \in Nat /\ DOMAIN s = 1 .. Len(s)
      /\ \A i \in 1 .. Len(s) : s[i] \in BlockIndex
  BY <1>1, BlockSeqType
<1>4. Len(s) >= 1 => s[1] \in 1 .. NB
  BY <1>3 DEF BlockIndex
<1>5. start = 0 => Len(s) = 0
  BY <1>1, <1>3, <1>4, SizesAssumption DEF FirstOf
<1>6. Len(s) = 0 => s = <<>>
  BY <1>3
<1> QED BY <1>1, <1>2, <1>3, <1>4, <1>5, <1>6 DEF FirstOf, NextIn

-----------------------------------------------------------------------------
(* The words of a chain. *)

\* The recursive function that joins the words of the blocks of s exists.
LEMMA JoinExists ==
  ASSUME NEW blk, NEW s, Len(s) \in Nat,
         \A i \in 1 .. Len(s) : blk[s[i]].items \in Seq(Word)
  PROVE  \E f \in [0 .. Len(s) -> Seq(Word)] :
            f = [i \in 0 .. Len(s) |->
                   IF i = 0 THEN <<>> ELSE f[i - 1] \o blk[s[i]].items]
<1> DEFINE Joins(m, f) == f = [i \in 0 .. m |-> IF i = 0 THEN <<>> ELSE f[i - 1] \o blk[s[i]].items]
           Bad == {m \in 0 .. Len(s) : ~ \E f \in [0 .. m -> Seq(Word)] : Joins(m, f)}
<1>1. SUFFICES ASSUME Bad # {} PROVE FALSE
  <2>1. Len(s) \in 0 .. Len(s) OBVIOUS
  <2> QED BY <2>1
<1>2. Bad \in SUBSET Nat
  <2>1. \A m \in 0 .. Len(s) : m \in Nat OBVIOUS
  <2> QED BY <2>1, Zenon
<1> HIDE DEF Bad
<1>3. PICK m \in Bad : \A k \in Bad : m <= k
  BY <1>1, <1>2, LeastExists, Zenon
<1>4. m \in 0 .. Len(s) /\ ~ \E f \in [0 .. m -> Seq(Word)] : Joins(m, f)
  BY DEF Bad
<1>5. m # 0
  <2>1. SUFFICES ASSUME m = 0 PROVE FALSE OBVIOUS
  <2> DEFINE f == [i \in 0 .. 0 |-> <<>>]
  <2>2. f \in [0 .. m -> Seq(Word)] BY <2>1, EmptySeq
  <2>3. f = [i \in 0 .. m |-> IF i = 0 THEN <<>> ELSE f[i - 1] \o blk[s[i]].items] BY <2>1
  <2> QED BY <1>4, <2>2, <2>3
<1>6. m - 1 \in 0 .. Len(s) /\ m - 1 \notin Bad
  BY <1>3, <1>4, <1>5
<1>7. PICK h \in [0 .. m - 1 -> Seq(Word)] : Joins(m - 1, h)
  BY <1>6 DEF Bad
<1> DEFINE f == [i \in 0 .. m |-> IF i = m THEN h[m - 1] \o blk[s[m]].items ELSE h[i]]
<1>8. f \in [0 .. m -> Seq(Word)]
  <2>1. h[m - 1] \in Seq(Word) /\ blk[s[m]].items \in Seq(Word) BY <1>4, <1>5
  <2>2. h[m - 1] \o blk[s[m]].items \in Seq(Word) BY <2>1, ConcatProperties
  <2>3. \A i \in 0 .. m : i # m => h[i] \in Seq(Word) BY <1>4
  <2> QED BY <2>2, <2>3
<1>9. Joins(m, f)
  <2>1. ASSUME NEW i \in 0 .. m
        PROVE  f[i] = IF i = 0 THEN <<>> ELSE f[i - 1] \o blk[s[i]].items
    <3>1. CASE i = m
      <4>1. f[i - 1] = h[m - 1] BY <3>1, <1>4, <1>5
      <4> QED BY <3>1, <4>1, <1>5
    <3>2. CASE i # m
      <4>1. i \in 0 .. m - 1 BY <3>2, <1>4
      <4>2. h[i] = IF i = 0 THEN <<>> ELSE h[i - 1] \o blk[s[i]].items BY <4>1, <1>7
      <4>3. i # 0 => i - 1 \in 0 .. m /\ i - 1 # m BY <4>1, <1>4
      <4>4. i # 0 => f[i - 1] = h[i - 1] BY <4>3
      <4> QED BY <3>2, <4>2, <4>4
    <3> QED BY <3>1, <3>2
  <2> QED BY <2>1
<1> QED BY <1>4, <1>8, <1>9

\* Every function with that recursion yields sequences.
LEMMA JoinType ==
  ASSUME NEW blk, NEW s, Len(s) \in Nat,
         \A i \in 1 .. Len(s) : blk[s[i]].items \in Seq(Word),
         NEW f, f = [i \in 0 .. Len(s) |-> IF i = 0 THEN <<>> ELSE f[i - 1] \o blk[s[i]].items]
  PROVE  f[Len(s)] \in Seq(Word)
<1> DEFINE Bad == {m \in 0 .. Len(s) : f[m] \notin Seq(Word)}
<1>1. SUFFICES ASSUME Bad # {} PROVE FALSE
  <2>1. Len(s) \in 0 .. Len(s) OBVIOUS
  <2> QED BY <2>1
<1>2. Bad \in SUBSET Nat OBVIOUS
<1> HIDE DEF Bad
<1>3. PICK m \in Bad : \A k \in Bad : m <= k
  BY <1>1, <1>2, LeastExists, Zenon
<1>4. m \in 0 .. Len(s) /\ f[m] \notin Seq(Word)
  BY DEF Bad
<1>5. f[m] = IF m = 0 THEN <<>> ELSE f[m - 1] \o blk[s[m]].items
  BY <1>4
<1>6. m # 0
  BY <1>4, <1>5, EmptySeq
<1>7. m - 1 \in 0 .. Len(s) /\ m - 1 \notin Bad
  BY <1>3, <1>4, <1>6
<1>8. f[m - 1] \in Seq(Word) /\ blk[s[m]].items \in Seq(Word)
  BY <1>4, <1>6, <1>7 DEF Bad
<1> QED BY <1>4, <1>5, <1>6, <1>8, ConcatProperties

\* What dir_block_read collects is a sequence of nonzero words.
LEMMA WordsType ==
  ASSUME NEW blk \in [BlockIndex -> Block], NEW s \in BlockSeq
  PROVE  Words(blk, s) \in Seq(Word)
<1>1. /\ Len(s) \in Nat /\ DOMAIN s = 1 .. Len(s)
      /\ \A i \in 1 .. Len(s) : s[i] \in BlockIndex
  BY BlockSeqType
<1>2. \A i \in 1 .. Len(s) : blk[s[i]].items \in Seq(Word)
  BY <1>1 DEF Block
<1>3. CASE Len(s) = 0
  BY <1>3 DEF Words
<1>4. CASE Len(s) = 1
  BY <1>2, <1>4 DEF Words
<1>5. CASE Len(s) # 0 /\ Len(s) # 1
  <2> DEFINE upTo == CHOOSE f : f = [i \in 0 .. Len(s) |->
                        IF i = 0 THEN <<>> ELSE f[i - 1] \o blk[s[i]].items]
  <2>1. Len(s) \in Nat
    BY <1>1
  <2>2. \E f : f = [i \in 0 .. Len(s) |-> IF i = 0 THEN <<>> ELSE f[i - 1] \o blk[s[i]].items]
    <3>1. \E f \in [0 .. Len(s) -> Seq(Word)] :
             f = [i \in 0 .. Len(s) |-> IF i = 0 THEN <<>> ELSE f[i - 1] \o blk[s[i]].items]
      BY <1>2, <2>1, JoinExists, ZenonT(90)
    <3> QED BY <3>1, Zenon
  <2>3. upTo = [i \in 0 .. Len(s) |-> IF i = 0 THEN <<>> ELSE upTo[i - 1] \o blk[s[i]].items]
    BY <2>2, Zenon
  <2> HIDE DEF upTo
  <2>4. upTo[Len(s)] \in Seq(Word)
    BY <1>2, <2>1, <2>3, JoinType
  <2>5. Words(blk, s) = upTo[Len(s)]
    BY <1>5, Zenon DEF Words, upTo
  <2> QED BY <2>4, <2>5
<1> QED BY <1>3, <1>4, <1>5

-----------------------------------------------------------------------------
(* Directory blocks. *)

Vol == [meta : [MetaIndex -> MetaEntry], free_bitmap : SUBSET BlockIndex,
        blocks : [BlockIndex -> Block]]

\* An update of one field of an entry leaves the others alone.
LEMMA EntryFields ==
  ASSUME NEW e \in MetaEntry, NEW n
  PROVE  /\ LET f == [e EXCEPT !.start_index = n]
            IN  /\ f.valid = e.valid /\ f.type = e.type /\ f.parent = e.parent
                /\ f.start_index = n
         /\ LET f == [e EXCEPT !.valid = n]
            IN  f.valid = n /\ f.start_index = e.start_index
<1>1. LET f == [e EXCEPT !.start_index = n]
      IN  /\ f.valid = e.valid /\ f.type = e.type /\ f.parent = e.parent
          /\ f.start_index = n
  BY DEF MetaEntry
<1>2. LET f == [e EXCEPT !.valid = n]
      IN  f.valid = n /\ f.start_index = e.start_index
  BY DEF MetaEntry
<1> QED
  BY <1>1, <1>2

\* The two updates file_truncate makes to the table, and what they leave in the
\* start_index of the entry.
Resized(m, i, size)      == [m EXCEPT ![i].total_size = size]
Restarted(m, i, n, size) == [m EXCEPT ![i].start_index = n, ![i].total_size = size]

LEMMA ResizedFields ==
  ASSUME NEW m \in [MetaIndex -> MetaEntry], NEW i \in MetaIndex, NEW n, NEW size
  PROVE  /\ Resized(m, i, size)[i].start_index = m[i].start_index
         /\ Restarted(m, i, n, size)[i].start_index = n
<1>1. m[i] \in MetaEntry
  OBVIOUS
<1>2. Resized(m, i, size)[i] = [m[i] EXCEPT !.total_size = size]
  BY DEF Resized
<1>3. Restarted(m, i, n, size)[i] = [m[i] EXCEPT !.start_index = n, !.total_size = size]
  BY DEF Restarted
<1>4. Resized(m, i, size)[i].start_index = m[i].start_index
  BY <1>1, <1>2 DEF MetaEntry
<1>5. Restarted(m, i, n, size)[i].start_index = n
  BY <1>1, <1>3 DEF MetaEntry
<1> QED
  BY <1>4, <1>5

\* A volume with one parent pointer changed is a volume.
LEMMA ParentUpdate ==
  ASSUME NEW v \in Vol, NEW i \in MetaIndex, NEW d \in 0 .. NM
  PROVE  [v EXCEPT !.meta[i].parent = d] \in Vol
<1>1. v = [meta |-> v.meta, free_bitmap |-> v.free_bitmap, blocks |-> v.blocks]
      /\ v.meta \in [MetaIndex -> MetaEntry]
  BY DEF Vol
<1> DEFINE m == v.meta
           u == [m EXCEPT ![i].parent = d]
<1>2. [v EXCEPT !.meta[i].parent = d] =
        [meta |-> u, free_bitmap |-> v.free_bitmap, blocks |-> v.blocks]
  BY <1>1
<1>3. u = [m EXCEPT ![i] = [m[i] EXCEPT !.parent = d]]
  BY <1>1
<1>4. [m[i] EXCEPT !.parent = d] \in MetaEntry
  <2>1. m[i] \in MetaEntry
    BY <1>1
  <2> QED
    BY <2>1 DEF MetaEntry
<1>5. u \in [MetaIndex -> MetaEntry]
  BY <1>1, <1>3, <1>4
<1> QED
  BY <1>2, <1>5 DEF Vol

\* What dir_block_read yields: a sequence of nonzero words; for a chain of one
\* block, its words; for no chain, none.
LEMMA ReadType ==
  ASSUME NEW v \in Vol, NEW d \in MetaIndex, NEW c \in dir_block_read(v, d)
  PROVE  /\ c \in Seq(Word)
         /\ v.meta[d].start_index = 0 => c = <<>>
         /\ v.meta[d].start_index # 0 /\ v.blocks[v.meta[d].start_index].next = 0
              => c = v.blocks[v.meta[d].start_index].items
<1> DEFINE start == v.meta[d].start_index
<1>1. PICK s \in Chains(v.blocks, start) : c = Words(v.blocks, s)
  BY DEF dir_block_read
<1>2. start \in 0 .. NB
  BY DEF Vol, MetaEntry
<1>3. /\ s \in BlockSeq
      /\ start = 0 => s = <<>>
      /\ start # 0 => Len(s) >= 1 /\ s[1] = start
      /\ \A i \in 1 .. Len(s) : i < Len(s) => v.blocks[s[i]].next = s[i + 1]
  BY <1>2, ChainStep
<1>4. Len(s) \in Nat /\ \A i \in 1 .. Len(s) : s[i] \in BlockIndex
  BY <1>3, BlockSeqType
<1>5. c \in Seq(Word)
  BY <1>1, <1>3, WordsType DEF Vol
<1>6. start = 0 => c = <<>>
  BY <1>1, <1>3 DEF Words
<1>7. ASSUME start # 0, v.blocks[start].next = 0
      PROVE  c = v.blocks[start].items
  <2>1. Len(s) = 1
    <3> DEFINE n == Len(s)
    <3>1. n \in Nat /\ n >= 1
      BY <1>3, <1>4, <1>7
    <3>2. ~ (n > 1)
      <4>1. SUFFICES ASSUME n > 1 PROVE FALSE
        OBVIOUS
      <4>2. v.blocks[s[1]].next = s[2] /\ s[2] \in BlockIndex
        BY <1>3, <1>4, <3>1, <4>1
      <4> QED BY <1>3, <1>7, <4>2 DEF BlockIndex
    <3> HIDE DEF n
    <3>3. n = 1
      BY <3>1, <3>2
    <3> QED BY <3>3 DEF n
  <2> QED BY <1>1, <1>3, <1>7, <2>1 DEF Words
<1> QED BY <1>5, <1>6, <1>7

\* The rewrite of a directory block keeps the block region well-typed, links
\* the block nowhere and stores a prefix of the children.
LEMMA WithChildrenType ==
  ASSUME NEW blk \in [BlockIndex -> Block], NEW b \in BlockIndex, NEW c \in Seq(Word)
  PROVE  /\ WithChildren(blk, b, c) \in [BlockIndex -> Block]
         /\ WithChildren(blk, b, c)[b].next = 0
         /\ \A k \in BlockIndex : k # b => WithChildren(blk, b, c)[k] = blk[k]
         /\ Len(WithChildren(blk, b, c)[b].items) <= Len(c)
         /\ \A k \in 1 .. Len(WithChildren(blk, b, c)[b].items) :
               WithChildren(blk, b, c)[b].items[k] = c[k]
<1> DEFINE n == IF Len(c) < ChildSlots THEN Len(c) ELSE ChildSlots
           w == WithChildren(blk, b, c)
<1>1. ChildSlots \in Nat
  BY SizesAssumption DEF ChildSlots
<1>2. Len(c) \in Nat /\ \A k \in 1 .. Len(c) : c[k] \in Word
  OBVIOUS
<1>3. n \in Nat /\ n <= Len(c)
  BY <1>1, <1>2
<1>4. w = [blk EXCEPT ![b] = [next |-> 0, items |-> SubSeq(c, 1, n)]]
  BY DEF WithChildren
<1> HIDE DEF n, w
<1>5. /\ SubSeq(c, 1, n) \in Seq(Word)
      /\ Len(SubSeq(c, 1, n)) = n
      /\ \A k \in 1 .. n : SubSeq(c, 1, n)[k] = c[k]
  <2>1. \A k \in 1 .. n : c[k] \in Word
    BY <1>2, <1>3
  <2>2. /\ SubSeq(c, 1, n) \in Seq(Word)
        /\ Len(SubSeq(c, 1, n)) = IF 1 <= n THEN n - 1 + 1 ELSE 0
        /\ \A k \in 1 .. n - 1 + 1 : SubSeq(c, 1, n)[k] = c[1 + k - 1]
    BY <1>3, <2>1, SubSeqProperties
  <2> QED BY <1>3, <2>2
<1>6. [next |-> 0, items |-> SubSeq(c, 1, n)] \in Block
  BY <1>5, SizesAssumption DEF Block
<1>7. w \in [BlockIndex -> Block] /\ w[b].next = 0 /\ w[b].items = SubSeq(c, 1, n)
      /\ \A k \in BlockIndex : k # b => w[k] = blk[k]
  BY <1>4, <1>6
<1>8. Len(w[b].items) <= Len(c) /\ \A k \in 1 .. Len(w[b].items) : w[b].items[k] = c[k]
  BY <1>3, <1>5, <1>7
<1> QED BY <1>7, <1>8 DEF w

\* The outcomes of dir_add_child.
AddFails(v, p, r) == ~r.ok /\ r.vol = v /\ v.meta[p].start_index = 0
AddLists(v, p, c, r) ==
  /\ r.ok
  /\ v.meta[p].start_index \in BlockIndex
  /\ r.vol.meta = v.meta /\ r.vol.free_bitmap = v.free_bitmap
  /\ \E w \in dir_block_read(v, p) :
        r.vol.blocks = WithChildren(v.blocks, v.meta[p].start_index, Append(w, c))
AddAllocates(v, p, c, r) ==
  /\ r.ok
  /\ v.meta[p].start_index = 0
  /\ \E b \in BlockIndex \ v.free_bitmap :
        /\ r.vol.meta = [v.meta EXCEPT ![p].start_index = b]
        /\ r.vol.free_bitmap = v.free_bitmap \cup {b}
        /\ r.vol.blocks = WithChildren(v.blocks, b, <<c>>)

LEMMA AddChild ==
  ASSUME NEW v \in Vol, NEW p \in MetaIndex, NEW c \in MetaIndex,
         NEW r \in dir_add_child(v, p, c)
  PROVE  /\ r.vol \in Vol
         /\ AddFails(v, p, r) \/ AddLists(v, p, c, r) \/ AddAllocates(v, p, c, r)
<1> DEFINE start == v.meta[p].start_index
           free  == BlockIndex \ v.free_bitmap
<1>1. start \in 0 .. NB /\ v.blocks \in [BlockIndex -> Block]
      /\ v.meta \in [MetaIndex -> MetaEntry] /\ v.free_bitmap \in SUBSET BlockIndex
  BY DEF Vol, MetaEntry
<1>2. c \in Word
  BY SizesAssumption DEF Word, MetaIndex
<1>3. CASE start # 0
  <2>1. PICK w \in dir_block_read(v, p) :
           r = [ok |-> TRUE, vol |-> [v EXCEPT !.blocks = WithChildren(@, start, Append(w, c))]]
    BY <1>3 DEF dir_add_child
  <2>2. start \in BlockIndex
    BY <1>1, <1>3 DEF BlockIndex
  <2>3. Append(w, c) \in Seq(Word)
    BY <1>2, ReadType, AppendProperties
  <2>4. WithChildren(v.blocks, start, Append(w, c)) \in [BlockIndex -> Block]
    BY <1>1, <2>2, <2>3, WithChildrenType
  <2> QED BY <2>1, <2>2, <2>4 DEF Vol, AddLists
<1>4. CASE start = 0 /\ free = {}
  BY <1>4 DEF dir_add_child, AddFails
<1>5. CASE start = 0 /\ free # {}
  <2>1. PICK b \in Lowest(free) :
           r = [ok |-> TRUE,
                vol |-> [meta |-> [v.meta EXCEPT ![p].start_index = b],
                         free_bitmap |-> v.free_bitmap \cup {b},
                         blocks |-> WithChildren(v.blocks, b, <<c>>)]]
    BY <1>5 DEF dir_add_child
  <2>2. b \in BlockIndex \ v.free_bitmap
    BY DEF Lowest
  <2>3. <<c>> \in Seq(Word)
    BY <1>2
  <2>4. WithChildren(v.blocks, b, <<c>>) \in [BlockIndex -> Block]
    BY <1>1, <2>2, <2>3, WithChildrenType
  <2>5. b \in 0 .. NB
    BY <2>2 DEF BlockIndex
  <2>6. [v.meta EXCEPT ![p].start_index = b] \in [MetaIndex -> MetaEntry]
    BY <1>1, <2>5 DEF MetaEntry
  <2> QED BY <1>1, <1>5, <2>1, <2>2, <2>4, <2>6 DEF Vol, AddAllocates
<1> QED BY <1>1, <1>3, <1>4, <1>5

\* Erasing the first occurrence of c leaves a sequence without one position:
\* what remains kept its order, and c is gone if it was there once.
LEMMA EraseFirstType ==
  ASSUME NEW s \in Seq(Word), NEW c, \E i \in 1 .. Len(s) : s[i] = c
  PROVE  /\ EraseFirst(s, c) \in Seq(Word)
         /\ Len(EraseFirst(s, c)) = Len(s) - 1
         /\ \E k \in 1 .. Len(s) :
              /\ s[k] = c
              /\ \A i \in 1 .. Len(s) - 1 :
                   EraseFirst(s, c)[i] = IF i < k THEN s[i] ELSE s[i + 1]
<1> DEFINE At == {i \in 1 .. Len(s) : s[i] = c}
<1>1. Len(s) \in Nat /\ DOMAIN s = 1 .. Len(s) /\ \A i \in 1 .. Len(s) : s[i] \in Word
  OBVIOUS
<1>2. At \in SUBSET Nat /\ At # {}
  OBVIOUS
<1> HIDE DEF At
<1>3. PICK m \in At : \A j \in At : m <= j
  BY <1>2, LeastExists, Zenon
<1>4. m \in DOMAIN s /\ s[m] = c /\ \A j \in 1 .. m - 1 : s[j] # c
  BY <1>1, <1>3 DEF At
<1> DEFINE k == CHOOSE i \in DOMAIN s : s[i] = c /\ \A j \in 1 .. i - 1 : s[j] # c
<1>5. k \in DOMAIN s /\ s[k] = c
  BY <1>4, Zenon
<1>6. EraseFirst(s, c) = SubSeq(s, 1, k - 1) \o SubSeq(s, k + 1, Len(s))
  BY DEF EraseFirst
<1> HIDE DEF k
<1> DEFINE l == SubSeq(s, 1, k - 1)
           r == SubSeq(s, k + 1, Len(s))
<1>7. k \in 1 .. Len(s)
  BY <1>1, <1>5
<1>8. l \in Seq(Word) /\ Len(l) = k - 1 /\ \A i \in 1 .. k - 1 : l[i] = s[i]
  <2>1. \A i \in 1 .. k - 1 : s[i] \in Word
    BY <1>1, <1>7
  <2>2. /\ l \in Seq(Word)
        /\ Len(l) = IF 1 <= k - 1 THEN k - 1 - 1 + 1 ELSE 0
        /\ \A i \in 1 .. k - 1 - 1 + 1 : l[i] = s[1 + i - 1]
    BY <1>1, <1>7, <2>1, SubSeqProperties
  <2> HIDE DEF l
  <2> QED BY <1>1, <1>7, <2>2
<1>9. r \in Seq(Word) /\ Len(r) = Len(s) - k /\ \A i \in 1 .. Len(s) - k : r[i] = s[k + i]
  <2>1. \A i \in k + 1 .. Len(s) : s[i] \in Word
    BY <1>1, <1>7
  <2>2. /\ r \in Seq(Word)
        /\ Len(r) = IF k + 1 <= Len(s) THEN Len(s) - (k + 1) + 1 ELSE 0
        /\ \A i \in 1 .. Len(s) - (k + 1) + 1 : r[i] = s[(k + 1) + i - 1]
    BY <1>1, <1>7, <2>1, SubSeqProperties
  <2> HIDE DEF r
  <2>3. Len(r) = Len(s) - k
    <3>1. Len(r) = IF k + 1 <= Len(s) THEN Len(s) - (k + 1) + 1 ELSE 0
      BY <2>2
    <3>2. Len(s) \in Nat /\ k \in 1 .. Len(s)
      BY <1>1, <1>7
    <3> QED BY <3>1, <3>2
  <2>4. ASSUME NEW i \in 1 .. Len(s) - k PROVE r[i] = s[k + i]
    <3>1. i \in 1 .. Len(s) - (k + 1) + 1 /\ (k + 1) + i - 1 = k + i
      BY <1>1, <1>7
    <3> QED BY <2>2, <3>1
  <2> QED BY <2>2, <2>3, <2>4
<1> HIDE DEF l, r
<1>10. /\ l \o r \in Seq(Word) /\ Len(l \o r) = Len(l) + Len(r)
       /\ \A i \in 1 .. Len(l) + Len(r) :
             (l \o r)[i] = IF i <= Len(l) THEN l[i] ELSE r[i - Len(l)]
  BY <1>8, <1>9, ConcatProperties
<1>11. ASSUME NEW i \in 1 .. Len(s) - 1
       PROVE  (l \o r)[i] = IF i < k THEN s[i] ELSE s[i + 1]
  <2>1. (l \o r)[i] = IF i <= k - 1 THEN l[i] ELSE r[i - (k - 1)]
    BY <1>1, <1>7, <1>8, <1>9, <1>10
  <2>2. CASE i < k
    BY <1>1, <1>7, <1>8, <2>1, <2>2
  <2>3. CASE ~ (i < k)
    <3>1. i - (k - 1) \in 1 .. Len(s) - k /\ k + (i - (k - 1)) = i + 1
      BY <1>1, <1>7, <2>3
    <3> QED BY <1>1, <1>7, <1>9, <2>1, <2>3, <3>1
  <2> QED BY <2>2, <2>3
<1>12. EraseFirst(s, c) = l \o r
  BY <1>6 DEF l, r
<1>13. Len(l \o r) = Len(s) - 1
  BY <1>1, <1>7, <1>8, <1>9, <1>10
<1> QED BY <1>1, <1>5, <1>7, <1>10, <1>11, <1>12, <1>13

\* The outcomes of dir_remove_child.
RemoveFails(v, p, c, r, w) == ~r.ok /\ r.vol = v /\ \A k \in 1 .. Len(w) : w[k] # c
RemoveUnlists(v, p, c, r, w) ==
  /\ r.ok
  /\ v.meta[p].start_index \in BlockIndex
  /\ \E k \in 1 .. Len(w) : w[k] = c
  /\ r.vol.blocks = WithChildren(v.blocks, v.meta[p].start_index, EraseFirst(w, c))

LEMMA RemoveChild ==
  ASSUME NEW v \in Vol, NEW p \in MetaIndex, NEW c \in MetaIndex,
         NEW r \in dir_remove_child(v, p, c)
  PROVE  /\ r.vol \in Vol
         /\ r.vol.meta = v.meta /\ r.vol.free_bitmap = v.free_bitmap
         /\ \E w \in dir_block_read(v, p) :
               RemoveFails(v, p, c, r, w) \/ RemoveUnlists(v, p, c, r, w)
<1> DEFINE start == v.meta[p].start_index
<1>1. start \in 0 .. NB /\ v.blocks \in [BlockIndex -> Block]
  BY DEF Vol, MetaEntry
<1>2. PICK w \in dir_block_read(v, p) :
         r = IF c \in {w[i] : i \in DOMAIN w}
             THEN [ok |-> TRUE, vol |-> [v EXCEPT !.blocks = WithChildren(@, start, EraseFirst(w, c))]]
             ELSE [ok |-> FALSE, vol |-> v]
  BY DEF dir_remove_child
<1>3. w \in Seq(Word) /\ DOMAIN w = 1 .. Len(w)
  BY ReadType
<1>4. CASE c \in {w[i] : i \in DOMAIN w}
  <2>1. \E k \in 1 .. Len(w) : w[k] = c
    BY <1>3, <1>4
  <2>2. start # 0
    BY <1>3, <2>1, ReadType
  <2>3. start \in BlockIndex
    BY <1>1, <2>2 DEF BlockIndex
  <2>4. EraseFirst(w, c) \in Seq(Word)
    BY <1>3, <2>1, EraseFirstType
  <2>5. WithChildren(v.blocks, start, EraseFirst(w, c)) \in [BlockIndex -> Block]
    BY <1>1, <2>3, <2>4, WithChildrenType
  <2>6. r = [ok |-> TRUE, vol |-> [v EXCEPT !.blocks = WithChildren(@, start, EraseFirst(w, c))]]
    BY <1>2, <1>4
  <2>7. /\ r.vol \in Vol /\ r.vol.meta = v.meta /\ r.vol.free_bitmap = v.free_bitmap
        /\ r.ok /\ r.vol.blocks = WithChildren(v.blocks, start, EraseFirst(w, c))
    BY <2>5, <2>6 DEF Vol
  <2> QED BY <2>1, <2>3, <2>7 DEF RemoveUnlists
<1>5. CASE c \notin {w[i] : i \in DOMAIN w}
  BY <1>2, <1>3, <1>5 DEF RemoveFails
<1> QED BY <1>4, <1>5

-----------------------------------------------------------------------------
(* Paths. *)

StoredName == Name \cup {"", "root"}
Names      == [0 .. NM -> Seq(StoredName)]

\* One round of the climb of build_full_path_from_meta for every entry at once.
Climb(m, steps, below) ==
    [c \in 0 .. NM |->
       IF steps = 0 \/ c \in {0, Root} THEN <<>>
       ELSE IF m[c].valid = 1 THEN <<>>
       ELSE Append(below[m[c].parent], m[c].name)]

LEMMA ClimbType ==
  ASSUME NEW m \in [MetaIndex -> MetaEntry], NEW steps \in 0 .. NM, NEW below,
         steps # 0 => below \in Names
  PROVE  Climb(m, steps, below) \in Names
<1>1. ASSUME NEW c \in 0 .. NM, steps # 0, c \notin {0, Root}
      PROVE  Append(below[m[c].parent], m[c].name) \in Seq(StoredName)
  <2>1. c \in MetaIndex
    BY <1>1, SizesAssumption DEF MetaIndex, Root
  <2>2. m[c].parent \in 0 .. NM /\ m[c].name \in StoredName
    BY <2>1 DEF MetaEntry, StoredName
  <2>3. below[m[c].parent] \in Seq(StoredName)
    BY <1>1, <2>2 DEF Names
  <2> QED BY <2>2, <2>3, AppendProperties
<1>2. <<>> \in Seq(StoredName)
  BY EmptySeq
<1> QED BY <1>1, <1>2 DEF Climb, Names

\* The recursive function of build_full_path_from_meta exists.
LEMMA ClimbExists ==
  ASSUME NEW m \in [MetaIndex -> MetaEntry]
  PROVE  \E f : f = [steps \in 0 .. NM |-> Climb(m, steps, f[steps - 1])]
<1> DEFINE Climbs(n, f) == f = [steps \in 0 .. n |-> Climb(m, steps, f[steps - 1])]
           Bad == {n \in 0 .. NM : ~ \E f : Climbs(n, f)}
<1>1. SUFFICES ASSUME Bad # {} PROVE FALSE
  <2>1. NM \in 0 .. NM BY SizesAssumption
  <2> QED BY <2>1
<1>2. Bad \in SUBSET Nat
  <2>1. \A n \in 0 .. NM : n \in Nat OBVIOUS
  <2> QED BY <2>1, Zenon
<1> HIDE DEF Bad
<1>3. PICK n \in Bad : \A k \in Bad : n <= k
  BY <1>1, <1>2, LeastExists, Zenon
<1>4. n \in 0 .. NM /\ ~ \E f : Climbs(n, f)
  BY DEF Bad
<1>5. n # 0
  <2>1. SUFFICES ASSUME n = 0 PROVE FALSE OBVIOUS
  <2> DEFINE f == [steps \in 0 .. 0 |-> [c \in 0 .. NM |-> <<>>]]
  <2>2. \A x : Climb(m, 0, x) = [c \in 0 .. NM |-> <<>>]
    BY DEF Climb
  <2>3. f = [steps \in 0 .. 0 |-> Climb(m, steps, f[steps - 1])]
    <3>1. ASSUME NEW i \in 0 .. 0 PROVE f[i] = Climb(m, i, f[i - 1])
      <4>1. i = 0 OBVIOUS
      <4>2. Climb(m, 0, f[0 - 1]) = [c \in 0 .. NM |-> <<>>] BY <2>2, Zenon
      <4>3. f[0] = [c \in 0 .. NM |-> <<>>] OBVIOUS
      <4> HIDE DEF f
      <4> QED BY <4>1, <4>2, <4>3
    <3> QED BY <3>1
  <2> QED BY <1>4, <2>1, <2>3
<1>6. n - 1 \in 0 .. NM /\ n - 1 \notin Bad
  BY <1>3, <1>4, <1>5, SizesAssumption
<1>7. PICK h : Climbs(n - 1, h)
  BY <1>6 DEF Bad
<1> DEFINE f == [steps \in 0 .. n |-> IF steps = n THEN Climb(m, n, h[n - 1]) ELSE h[steps]]
<1>8. Climbs(n, f)
  <2>1. ASSUME NEW i \in 0 .. n PROVE f[i] = Climb(m, i, f[i - 1])
    <3>1. CASE i = n
      <4>1. f[i - 1] = h[n - 1] BY <3>1, <1>4, <1>5, SizesAssumption
      <4> QED BY <3>1, <4>1
    <3>2. CASE i # n /\ i # 0
      <4>1. i \in 0 .. n - 1 BY <3>2, <1>4, SizesAssumption
      <4>2. h[i] = Climb(m, i, h[i - 1]) BY <4>1, <1>7
      <4>3. i - 1 \in 0 .. n /\ i - 1 # n BY <3>2, <4>1, <1>4, SizesAssumption
      <4>4. f[i - 1] = h[i - 1] BY <4>3
      <4> QED BY <3>2, <4>2, <4>4
    <3>3. CASE i # n /\ i = 0
      <4>1. i \in 0 .. n - 1 BY <3>3, <1>4, SizesAssumption
      <4>2. h[0] = Climb(m, 0, h[0 - 1]) BY <3>3, <4>1, <1>7
      <4>3. Climb(m, 0, h[0 - 1]) = Climb(m, 0, f[0 - 1]) BY DEF Climb
      <4>4. f[0] = h[0] BY <3>3
      <4> QED BY <3>3, <4>2, <4>3, <4>4
    <3> QED BY <3>1, <3>2, <3>3
  <2> QED BY <2>1
<1> QED BY <1>4, <1>8

\* The names of a path: none for the root, at least one for every other entry
\* in use.
LEMMA PathNames ==
  ASSUME NEW m \in [MetaIndex -> MetaEntry]
  PROVE  /\ build_full_path_from_meta(m, Root) = RootPath
         /\ \A i \in Live(m) : i # Root => build_full_path_from_meta(m, i) # RootPath
<1> DEFINE up == CHOOSE up : up = [steps \in 0 .. NM |->
                   [c \in 0 .. NM |->
                      IF steps = 0 \/ c \in {0, Root} THEN <<>>
                      ELSE IF m[c].valid = 1 THEN <<>>
                      ELSE Append(up[steps - 1][m[c].parent], m[c].name)]]
<1>1. \A i : build_full_path_from_meta(m, i) = [dbl |-> FALSE, toks |-> up[NM][i]]
  BY Zenon DEF build_full_path_from_meta
<1>2. up = [steps \in 0 .. NM |-> Climb(m, steps, up[steps - 1])]
  BY ClimbExists, Zenon DEF Climb
<1> HIDE DEF up
<1> DEFINE Bad == {n \in 0 .. NM : up[n] \notin Names}
<1>3. Bad = {}
  <2>1. SUFFICES ASSUME Bad # {} PROVE FALSE
    OBVIOUS
  <2>2. Bad \in SUBSET Nat
    OBVIOUS
  <2> HIDE DEF Bad
  <2>3. PICK n \in Bad : \A k \in Bad : n <= k
    BY <2>1, <2>2, LeastExists, Zenon
  <2>4. n \in 0 .. NM /\ up[n] \notin Names
    BY DEF Bad
  <2>5. up[n] = Climb(m, n, up[n - 1])
    BY <1>2, <2>4
  <2>6. n # 0 => n - 1 \in 0 .. NM /\ n - 1 \notin Bad
    BY <2>3, <2>4, SizesAssumption
  <2>7. n # 0 => up[n - 1] \in Names
    BY <2>6 DEF Bad
  <2> QED BY <2>4, <2>5, <2>7, ClimbType
<1>4. NM \in 0 .. NM /\ NM # 0 /\ NM - 1 \in 0 .. NM /\ Root \in 0 .. NM
  BY SizesAssumption DEF Root
<1>5. up[NM] = Climb(m, NM, up[NM - 1]) /\ up[NM - 1] \in Names
  BY <1>2, <1>3, <1>4
<1>6. up[NM][Root] = <<>>
  BY <1>4, <1>5 DEF Climb
<1>7. ASSUME NEW i \in Live(m), i # Root
      PROVE  up[NM][i] # <<>>
  <2>1. i \in MetaIndex /\ i \in 0 .. NM /\ i \notin {0, Root} /\ m[i].valid # 1
    BY <1>7, SizesAssumption DEF Live, MetaIndex
  <2>2. up[NM][i] = Append(up[NM - 1][m[i].parent], m[i].name)
    BY <1>4, <1>5, <2>1 DEF Climb
  <2>3. m[i].parent \in 0 .. NM /\ m[i].name \in StoredName
    BY <2>1 DEF MetaEntry, StoredName
  <2>4. up[NM - 1][m[i].parent] \in Seq(StoredName)
    BY <1>5, <2>3 DEF Names
  <2> QED BY <2>2, <2>3, <2>4, AppendProperties
<1> QED BY <1>1, <1>6, <1>7 DEF RootPath

\* What rebuild_path_index leaves: every path leads to an entry in use that
\* climbs to that path, and the root's path to the root.
LEMMA Rebuild ==
  ASSUME NEW m \in [MetaIndex -> MetaEntry], NEW index, index = rebuild_path_index(m)
  PROVE  /\ index \in [DOMAIN index -> MetaIndex]
         /\ \A p \in DOMAIN index : /\ index[p] \in Live(m)
                                    /\ build_full_path_from_meta(m, index[p]) = p
         /\ Root \in Live(m) => RootPath \in DOMAIN index /\ index[RootPath] = Root
<1> DEFINE path == [i \in Live(m) |-> build_full_path_from_meta(m, i)]
           Winner(p) == CHOOSE i \in Live(m) : /\ path[i] = p
                                               /\ \A j \in Live(m) : path[j] = p => j <= i
<1>1. index = [p \in {path[i] : i \in Live(m)} |-> Winner(p)]
  BY DEF rebuild_path_index
<1>2. ASSUME NEW p \in {path[i] : i \in Live(m)}
      PROVE  Winner(p) \in Live(m) /\ path[Winner(p)] = p
  <2> DEFINE S == {i \in Live(m) : path[i] = p}
  <2>1. S # {} /\ S \in SUBSET MetaIndex
    BY DEF Live
  <2>2. PICK w \in S : \A j \in S : j <= w
    BY <2>1, GreatestExists, Zenon
  <2>3. w \in Live(m) /\ path[w] = p /\ \A j \in Live(m) : path[j] = p => j <= w
    BY <2>2
  <2> QED BY <2>3, Zenon
<1> HIDE DEF Winner
<1>3. \A p \in DOMAIN index : index[p] \in Live(m) /\ build_full_path_from_meta(m, index[p]) = p
  BY <1>1, <1>2
<1>4. index \in [DOMAIN index -> MetaIndex]
  BY <1>1, <1>2 DEF Live
<1>5. ASSUME Root \in Live(m)
      PROVE  RootPath \in DOMAIN index /\ index[RootPath] = Root
  <2>1. path[Root] = RootPath
    BY <1>5, PathNames
  <2>2. RootPath \in DOMAIN index
    BY <1>1, <1>5, <2>1
  <2> QED BY <1>3, <2>2, PathNames
<1> QED BY <1>3, <1>4, <1>5

-----------------------------------------------------------------------------
(* Type correctness: what each part of a call returns and leaves. *)

\* allocate_blocks returns distinct blocks that were free.
LEMMA Allocated ==
  ASSUME NEW used, NEW n \in Nat, NEW s \in allocate_blocks(used, n)
  PROVE  /\ s \in BlockSeq /\ Len(s) = n
         /\ \A i \in 1 .. Len(s) : s[i] \in BlockIndex /\ s[i] \notin used
<1>1. /\ s \in BlockSeq /\ Len(s) = n
      /\ BlocksOf(s) \cap used = {}
  BY DEF allocate_blocks
<1>2. DOMAIN s = 1 .. Len(s) /\ \A i \in 1 .. Len(s) : s[i] \in BlockIndex
  BY <1>1, BlockSeqType
<1>3. \A i \in 1 .. Len(s) : s[i] \in BlocksOf(s)
  BY <1>2 DEF BlocksOf
<1> QED
  BY <1>1, <1>2, <1>3

LEMMA BlocksForType ==
  ASSUME NEW size \in Nat
  PROVE  BlocksFor(size) \in Nat
  BY SizesAssumption DEF BlocksFor

LEMMA FirstOfType ==
  ASSUME NEW s \in BlockSeq
  PROVE  FirstOf(s) \in 0 .. NB
<1>1. Len(s) \in Nat /\ \A i \in 1 .. Len(s) : s[i] \in BlockIndex
  BY BlockSeqType
<1> QED
  BY <1>1, SizesAssumption DEF FirstOf, BlockIndex

LEMMA NextInType ==
  ASSUME NEW s \in BlockSeq, NEW i \in 1 .. Len(s)
  PROVE  NextIn(s, i) \in 0 .. NB
<1>1. Len(s) \in Nat /\ \A k \in 1 .. Len(s) : s[k] \in BlockIndex
  BY BlockSeqType
<1>2. i < Len(s) => i + 1 \in 1 .. Len(s)
  BY <1>1
<1> QED
  BY <1>1, <1>2, SizesAssumption DEF NextIn, BlockIndex

\* Writing a chain touches its blocks only, and links each to the next.
LEMMA ChainWritten ==
  ASSUME NEW blk \in [BlockIndex -> Block], NEW s \in BlockSeq,
         NEW data \in [DOMAIN s -> Seq(Word)]
  PROVE  /\ WriteChain(blk, s, data) \in [BlockIndex -> Block]
         /\ \A b \in BlockIndex : b \notin BlocksOf(s) => WriteChain(blk, s, data)[b] = blk[b]
         /\ \A i \in 1 .. Len(s) : WriteChain(blk, s, data)[s[i]].next = NextIn(s, i)
<1> DEFINE At(b) == CHOOSE i \in DOMAIN s : s[i] = b
           New(b) == [next |-> NextIn(s, At(b)), items |-> data[At(b)]]
           w == WriteChain(blk, s, data)
<1>1. w = [b \in BlockIndex |-> IF b \in BlocksOf(s) THEN New(b) ELSE blk[b]]
  BY DEF WriteChain
<1>2. /\ DOMAIN s = 1 .. Len(s)
      /\ \A i \in 1 .. Len(s) : s[i] \in BlockIndex
      /\ \A i, j \in 1 .. Len(s) : s[i] = s[j] => i = j
  BY BlockSeqType
<1>3. \A b \in BlocksOf(s) : At(b) \in 1 .. Len(s) /\ s[At(b)] = b
  BY <1>2 DEF BlocksOf
<1>4. \A i \in 1 .. Len(s) : s[i] \in BlocksOf(s) /\ At(s[i]) = i
  BY <1>2, <1>3 DEF BlocksOf
<1>5. \A b \in BlocksOf(s) : New(b) \in Block
  BY <1>2, <1>3, NextInType DEF Block
<1> HIDE DEF New, At, w
<1>6. w \in [BlockIndex -> Block]
  BY <1>1, <1>5
<1>7. \A b \in BlockIndex : b \notin BlocksOf(s) => w[b] = blk[b]
  BY <1>1
<1>8. \A i \in 1 .. Len(s) : w[s[i]].next = NextIn(s, i)
  BY <1>1, <1>2, <1>4 DEF New
<1> QED
  BY <1>6, <1>7, <1>8 DEF w

LEMMA BasenameType ==
  ASSUME NEW p \in ClientPath, p.toks # <<>>
  PROVE  Basename(p) \in Name
<1>1. p.toks \in Seq(Name)
  BY ClientAssumption DEF Path
<1>2. Len(p.toks) \in 1 .. Len(p.toks)
  BY <1>1
<1> QED
  BY <1>1, <1>2 DEF Basename

LEMMA NewEntryType ==
  ASSUME TypeOK, NEW p \in ClientPath, MayCreate(p), NEW type \in {FILE, DIR},
         NEW start \in 0 .. NB, NEW size \in Nat
  PROVE  /\ path_index[ParentPath(p)] \in MetaIndex
         /\ NewEntry(type, p, start, size) \in MetaEntry
<1>1. path_index[ParentPath(p)] \in MetaIndex
  BY DEF TypeOK, MayCreate
<1>2. Trunc[Basename(p)] \in Name
  BY BasenameType, TruncAssumption DEF MayCreate
<1>3. path_index[ParentPath(p)] \in 0 .. NM
  BY <1>1, SizesAssumption DEF MetaIndex
<1> QED
  BY <1>1, <1>2, <1>3 DEF NewEntry, MetaEntry

-----------------------------------------------------------------------------
(* One lemma per kind of call: the call keeps the types. *)

Typed(m, used, blk) == /\ m \in [MetaIndex -> MetaEntry]
                       /\ used \subseteq BlockIndex
                       /\ blk \in [BlockIndex -> Block]

LEMMA VolumeTyped ==
  ASSUME TypeOK
  PROVE  Volume \in Vol /\ Typed(meta, free_bitmap, blocks)
  BY DEF TypeOK, Volume, Vol, Typed

LEMMA CreateTyped ==
  ASSUME TypeOK, NEW p \in ClientPath, NEW size \in Size, file_create(p, size)
  PROVE  TypeOK'
<1> DEFINE parent == path_index[ParentPath(p)]
           W(i, s, data) ==
             [meta |-> [meta EXCEPT ![i] = NewEntry(FILE, p, FirstOf(s), size)],
              free_bitmap |-> free_bitmap \cup BlocksOf(s),
              blocks |-> WriteChain(blocks, s, data)]
<1>1. PICK i \in find_free_meta_index(meta), s \in allocate_blocks(free_bitmap, BlocksFor(size)) :
        \E data \in [DOMAIN s -> Data] :
          /\ \E r \in dir_add_child(W(i, s, data), parent, i) : Becomes(r.vol)
          /\ path_index' = [q \in DOMAIN path_index \cup {p} |->
                              IF q = p THEN i ELSE path_index[q]]
  BY DEF file_create
<1>2. PICK data \in [DOMAIN s -> Data] :
          /\ \E r \in dir_add_child(W(i, s, data), parent, i) : Becomes(r.vol)
          /\ path_index' = [q \in DOMAIN path_index \cup {p} |->
                              IF q = p THEN i ELSE path_index[q]]
  BY <1>1
<1>3. size \in Nat /\ i \in MetaIndex /\ MayCreate(p)
  BY ClientAssumption DEF find_free_meta_index, Lowest, file_create
<1>4. s \in BlockSeq /\ BlocksOf(s) \subseteq BlockIndex
  BY <1>3, Allocated, BlocksForType, BlockSeqType DEF BlocksOf
<1>5. NewEntry(FILE, p, FirstOf(s), size) \in MetaEntry /\ parent \in MetaIndex
  BY <1>3, <1>4, FirstOfType, NewEntryType
<1>6. data \in [DOMAIN s -> Seq(Word)]
  BY DataAssumption DEF Word
<1>7. WriteChain(blocks, s, data) \in [BlockIndex -> Block]
  BY <1>4, <1>6, ChainWritten DEF TypeOK
<1>8. W(i, s, data) \in Vol
  BY <1>3, <1>4, <1>5, <1>7 DEF TypeOK, Vol
<1> HIDE DEF W, parent
<1>9. \A r \in dir_add_child(W(i, s, data), parent, i) : r.vol \in Vol
  BY <1>3, <1>5, <1>8, AddChild
<1>10. meta' \in [MetaIndex -> MetaEntry] /\ free_bitmap' \subseteq BlockIndex
       /\ blocks' \in [BlockIndex -> Block]
  BY <1>2, <1>9 DEF Becomes, Vol
<1>11. path_index' \in [DOMAIN path_index' -> MetaIndex]
  BY <1>2, <1>3 DEF TypeOK
<1> QED
  BY <1>10, <1>11 DEF TypeOK

LEMMA CreateNoSpaceTyped ==
  ASSUME TypeOK, NEW p \in ClientPath, NEW size \in Size, file_create_no_space(p, size)
  PROVE  TypeOK'
<1>1. PICK i \in find_free_meta_index(meta) :
        meta' = [meta EXCEPT ![i] =
                   [NewEntry(FILE, p, meta[i].start_index, size) EXCEPT !.valid = 1]]
  BY DEF file_create_no_space
<1>2. size \in Nat /\ i \in MetaIndex /\ MayCreate(p)
  BY ClientAssumption DEF find_free_meta_index, Lowest, file_create_no_space
<1>3. meta[i].start_index \in 0 .. NB
  BY <1>2 DEF TypeOK, MetaEntry
<1>4. NewEntry(FILE, p, meta[i].start_index, size) \in MetaEntry
  BY <1>2, <1>3, NewEntryType
<1>5. meta' \in [MetaIndex -> MetaEntry]
  BY <1>1, <1>2, <1>4 DEF TypeOK, MetaEntry
<1> QED
  BY <1>5 DEF TypeOK, file_create_no_space

LEMMA DeleteTyped ==
  ASSUME TypeOK, NEW p \in ClientPath, file_delete(p)
  PROVE  TypeOK'
<1> DEFINE i == path_index[p]
           F(s) == [Volume EXCEPT !.free_bitmap = @ \ BlocksOf(s)]
           R(s) == IF meta[i].parent \in MetaIndex
                   THEN dir_remove_child(F(s), meta[i].parent, i)
                   ELSE {[ok |-> FALSE, vol |-> F(s)]}
<1>1. PICK s \in Chains(blocks, meta[i].start_index) :
        \E r \in R(s) :
           /\ meta' = [r.vol.meta EXCEPT ![i].valid = 1, ![i].start_index = 0,
                                         ![i].total_size = 0]
           /\ free_bitmap' = r.vol.free_bitmap
           /\ blocks' = r.vol.blocks
           /\ path_index' = rebuild_path_index(meta')
  BY DEF file_delete
<1>2. i \in MetaIndex
  BY DEF TypeOK, file_delete
<1>3. F(s) \in Vol
  BY DEF TypeOK, Vol, Volume
<1> HIDE DEF i, F
<1>4. \A r \in R(s) : r.vol \in Vol
  <2>1. CASE meta[i].parent \in MetaIndex
    BY <1>2, <1>3, <2>1, RemoveChild
  <2>2. CASE meta[i].parent \notin MetaIndex
    BY <1>3, <2>2
  <2> QED
    BY <2>1, <2>2
<1> HIDE DEF R
<1>5. PICK r \in R(s) :
           /\ meta' = [r.vol.meta EXCEPT ![i].valid = 1, ![i].start_index = 0,
                                         ![i].total_size = 0]
           /\ free_bitmap' = r.vol.free_bitmap
           /\ blocks' = r.vol.blocks
           /\ path_index' = rebuild_path_index(meta')
  BY <1>1
<1>6. r.vol.meta \in [MetaIndex -> MetaEntry] /\ r.vol.free_bitmap \subseteq BlockIndex
      /\ r.vol.blocks \in [BlockIndex -> Block]
  BY <1>4, <1>5 DEF Vol
<1>7. meta' \in [MetaIndex -> MetaEntry]
  <2>1. 0 \in 0 .. NB
    BY SizesAssumption
  <2>2. [r.vol.meta[i] EXCEPT !.valid = 1, !.start_index = 0, !.total_size = 0] \in MetaEntry
    BY <1>2, <1>6, <2>1 DEF MetaEntry
  <2> QED
    BY <1>2, <1>5, <1>6, <2>2
<1>8. path_index' \in [DOMAIN path_index' -> MetaIndex]
  BY <1>5, <1>7, Rebuild
<1> QED
  BY <1>5, <1>6, <1>7, <1>8 DEF TypeOK

LEMMA EditTyped ==
  ASSUME TypeOK, NEW p \in ClientPath, NEW pos \in Size, file_edit(p, pos)
  PROVE  TypeOK'
<1> DEFINE i == path_index[p]
           k == pos \div BlockPayload + 1
<1>1. PICK s \in Chains(blocks, meta[i].start_index) :
        k \in DOMAIN s /\ \E d \in Data : blocks' = [blocks EXCEPT ![s[k]].items = d]
  BY DEF file_edit
<1>2. PICK d \in Data : blocks' = [blocks EXCEPT ![s[k]].items = d]
  BY <1>1
<1>3. s \in BlockSeq
  BY DEF Chains
<1>4. s[k] \in BlockIndex
  BY <1>1, <1>3, BlockSeqType
<1>5. d \in Seq(Word)
  BY DataAssumption DEF Word
<1>6. [blocks[s[k]] EXCEPT !.items = d] \in Block
  BY <1>4, <1>5 DEF TypeOK, Block
<1>7. blocks' \in [BlockIndex -> Block]
  BY <1>2, <1>4, <1>6 DEF TypeOK
<1> QED
  BY <1>7 DEF TypeOK, file_edit

\* The update of a file's entry by file_truncate.
LEMMA EntryUpdate ==
  ASSUME NEW m \in [MetaIndex -> MetaEntry], NEW i \in MetaIndex,
         NEW start \in 0 .. NB, NEW size \in Nat
  PROVE  /\ [m EXCEPT ![i].total_size = size] \in [MetaIndex -> MetaEntry]
         /\ [m EXCEPT ![i].start_index = start] \in [MetaIndex -> MetaEntry]
         /\ [m EXCEPT ![i].start_index = start, ![i].total_size = size]
              \in [MetaIndex -> MetaEntry]
         /\ [m EXCEPT ![i].valid = 1] \in [MetaIndex -> MetaEntry]
<1>1. /\ [m[i] EXCEPT !.total_size = size] \in MetaEntry
      /\ [m[i] EXCEPT !.start_index = start] \in MetaEntry
      /\ [m[i] EXCEPT !.start_index = start, !.total_size = size] \in MetaEntry
      /\ [m[i] EXCEPT !.valid = 1] \in MetaEntry
  BY DEF MetaEntry
<1> QED
  BY <1>1

LEMMA NextUpdate ==
  ASSUME NEW blk \in [BlockIndex -> Block], NEW b \in BlockIndex, NEW n \in 0 .. NB
  PROVE  [blk EXCEPT ![b].next = n] \in [BlockIndex -> Block]
<1>1. [blk[b] EXCEPT !.next = n] \in Block
  BY DEF Block
<1> QED
  BY <1>1

LEMMA TruncateTyped ==
  ASSUME TypeOK, NEW p \in ClientPath, NEW size \in Size, file_truncate(p, size)
  PROVE  TypeOK'
<1> DEFINE i == path_index[p]
           need == BlocksFor(size)
           Same(s) == /\ need = Len(s)
                      /\ meta' = [meta EXCEPT ![i].total_size = size]
                      /\ UNCHANGED <<free_bitmap, blocks>>
           Less(s) == /\ need < Len(s)
                      /\ free_bitmap' = free_bitmap \ {s[k] : k \in need + 1 .. Len(s)}
                      /\ IF need = 0
                         THEN /\ meta' = [meta EXCEPT ![i].start_index = 0,
                                                      ![i].total_size = size]
                              /\ UNCHANGED blocks
                         ELSE /\ meta' = [meta EXCEPT ![i].total_size = size]
                              /\ blocks' = [blocks EXCEPT ![s[need]].next = 0]
           Grown(new) == WriteChain(blocks, new, [k \in DOMAIN new |-> <<>>])
           More(s, new) == /\ free_bitmap' = free_bitmap \cup BlocksOf(new)
                           /\ IF Len(s) = 0
                              THEN /\ meta' = [meta EXCEPT ![i].start_index = new[1],
                                                           ![i].total_size = size]
                                   /\ blocks' = Grown(new)
                              ELSE /\ meta' = [meta EXCEPT ![i].total_size = size]
                                   /\ blocks' = [Grown(new) EXCEPT ![s[Len(s)]].next = new[1]]
<1>1. PICK s \in Chains(blocks, meta[i].start_index) :
         \/ Same(s)
         \/ Less(s)
         \/ /\ need > Len(s)
            /\ \E new \in allocate_blocks(free_bitmap, need - Len(s)) : More(s, new)
  BY DEF file_truncate
<1>2. i \in MetaIndex /\ size \in Nat /\ need \in Nat
  BY ClientAssumption, BlocksForType DEF TypeOK, file_truncate
<1>3. s \in BlockSeq
  BY DEF Chains
<1>4. Len(s) \in Nat /\ \A k \in 1 .. Len(s) : s[k] \in BlockIndex
  BY <1>3, BlockSeqType
<1>5. 0 \in 0 .. NB
  BY SizesAssumption
<1>6. UNCHANGED path_index
  BY DEF file_truncate
<1>50. meta \in [MetaIndex -> MetaEntry]
  BY DEF TypeOK
<1>51. /\ [meta EXCEPT ![i].total_size = size] \in [MetaIndex -> MetaEntry]
       /\ \A start \in 0 .. NB :
            [meta EXCEPT ![i].start_index = start, ![i].total_size = size]
              \in [MetaIndex -> MetaEntry]
  BY <1>2, <1>5, <1>50, EntryUpdate
<1> DEFINE OK == Typed(meta, free_bitmap, blocks)'
<1> HIDE DEF i, need
<1>7. ASSUME Same(s) PROVE OK
  BY <1>7, <1>51 DEF TypeOK, Typed
<1>8. ASSUME Less(s) PROVE OK
  <2>1. free_bitmap' \subseteq BlockIndex
    BY <1>8 DEF TypeOK
  <2>2. CASE need = 0
    BY <1>5, <1>8, <1>51, <2>1, <2>2 DEF TypeOK, Typed
  <2>3. CASE need # 0
    <3>1. need \in 1 .. Len(s)
      BY <1>2, <1>4, <1>8, <2>3
    <3>2. blocks' \in [BlockIndex -> Block]
      BY <1>4, <1>5, <1>8, <2>3, <3>1, NextUpdate DEF TypeOK
    <3>3. meta' \in [MetaIndex -> MetaEntry]
      BY <1>8, <1>51, <2>3
    <3> QED
      BY <2>1, <3>2, <3>3 DEF Typed
  <2> QED
    BY <2>2, <2>3
<1>9. ASSUME need > Len(s), NEW new \in allocate_blocks(free_bitmap, need - Len(s)),
             More(s, new)
      PROVE  OK
  <2>1. /\ need - Len(s) \in Nat /\ need - Len(s) # 0
    BY <1>2, <1>4, <1>9
  <2>2. /\ new \in BlockSeq /\ Len(new) = need - Len(s)
        /\ \A k \in 1 .. Len(new) : new[k] \in BlockIndex
    BY <2>1, Allocated
  <2>3. DOMAIN new = 1 .. Len(new) /\ BlocksOf(new) \subseteq BlockIndex
    BY <2>2, BlockSeqType DEF BlocksOf
  <2>4. new[1] \in BlockIndex /\ new[1] \in 0 .. NB
    BY <2>1, <2>2, SizesAssumption DEF BlockIndex
  <2>5. [k \in DOMAIN new |-> <<>>] \in [DOMAIN new -> Seq(Word)]
    OBVIOUS
  <2>6. Grown(new) \in [BlockIndex -> Block]
    BY <2>2, <2>5, ChainWritten DEF TypeOK
  <2>7. free_bitmap' \subseteq BlockIndex
    BY <1>9, <2>3 DEF TypeOK
  <2> HIDE DEF Grown
  <2>8. CASE Len(s) = 0
    BY <1>9, <1>51, <2>4, <2>6, <2>7, <2>8 DEF Typed
  <2>9. CASE Len(s) # 0
    <3>1. s[Len(s)] \in BlockIndex
      BY <1>4, <2>9
    <3>2. blocks' \in [BlockIndex -> Block]
      BY <1>9, <2>4, <2>6, <2>9, <3>1, NextUpdate
    <3>3. meta' \in [MetaIndex -> MetaEntry]
      BY <1>9, <1>51, <2>9
    <3> QED
      BY <2>7, <3>2, <3>3 DEF Typed
  <2> QED
    BY <2>8, <2>9
<1>10. OK
  BY <1>1, <1>7, <1>8, <1>9
<1> QED
  BY <1>6, <1>10 DEF TypeOK, Typed

LEMMA DirCreateTyped ==
  ASSUME TypeOK, NEW p \in ClientPath, dir_create(p)
  PROVE  TypeOK'
<1> DEFINE parent == path_index[ParentPath(p)]
           W(i) == [Volume EXCEPT !.meta[i] = NewEntry(DIR, p, 0, 0)]
           Outcome(i, r) == IF r.ok
                            THEN /\ Becomes(r.vol)
                                 /\ path_index' = rebuild_path_index(meta')
                            ELSE /\ meta' = [r.vol.meta EXCEPT ![i].valid = 1]
                                 /\ UNCHANGED <<free_bitmap, blocks, path_index>>
<1>1. PICK i \in find_free_meta_index(meta) :
        \E r \in dir_add_child(W(i), parent, i) : Outcome(i, r)
  BY DEF dir_create
<1>2. i \in MetaIndex /\ MayCreate(p) /\ 0 \in 0 .. NB
  BY SizesAssumption DEF find_free_meta_index, Lowest, dir_create
<1>3. NewEntry(DIR, p, 0, 0) \in MetaEntry /\ parent \in MetaIndex
  BY <1>2, NewEntryType
<1>4. W(i) \in Vol
  BY <1>2, <1>3 DEF TypeOK, Vol, Volume
<1> HIDE DEF W, parent
<1>5. PICK r \in dir_add_child(W(i), parent, i) : Outcome(i, r)
  BY <1>1
<1>6. r.vol \in Vol
  BY <1>2, <1>3, <1>4, AddChild
<1>7. r.vol.meta \in [MetaIndex -> MetaEntry] /\ r.vol.free_bitmap \subseteq BlockIndex
      /\ r.vol.blocks \in [BlockIndex -> Block]
  BY <1>6 DEF Vol
<1>8. CASE r.ok
  <2>1. Typed(meta, free_bitmap, blocks)'
    BY <1>5, <1>7, <1>8 DEF Becomes, Typed
  <2>2. path_index' \in [DOMAIN path_index' -> MetaIndex]
    BY <1>5, <1>8, <2>1, Rebuild DEF Typed
  <2> QED
    BY <2>1, <2>2 DEF TypeOK, Typed
<1>9. CASE ~r.ok
  <2>1. [r.vol.meta EXCEPT ![i].valid = 1] \in [MetaIndex -> MetaEntry]
    BY <1>2, <1>7, EntryUpdate
  <2> QED
    BY <1>5, <1>9, <2>1 DEF TypeOK
<1> QED
  BY <1>8, <1>9

LEMMA DirDeleteTyped ==
  ASSUME TypeOK, NEW p \in ClientPath, dir_delete(p)
  PROVE  TypeOK'
<1> DEFINE i == path_index[p]
<1>1. PICK r \in dir_remove_child(Volume, meta[i].parent, i) :
        /\ r.ok
        /\ meta' = [r.vol.meta EXCEPT ![i].valid = 1, ![i].start_index = 0]
        /\ free_bitmap' = r.vol.free_bitmap \ {r.vol.meta[i].start_index}
        /\ blocks' = r.vol.blocks
        /\ path_index' = rebuild_path_index(meta')
  BY DEF dir_delete
<1>2. i \in MetaIndex /\ meta[i].parent \in MetaIndex
  BY DEF TypeOK, dir_delete
<1> HIDE DEF i
<1>3. r.vol \in Vol
  BY <1>2, VolumeTyped, RemoveChild
<1>4. r.vol.meta \in [MetaIndex -> MetaEntry] /\ r.vol.free_bitmap \subseteq BlockIndex
      /\ r.vol.blocks \in [BlockIndex -> Block]
  BY <1>3 DEF Vol
<1>5. meta' \in [MetaIndex -> MetaEntry]
  <2>1. 0 \in 0 .. NB
    BY SizesAssumption
  <2>2. [r.vol.meta[i] EXCEPT !.valid = 1, !.start_index = 0] \in MetaEntry
    <3>1. r.vol.meta[i] \in MetaEntry
      BY <1>2, <1>4
    <3> QED
      BY <2>1, <3>1 DEF MetaEntry
  <2> QED
    BY <1>1, <1>2, <1>4, <2>2
<1>6. path_index' \in [DOMAIN path_index' -> MetaIndex]
  BY <1>1, <1>5, Rebuild
<1> QED
  BY <1>1, <1>4, <1>5, <1>6 DEF TypeOK

\* The two updates file_rename makes to an entry.
LEMMA MoveUpdate ==
  ASSUME NEW v \in Vol, NEW i \in MetaIndex, NEW n \in Name, NEW d \in 0 .. NM
  PROVE  /\ [v EXCEPT !.meta = [@ EXCEPT ![i].name = n, ![i].parent = d]] =
              [meta |-> [v.meta EXCEPT ![i].name = n, ![i].parent = d],
               free_bitmap |-> v.free_bitmap, blocks |-> v.blocks]
         /\ [v.meta EXCEPT ![i].name = n, ![i].parent = d] =
              [v.meta EXCEPT ![i] = [v.meta[i] EXCEPT !.name = n, !.parent = d]]
         /\ [v EXCEPT !.meta = [@ EXCEPT ![i].name = n, ![i].parent = d]] \in Vol
<1>1. v = [meta |-> v.meta, free_bitmap |-> v.free_bitmap, blocks |-> v.blocks]
      /\ v.meta \in [MetaIndex -> MetaEntry]
  BY DEF Vol
<1> DEFINE m == v.meta
           u == [m EXCEPT ![i].name = n, ![i].parent = d]
<1>2. [v EXCEPT !.meta = [@ EXCEPT ![i].name = n, ![i].parent = d]] =
        [meta |-> u, free_bitmap |-> v.free_bitmap, blocks |-> v.blocks]
  BY <1>1
<1>3. u = [m EXCEPT ![i] = [m[i] EXCEPT !.name = n, !.parent = d]]
  BY <1>1
<1>4. [m[i] EXCEPT !.name = n, !.parent = d] \in MetaEntry
  BY <1>1 DEF MetaEntry
<1>5. u \in [MetaIndex -> MetaEntry]
  BY <1>1, <1>3, <1>4
<1> QED
  BY <1>2, <1>3, <1>5 DEF Vol

\* The entry file_rename has taken out of its old parent and renamed.
LEMMA MovedTyped ==
  ASSUME TypeOK, NEW p \in ClientPath, NEW q \in ClientPath, MayRename(p, q),
         NEW r \in dir_remove_child(Volume, meta[path_index[p]].parent, path_index[p])
  PROVE  /\ path_index[p] \in MetaIndex
         /\ meta[path_index[p]].parent \in MetaIndex
         /\ path_index[PrefixPath(q)] \in MetaIndex
         /\ Moved(p, q, r) \in Vol
<1> DEFINE i == path_index[p]
<1>1. /\ i \in MetaIndex /\ meta[i].parent \in MetaIndex
      /\ path_index[PrefixPath(q)] \in MetaIndex
  BY DEF TypeOK, MayRename
<1>2. path_index[PrefixPath(q)] \in 0 .. NM
  BY <1>1, SizesAssumption DEF MetaIndex
<1>3. Basename(q) \in Name
  BY BasenameType DEF MayRename
<1>4. r.vol \in Vol
  BY <1>1, VolumeTyped, RemoveChild
<1>5. Moved(p, q, r) \in Vol
  BY <1>1, <1>2, <1>3, <1>4, MoveUpdate DEF Moved
<1> QED
  BY <1>1, <1>5

LEMMA RenameTyped ==
  ASSUME TypeOK, NEW p \in ClientPath, NEW q \in ClientPath, file_rename(p, q)
  PROVE  TypeOK'
<1> DEFINE i == path_index[p]
<1>1. PICK r \in dir_remove_child(Volume, meta[i].parent, i) :
        \E a \in dir_add_child(Moved(p, q, r), path_index[PrefixPath(q)], i) :
           Becomes(a.vol) /\ path_index' = rebuild_path_index(meta')
  BY DEF file_rename
<1>2. PICK a \in dir_add_child(Moved(p, q, r), path_index[PrefixPath(q)], i) :
           Becomes(a.vol) /\ path_index' = rebuild_path_index(meta')
  BY <1>1
<1>3. MayRename(p, q)
  BY DEF file_rename
<1>4. a.vol \in Vol
  BY <1>3, MovedTyped, AddChild
<1>5. Typed(meta, free_bitmap, blocks)'
  BY <1>2, <1>4 DEF Becomes, Typed, Vol
<1>6. path_index' \in [DOMAIN path_index' -> MetaIndex]
  BY <1>2, <1>5, Rebuild DEF Typed
<1> QED
  BY <1>5, <1>6 DEF TypeOK, Typed

LEMMA RenameFailsTyped ==
  ASSUME TypeOK, NEW p \in ClientPath, NEW q \in ClientPath, file_rename_fails(p, q)
  PROVE  TypeOK'
<1> DEFINE i == path_index[p]
           Back(a) == [a.vol EXCEPT !.meta[i].parent = meta[i].parent]
<1>1. PICK r \in dir_remove_child(Volume, meta[i].parent, i) :
        \E a \in dir_add_child(Moved(p, q, r), path_index[PrefixPath(q)], i) :
          \E b \in dir_add_child(Back(a), meta[i].parent, i) : Becomes(b.vol)
  BY DEF file_rename_fails
<1>2. PICK a \in dir_add_child(Moved(p, q, r), path_index[PrefixPath(q)], i) :
          \E b \in dir_add_child(Back(a), meta[i].parent, i) : Becomes(b.vol)
  BY <1>1
<1>3. MayRename(p, q)
  BY DEF file_rename_fails
<1>4. a.vol \in Vol /\ i \in MetaIndex /\ meta[i].parent \in MetaIndex
  BY <1>3, MovedTyped, AddChild
<1>5. Back(a) \in Vol
  <2>1. meta[i].parent \in 0 .. NM
    BY <1>4, SizesAssumption DEF MetaIndex
  <2> QED
    BY <1>4, <2>1, ParentUpdate
<1> HIDE DEF Back, i
<1>6. \A b \in dir_add_child(Back(a), meta[i].parent, i) : b.vol \in Vol
  BY <1>4, <1>5, AddChild
<1>7. Typed(meta, free_bitmap, blocks)'
  BY <1>2, <1>6 DEF Becomes, Typed, Vol
<1> QED
  BY <1>7 DEF TypeOK, Typed, file_rename_fails

LEMMA InitTyped == Init => TypeOK
<1> SUFFICES ASSUME Init PROVE TypeOK
  OBVIOUS
<1>1. 0 \in 0 .. NB /\ 0 \in 0 .. NM /\ Root \in MetaIndex
  BY SizesAssumption DEF Root, MetaIndex
<1>2. /\ FreshEntry \in MetaEntry
      /\ [FreshEntry EXCEPT !.valid = 0, !.type = DIR, !.name = "root"] \in MetaEntry
  BY <1>1 DEF FreshEntry, MetaEntry
<1>3. meta \in [MetaIndex -> MetaEntry]
  BY <1>2 DEF Init
<1>4. blocks \in [BlockIndex -> Block]
  BY <1>1 DEF Init, Block
<1> QED
  BY <1>1, <1>3, <1>4 DEF Init, TypeOK

LEMMA NextTyped == TypeOK /\ [Next]_vars => TypeOK'
<1> SUFFICES ASSUME TypeOK, [Next]_vars PROVE TypeOK'
  OBVIOUS
<1>1. CASE UNCHANGED vars
  BY <1>1 DEF vars, TypeOK
<1>2. ASSUME NEW p \in ClientPath, NEW size \in Size, file_create(p, size) PROVE TypeOK'
  BY <1>2, CreateTyped
<1>3. ASSUME NEW p \in ClientPath, NEW size \in Size, file_create_no_space(p, size)
      PROVE  TypeOK'
  BY <1>3, CreateNoSpaceTyped
<1>4. ASSUME NEW p \in ClientPath, file_delete(p) PROVE TypeOK'
  BY <1>4, DeleteTyped
<1>5. ASSUME NEW p \in ClientPath, NEW pos \in Size, file_edit(p, pos) PROVE TypeOK'
  BY <1>5, EditTyped
<1>6. ASSUME NEW p \in ClientPath, NEW size \in Size, file_truncate(p, size) PROVE TypeOK'
  BY <1>6, TruncateTyped
<1>7. ASSUME NEW p \in ClientPath, dir_create(p) PROVE TypeOK'
  BY <1>7, DirCreateTyped
<1>8. ASSUME NEW p \in ClientPath, dir_delete(p) PROVE TypeOK'
  BY <1>8, DirDeleteTyped
<1>9. ASSUME NEW p \in ClientPath, NEW q \in ClientPath, file_rename(p, q) PROVE TypeOK'
  BY <1>9, RenameTyped
<1>10. ASSUME NEW p \in ClientPath, NEW q \in ClientPath, file_rename_fails(p, q)
       PROVE  TypeOK'
  BY <1>10, RenameFailsTyped
<1> QED
  BY <1>1, <1>2, <1>3, <1>4, <1>5, <1>6, <1>7, <1>8, <1>9, <1>10 DEF Next

\* Every call keeps every structure of the instance in range: the indices in
\* the table, the bitmap, the block chains, the directory blocks and the path
\* index stay inside their tables (core/ofs_core.cpp checks none of them).
THEOREM TypeCorrect == Spec => []TypeOK
<1>1. Init => TypeOK
  BY InitTyped
<1>2. TypeOK /\ [Next]_vars => TypeOK'
  BY NextTyped
<1> QED
  BY <1>1, <1>2, PTL DEF Spec

-----------------------------------------------------------------------------
(* Block chains. *)

\* A chain of an entry in use holds blocks in use; each has the block before it
\* as its only predecessor, and no other entry starts in the chain.
Owns(m, used, blk, i, s) ==
  /\ \A k \in 1 .. Len(s) : s[k] \in used
  /\ \A k \in 1 .. Len(s), b \in used : blk[b].next = s[k] => k > 1 /\ b = s[k - 1]
  /\ \A k \in 1 .. Len(s), j \in Live(m) : m[j].start_index = s[k] => j = i /\ k = 1

LEMMA ChainOwned ==
  ASSUME NEW m \in [MetaIndex -> MetaEntry], NEW used \in SUBSET BlockIndex,
         NEW blk \in [BlockIndex -> Block], WellLinked(m, used, blk),
         NEW i \in Live(m), NEW s \in Chains(blk, m[i].start_index)
  PROVE  Owns(m, used, blk, i, s)
<1>1. i \in MetaIndex /\ m[i].start_index \in 0 .. NB
  BY DEF Live, MetaEntry
<1>2. /\ s \in BlockSeq
      /\ m[i].start_index = 0 => s = <<>>
      /\ m[i].start_index # 0 => Len(s) >= 1 /\ s[1] = m[i].start_index
      /\ \A k \in 1 .. Len(s) : k < Len(s) => blk[s[k]].next = s[k + 1]
  BY <1>1, ChainStep
<1>3. /\ Len(s) \in Nat /\ \A k \in 1 .. Len(s) : s[k] \in BlockIndex
      /\ \A k, l \in 1 .. Len(s) : s[k] = s[l] => k = l
  BY <1>2, BlockSeqType
<1>4. \A b \in BlockIndex : b # 0
  BY SizesAssumption DEF BlockIndex
<1>5. Len(s) >= 1 => m[i].start_index # 0 /\ s[1] = m[i].start_index
  BY <1>2, <1>3
<1>6. \A k \in 1 .. Len(s) : k > 1 => k - 1 \in 1 .. Len(s) /\ blk[s[k - 1]].next = s[k]
  BY <1>2, <1>3
<1> DEFINE Bad == {k \in 1 .. Len(s) : s[k] \notin used}
<1>7. Bad = {}
  <2>1. SUFFICES ASSUME Bad # {} PROVE FALSE
    OBVIOUS
  <2>2. Bad \in SUBSET Nat
    BY <1>3
  <2>3. PICK k \in Bad : \A l \in Bad : k <= l
    BY <2>1, <2>2, LeastExists, Zenon
  <2>4. k \in 1 .. Len(s) /\ s[k] \notin used
    BY <2>3
  <2>5. CASE k = 1
    BY <1>5, <2>4, <2>5 DEF WellLinked
  <2>6. CASE k # 1
    <3>1. k > 1 /\ k - 1 \in 1 .. Len(s) /\ blk[s[k - 1]].next = s[k]
      BY <1>3, <1>6, <2>4, <2>6
    <3>2. k - 1 \notin Bad
      BY <1>3, <2>3, <2>4
    <3>3. s[k - 1] \in used /\ s[k] # 0
      BY <1>3, <1>4, <2>4, <3>1, <3>2
    <3> QED
      BY <2>4, <3>1, <3>3 DEF WellLinked
  <2> QED
    BY <2>5, <2>6
<1>8. \A k \in 1 .. Len(s) : s[k] \in used /\ s[k] # 0
  BY <1>3, <1>4, <1>7
<1> HIDE DEF Bad
<1>9. ASSUME NEW k \in 1 .. Len(s), NEW b \in used, blk[b].next = s[k]
      PROVE  k > 1 /\ b = s[k - 1]
  <2>1. k # 1
    <3> SUFFICES ASSUME k = 1 PROVE FALSE
      OBVIOUS
    <3>1. m[i].start_index = blk[b].next /\ blk[b].next # 0
      BY <1>3, <1>5, <1>8, <1>9
    <3> QED
      BY <3>1 DEF WellLinked
  <2>2. k > 1 /\ k - 1 \in 1 .. Len(s) /\ blk[s[k - 1]].next = s[k]
    BY <1>3, <1>6, <2>1
  <2>3. s[k - 1] \in used
    BY <1>8, <2>2
  <2>4. blk[b].next = blk[s[k - 1]].next /\ blk[b].next # 0
    BY <1>8, <1>9, <2>2
  <2>5. b = s[k - 1]
    BY <2>3, <2>4 DEF WellLinked
  <2> QED
    BY <2>2, <2>5
<1>10. ASSUME NEW k \in 1 .. Len(s), NEW j \in Live(m), m[j].start_index = s[k]
       PROVE  j = i /\ k = 1
  <2>1. CASE k = 1
    <3>1. m[j].start_index = m[i].start_index /\ m[i].start_index # 0
      BY <1>3, <1>5, <1>10, <2>1
    <3> QED
      BY <2>1, <3>1 DEF WellLinked
  <2>2. CASE k # 1
    <3>1. k - 1 \in 1 .. Len(s) /\ blk[s[k - 1]].next = s[k]
      <4>1. k > 1
        BY <1>3, <2>2
      <4> QED
        BY <1>6, <4>1
    <3>2. s[k - 1] \in used /\ m[j].start_index = blk[s[k - 1]].next /\ s[k] # 0
      BY <1>8, <1>10, <3>1
    <3> QED
      BY <3>1, <3>2 DEF WellLinked
  <2> QED
    BY <2>1, <2>2
<1> QED
  BY <1>8, <1>9, <1>10 DEF Owns

\* Two chains of well-linked entries are disjoint.
LEMMA ChainsDisjoint ==
  ASSUME NEW m \in [MetaIndex -> MetaEntry], NEW used \in SUBSET BlockIndex,
         NEW blk \in [BlockIndex -> Block], WellLinked(m, used, blk),
         NEW i \in Live(m), NEW s \in Chains(blk, m[i].start_index),
         NEW j \in Live(m), NEW t \in Chains(blk, m[j].start_index), i # j
  PROVE  BlocksOf(s) \cap BlocksOf(t) = {}
<1>1. /\ m[i].start_index \in 0 .. NB /\ m[j].start_index \in 0 .. NB
  BY DEF Live, MetaEntry
<1>2. /\ s \in BlockSeq /\ t \in BlockSeq
      /\ m[i].start_index = 0 => s = <<>>
      /\ m[i].start_index # 0 => Len(s) >= 1 /\ s[1] = m[i].start_index
      /\ \A k \in 1 .. Len(s) : k < Len(s) => blk[s[k]].next = s[k + 1]
  BY <1>1, ChainStep
<1>3. /\ Len(s) \in Nat /\ DOMAIN s = 1 .. Len(s) /\ Len(t) \in Nat /\ DOMAIN t = 1 .. Len(t)
  BY <1>2, BlockSeqType
<1>4. /\ \A k \in 1 .. Len(s) : s[k] \in used
      /\ \A k \in 1 .. Len(t), b \in used : blk[b].next = t[k] => k > 1 /\ b = t[k - 1]
      /\ \A k \in 1 .. Len(t), a \in Live(m) : m[a].start_index = t[k] => a = j /\ k = 1
  <2>1. Owns(m, used, blk, i, s) /\ Owns(m, used, blk, j, t)
    BY ChainOwned, Zenon
  <2> QED
    BY <2>1 DEF Owns
<1> DEFINE Bad == {k \in 1 .. Len(s) : \E l \in 1 .. Len(t) : s[k] = t[l]}
<1>5. Bad = {}
  <2>1. SUFFICES ASSUME Bad # {} PROVE FALSE
    OBVIOUS
  <2>2. Bad \in SUBSET Nat
    BY <1>3
  <2>3. PICK k \in Bad : \A l \in Bad : k <= l
    BY <2>1, <2>2, LeastExists, Zenon
  <2>4. k \in 1 .. Len(s)
    BY <2>3
  <2>5. PICK l \in 1 .. Len(t) : s[k] = t[l]
    BY <2>3
  <2>6. CASE k = 1
    <3>1. m[i].start_index = t[l]
      BY <1>2, <1>3, <2>4, <2>5, <2>6
    <3> QED
      BY <1>4, <3>1
  <2>7. CASE k # 1
    <3>1. k - 1 \in 1 .. Len(s) /\ blk[s[k - 1]].next = t[l] /\ k - 1 < k
      BY <1>2, <1>3, <2>4, <2>5, <2>7
    <3>2. l > 1 /\ s[k - 1] = t[l - 1]
      BY <1>4, <3>1
    <3>3. l - 1 \in 1 .. Len(t)
      BY <1>3, <3>2
    <3>4. k - 1 \in Bad
      BY <3>1, <3>2, <3>3
    <3> QED
      BY <2>3, <2>4, <3>4
  <2> QED
    BY <2>6, <2>7
<1> QED
  BY <1>3, <1>5 DEF BlocksOf

-----------------------------------------------------------------------------
(* Steps that keep a volume well linked. *)

\* blk2 keeps each next pointer of blk or clears it.
Cut(blk, blk2) == \A b \in BlockIndex : blk2[b].next \in {blk[b].next, 0}

\* m2 gives entry j the kind, use and first block m gives it.
SameLinks(m, m2, j) == /\ m2[j].valid = m[j].valid
                       /\ m2[j].type = m[j].type
                       /\ m2[j].start_index = m[j].start_index

LEMMA CutLinked ==
  ASSUME NEW m \in [MetaIndex -> MetaEntry], NEW m2 \in [MetaIndex -> MetaEntry],
         NEW used \in SUBSET BlockIndex,
         NEW blk \in [BlockIndex -> Block], NEW blk2 \in [BlockIndex -> Block],
         WellLinked(m, used, blk), Cut(blk, blk2),
         \A j \in MetaIndex : SameLinks(m, m2, j)
  PROVE  WellLinked(m2, used, blk2) /\ Live(m2) = Live(m)
<1>1. Live(m2) = Live(m)
  BY DEF Live, SameLinks
<1>2. \A i \in Live(m) : i \in MetaIndex
  BY DEF Live
<1>3. \A i \in MetaIndex : m2[i].start_index = m[i].start_index /\ m2[i].type = m[i].type
  BY DEF SameLinks
<1>4. \A b \in used : blk2[b].next \in {blk[b].next, 0}
  BY DEF Cut
<1>5. \A i \in Live(m) : m[i].start_index # 0 => m[i].start_index \in used
  BY DEF WellLinked
<1>6. /\ \A i \in Live(m2) : m2[i].start_index # 0 => m2[i].start_index \in used
      /\ \A i, j \in Live(m2) : m2[i].start_index = m2[j].start_index /\ m2[i].start_index # 0
                                 => i = j
      /\ \A i \in MetaIndex \ Live(m2) : m2[i].start_index = 0
  BY <1>1, <1>2, <1>3 DEF WellLinked
<1>7. /\ \A b \in used : blk2[b].next # 0 => blk2[b].next \in used
      /\ \A b, c \in used : blk2[b].next = blk2[c].next /\ blk2[b].next # 0 => b = c
  BY <1>4 DEF WellLinked
<1>8. \A i \in Live(m2), b \in used : m2[i].start_index = blk2[b].next => blk2[b].next = 0
  BY <1>1, <1>2, <1>3, <1>4 DEF WellLinked
<1>9. \A i \in Live(m2) : m2[i].type = DIR /\ m2[i].start_index # 0
                          => blk2[m2[i].start_index].next = 0
  BY <1>1, <1>2, <1>3, <1>4, <1>5 DEF WellLinked
<1> QED
  BY <1>1, <1>6, <1>7, <1>8, <1>9 DEF WellLinked

\* x is in use and neither an entry nor a block points to it.
Unlinked(m, used, blk, x) == /\ x \in used /\ x # 0
                             /\ \A j \in Live(m) : m[j].start_index # x
                             /\ \A b \in used : blk[b].next # x

\* A new chain of free blocks, not yet linked from anywhere.
LEMMA ChainAdded ==
  ASSUME NEW m \in [MetaIndex -> MetaEntry], NEW used \in SUBSET BlockIndex,
         NEW blk \in [BlockIndex -> Block], NEW blk2 \in [BlockIndex -> Block],
         WellLinked(m, used, blk), NEW new \in BlockSeq,
         \A k \in 1 .. Len(new) : new[k] \notin used /\ blk2[new[k]].next = NextIn(new, k),
         \A b \in used : blk2[b].next = blk[b].next
  PROVE  /\ WellLinked(m, used \cup BlocksOf(new), blk2)
         /\ Len(new) >= 1 => Unlinked(m, used \cup BlocksOf(new), blk2, new[1])
<1>1. /\ Len(new) \in Nat /\ DOMAIN new = 1 .. Len(new)
      /\ \A k \in 1 .. Len(new) : new[k] \in BlockIndex
      /\ \A k, l \in 1 .. Len(new) : new[k] = new[l] => k = l
  BY BlockSeqType
<1>2. \A b \in BlockIndex : b # 0
  BY SizesAssumption DEF BlockIndex
<1>3. \A b \in BlocksOf(new) : \E k \in 1 .. Len(new) : b = new[k]
  BY <1>1 DEF BlocksOf
<1>4. \A b \in BlocksOf(new) :
         /\ b \notin used /\ b # 0
         /\ blk2[b].next # 0 => \E k \in 1 .. Len(new) :
               /\ b = new[k] /\ k + 1 \in 1 .. Len(new) /\ blk2[b].next = new[k + 1]
  BY <1>1, <1>2, <1>3 DEF NextIn
<1>5. \A k \in 1 .. Len(new) : new[k] \in BlocksOf(new)
  BY <1>1 DEF BlocksOf
<1>6. \A b \in BlocksOf(new) : blk2[b].next # 0 => blk2[b].next \in BlocksOf(new)
  BY <1>4, <1>5
<1>7. \A b, c \in BlocksOf(new) : blk2[b].next = blk2[c].next /\ blk2[b].next # 0 => b = c
  <2> SUFFICES ASSUME NEW b \in BlocksOf(new), NEW c \in BlocksOf(new),
                      blk2[b].next = blk2[c].next, blk2[b].next # 0
               PROVE  b = c
    OBVIOUS
  <2>1. PICK k \in 1 .. Len(new) :
          b = new[k] /\ k + 1 \in 1 .. Len(new) /\ blk2[b].next = new[k + 1]
    BY <1>4
  <2>2. PICK l \in 1 .. Len(new) :
          c = new[l] /\ l + 1 \in 1 .. Len(new) /\ blk2[c].next = new[l + 1]
    BY <1>4
  <2>3. k + 1 = l + 1
    BY <1>1, <2>1, <2>2
  <2> QED
    BY <1>1, <2>1, <2>2, <2>3
<1>8. \A b \in used : blk2[b].next # 0 => blk2[b].next \in used /\ blk2[b].next \notin BlocksOf(new)
  BY <1>4 DEF WellLinked
<1>9. \A i \in Live(m) : m[i].start_index # 0
         => m[i].start_index \in used /\ m[i].start_index \notin BlocksOf(new)
  BY <1>4 DEF WellLinked
<1> DEFINE all == used \cup BlocksOf(new)
<1>10. WellLinked(m, all, blk2)
  <2>1. \A i \in Live(m) : m[i].start_index # 0 => m[i].start_index \in all
    BY <1>9
  <2>2. \A b \in all : blk2[b].next # 0 => blk2[b].next \in all
    BY <1>6, <1>8
  <2>3. \A b, c \in all : blk2[b].next = blk2[c].next /\ blk2[b].next # 0 => b = c
    <3>1. \A b, c \in used : blk2[b].next = blk2[c].next /\ blk2[b].next # 0 => b = c
      BY DEF WellLinked
    <3> QED
      BY <1>6, <1>7, <1>8, <3>1
  <2>4. \A i \in Live(m), b \in all : m[i].start_index = blk2[b].next => blk2[b].next = 0
    <3>1. \A i \in Live(m), b \in used : m[i].start_index = blk2[b].next => blk2[b].next = 0
      BY DEF WellLinked
    <3> QED
      BY <1>6, <1>9, <3>1
  <2>5. \A i \in Live(m) : m[i].type = DIR /\ m[i].start_index # 0
                           => blk2[m[i].start_index].next = 0
    BY <1>9 DEF WellLinked
  <2>6. /\ \A i, j \in Live(m) : m[i].start_index = m[j].start_index /\ m[i].start_index # 0
                                 => i = j
        /\ \A i \in MetaIndex \ Live(m) : m[i].start_index = 0
    BY DEF WellLinked
  <2> HIDE DEF all
  <2> QED
    BY <2>1, <2>2, <2>3, <2>4, <2>5, <2>6 DEF WellLinked
<1>11. ASSUME Len(new) >= 1 PROVE Unlinked(m, all, blk2, new[1])
  <2>1. 1 \in 1 .. Len(new)
    BY <1>1, <1>11
  <2>2. new[1] \in BlocksOf(new) /\ new[1] # 0
    BY <1>1, <1>2, <1>5, <2>1
  <2>3. \A b \in BlocksOf(new) : blk2[b].next # new[1]
    <3> SUFFICES ASSUME NEW b \in BlocksOf(new), blk2[b].next = new[1] PROVE FALSE
      OBVIOUS
    <3>1. PICK k \in 1 .. Len(new) : k + 1 \in 1 .. Len(new) /\ new[k + 1] = new[1]
      BY <1>4, <2>2
    <3>2. k + 1 = 1
      BY <1>1, <2>1, <3>1
    <3> QED
      BY <1>1, <3>2
  <2> QED
    BY <1>8, <1>9, <2>2, <2>3 DEF Unlinked
<1> QED
  BY <1>10, <1>11

\* Entry i of m2 is in use; its first block is 0, or a block nothing links to.
StartsAt(m, m2, used, blk, i) ==
  /\ \A j \in MetaIndex \ {i} : SameLinks(m, m2, j)
  /\ m2[i].valid = 0
  /\ m2[i].start_index # 0 => Unlinked(m, used, blk, m2[i].start_index)
  /\ m2[i].type = DIR /\ m2[i].start_index # 0 => blk[m2[i].start_index].next = 0

LEMMA StartLinked ==
  ASSUME NEW m \in [MetaIndex -> MetaEntry], NEW m2 \in [MetaIndex -> MetaEntry],
         NEW used \in SUBSET BlockIndex, NEW blk \in [BlockIndex -> Block],
         WellLinked(m, used, blk), NEW i \in MetaIndex, StartsAt(m, m2, used, blk, i)
  PROVE  WellLinked(m2, used, blk) /\ Live(m2) = Live(m) \cup {i}
<1> USE DEF StartsAt
<1>1. Live(m2) = Live(m) \cup {i}
  BY DEF Live, SameLinks
<1>2. \A j \in Live(m2) : j # i => j \in Live(m) /\ m2[j].start_index = m[j].start_index
                                   /\ m2[j].type = m[j].type
  BY DEF Live, SameLinks
<1>3. \A j \in MetaIndex \ Live(m2) : j \in MetaIndex \ Live(m) /\ m2[j].start_index = m[j].start_index
  BY <1>1 DEF SameLinks
<1> DEFINE x == m2[i].start_index
<1>4. x # 0 => /\ x \in used
               /\ \A j \in Live(m) : m[j].start_index # x
               /\ \A b \in used : blk[b].next # x
  BY DEF Unlinked
<1>5. \A j \in Live(m2) : m2[j].start_index # 0 => m2[j].start_index \in used
  BY <1>2, <1>4 DEF WellLinked
<1>6. \A j, k \in Live(m2) : m2[j].start_index = m2[k].start_index /\ m2[j].start_index # 0
                              => j = k
  BY <1>2, <1>4 DEF WellLinked
<1>7. \A j \in Live(m2), b \in used : m2[j].start_index = blk[b].next => blk[b].next = 0
  BY <1>2, <1>4 DEF WellLinked
<1>8. \A j \in Live(m2) : m2[j].type = DIR /\ m2[j].start_index # 0
                          => blk[m2[j].start_index].next = 0
  BY <1>2 DEF WellLinked
<1>9. \A j \in MetaIndex \ Live(m2) : m2[j].start_index = 0
  BY <1>3 DEF WellLinked
<1>10. /\ \A b \in used : blk[b].next # 0 => blk[b].next \in used
       /\ \A b, c \in used : blk[b].next = blk[c].next /\ blk[b].next # 0 => b = c
  BY DEF WellLinked
<1> QED
  BY <1>1, <1>5, <1>6, <1>7, <1>8, <1>9, <1>10 DEF WellLinked

\* The last block b of a file's chain gets x, a block nothing links to, as next.
LEMMA NextLinked ==
  ASSUME NEW m \in [MetaIndex -> MetaEntry], NEW used \in SUBSET BlockIndex,
         NEW blk \in [BlockIndex -> Block], NEW blk2 \in [BlockIndex -> Block],
         WellLinked(m, used, blk), NEW b \in used, NEW x, Unlinked(m, used, blk, x),
         blk2[b].next = x, \A c \in used : c # b => blk2[c].next = blk[c].next,
         \A j \in Live(m) : m[j].type = DIR => m[j].start_index # b
  PROVE  WellLinked(m, used, blk2)
<1>1. /\ x \in used /\ x # 0
      /\ \A j \in Live(m) : m[j].start_index # x
      /\ \A c \in used : blk[c].next # x
  BY DEF Unlinked
<1>2. \A c \in used : blk2[c].next # 0 => blk2[c].next \in used
  BY <1>1 DEF WellLinked
<1>3. \A c, d \in used : blk2[c].next = blk2[d].next /\ blk2[c].next # 0 => c = d
  BY <1>1 DEF WellLinked
<1>4. \A j \in Live(m), c \in used : m[j].start_index = blk2[c].next => blk2[c].next = 0
  BY <1>1 DEF WellLinked
<1>5. \A j \in Live(m) : m[j].type = DIR /\ m[j].start_index # 0
                         => blk2[m[j].start_index].next = 0
  BY DEF WellLinked
<1>6. /\ \A j \in Live(m) : m[j].start_index # 0 => m[j].start_index \in used
      /\ \A j, k \in Live(m) : m[j].start_index = m[k].start_index /\ m[j].start_index # 0
                               => j = k
      /\ \A j \in MetaIndex \ Live(m) : m[j].start_index = 0
  BY DEF WellLinked
<1> QED
  BY <1>2, <1>3, <1>4, <1>5, <1>6 DEF WellLinked

\* Blocks F are freed: what remains links to none of them.
NoLinkTo(F, m, m2, used, blk2, i) ==
  /\ \A j \in MetaIndex \ {i} : SameLinks(m, m2, j)
  /\ \A j \in Live(m) : j # i => m[j].start_index \notin F
  /\ \A b \in used \ F : blk2[b].next \notin F \/ blk2[b].next = 0
  /\ \/ m2[i].start_index = 0 /\ m2[i].valid \in {0, 1} /\ m2[i].type = m[i].type
     \/ SameLinks(m, m2, i) /\ m[i].start_index \notin F

LEMMA Freed ==
  ASSUME NEW m \in [MetaIndex -> MetaEntry], NEW m2 \in [MetaIndex -> MetaEntry],
         NEW used \in SUBSET BlockIndex,
         NEW blk \in [BlockIndex -> Block], NEW blk2 \in [BlockIndex -> Block],
         WellLinked(m, used, blk), Cut(blk, blk2), NEW i \in Live(m), NEW F,
         NoLinkTo(F, m, m2, used, blk2, i)
  PROVE  /\ WellLinked(m2, used \ F, blk2)
         /\ Live(m2) \cup {i} = Live(m)
<1> USE DEF NoLinkTo
<1>1. i \in MetaIndex /\ m[i].valid = 0
  BY DEF Live
<1>2. \A j \in Live(m2) : /\ j \in Live(m) /\ m2[j].type = m[j].type
                          /\ m2[j].start_index \in {m[j].start_index, 0}
                          /\ m2[j].start_index # 0 => m2[j].start_index \notin F
  BY <1>1 DEF Live, SameLinks
<1>3. \A j \in MetaIndex \ Live(m2) : m2[j].start_index = 0
  BY <1>1 DEF Live, SameLinks, WellLinked
<1>4. Live(m2) \cup {i} = Live(m)
  BY <1>1 DEF Live, SameLinks
<1>5. \A b \in used \ F : b \in used /\ blk2[b].next \in {blk[b].next, 0}
  BY DEF Cut
<1>6. \A j \in Live(m2) : m2[j].start_index # 0 => m2[j].start_index \in used \ F
  BY <1>2 DEF WellLinked
<1>7. \A b \in used \ F : blk2[b].next # 0 => blk2[b].next \in used \ F
  BY <1>5 DEF WellLinked
<1>8. \A j, k \in Live(m2) : m2[j].start_index = m2[k].start_index /\ m2[j].start_index # 0
                             => j = k
  BY <1>2 DEF WellLinked
<1>9. \A b, c \in used \ F : blk2[b].next = blk2[c].next /\ blk2[b].next # 0 => b = c
  BY <1>5 DEF WellLinked
<1>10. \A j \in Live(m2), b \in used \ F : m2[j].start_index = blk2[b].next => blk2[b].next = 0
  BY <1>2, <1>5 DEF WellLinked
<1>11. \A j \in Live(m2) : m2[j].type = DIR /\ m2[j].start_index # 0
                           => blk2[m2[j].start_index].next = 0
  <2> SUFFICES ASSUME NEW j \in Live(m2), m2[j].type = DIR, m2[j].start_index # 0
               PROVE  blk2[m2[j].start_index].next = 0
    OBVIOUS
  <2>1. m2[j].start_index \in used \ F /\ m2[j].start_index = m[j].start_index
    BY <1>2, <1>6
  <2>2. blk[m[j].start_index].next = 0
    BY <1>2, <2>1 DEF WellLinked
  <2> QED
    BY <1>5, <2>1, <2>2
<1> QED
  BY <1>3, <1>4, <1>6, <1>7, <1>8, <1>9, <1>10, <1>11 DEF WellLinked

\* The blocks of s behind the first n.
Behind(s, n) == {s[k] : k \in n + 1 .. Len(s)}

\* Entry i keeps the first n blocks of its chain s.
KeepsHead(m, m2, blk2, i, s, n) ==
  /\ \A j \in MetaIndex \ {i} : SameLinks(m, m2, j)
  /\ n = 0 => m2[i].start_index = 0 /\ m2[i].type = m[i].type
  /\ n # 0 => SameLinks(m, m2, i) /\ blk2[s[n]].next = 0

\* The tail of an entry's chain behind its first n blocks is freed.
LEMMA TailFreed ==
  ASSUME NEW m \in [MetaIndex -> MetaEntry], NEW m2 \in [MetaIndex -> MetaEntry],
         NEW used \in SUBSET BlockIndex,
         NEW blk \in [BlockIndex -> Block], NEW blk2 \in [BlockIndex -> Block],
         WellLinked(m, used, blk), Cut(blk, blk2), NEW i \in Live(m),
         NEW s \in Chains(blk, m[i].start_index), NEW n \in 0 .. Len(s),
         KeepsHead(m, m2, blk2, i, s, n)
  PROVE  /\ WellLinked(m2, used \ Behind(s, n), blk2)
         /\ Live(m2) \cup {i} = Live(m)
<1> USE DEF KeepsHead
<1> DEFINE F == Behind(s, n)
<1>1. Owns(m, used, blk, i, s)
  BY ChainOwned, Zenon
<1>2. i \in MetaIndex /\ m[i].start_index \in 0 .. NB
  BY DEF Live, MetaEntry
<1>3. s \in BlockSeq
  BY DEF Chains
<1>4. /\ Len(s) \in Nat /\ \A k \in 1 .. Len(s) : s[k] \in BlockIndex
      /\ \A k, l \in 1 .. Len(s) : s[k] = s[l] => k = l
  BY <1>3, BlockSeqType
<1>5. \A x \in F : \E k \in 1 .. Len(s) : x = s[k] /\ k > n
  BY <1>4 DEF Behind
<1>6. \A j \in Live(m) : j # i => m[j].start_index \notin F
  BY <1>1, <1>5 DEF Owns
<1>7. \A b \in used \ F : blk2[b].next \notin F \/ blk2[b].next = 0
  <2> SUFFICES ASSUME NEW b \in used, b \notin F, blk2[b].next \in F, blk2[b].next # 0
               PROVE  FALSE
    OBVIOUS
  <2>1. blk2[b].next = blk[b].next
    BY DEF Cut
  <2>2. PICK k \in 1 .. Len(s) : blk[b].next = s[k] /\ k > n
    BY <1>5, <2>1
  <2>3. k > 1 /\ b = s[k - 1]
    BY <1>1, <2>2 DEF Owns
  <2>4. CASE k - 1 > n
    <3>1. k - 1 \in n + 1 .. Len(s)
      BY <1>4, <2>4
    <3> QED
      BY <2>3, <3>1 DEF Behind
  <2>5. CASE ~ (k - 1 > n)
    <3>1. n = k - 1 /\ n # 0
      BY <1>4, <2>2, <2>3, <2>5
    <3> QED
      BY <2>3, <3>1
  <2> QED
    BY <2>4, <2>5
<1>8. n # 0 => m[i].start_index \notin F
  <2> SUFFICES ASSUME n # 0, m[i].start_index \in F PROVE FALSE
    OBVIOUS
  <2>1. PICK k \in 1 .. Len(s) : m[i].start_index = s[k] /\ k > n
    BY <1>5
  <2>2. k = 1
    BY <1>1, <2>1 DEF Owns
  <2> QED
    BY <1>4, <2>1, <2>2
<1>9. n = 0 => m2[i].valid \in {0, 1}
  BY <1>2 DEF MetaEntry
<1> HIDE DEF F
<1>10. WellLinked(m2, used \ F, blk2) /\ Live(m2) \cup {i} = Live(m)
  <2>1. NoLinkTo(F, m, m2, used, blk2, i)
    BY <1>6, <1>7, <1>8, <1>9 DEF NoLinkTo
  <2> QED
    BY <2>1, Freed, Zenon
<1> QED
  BY <1>10 DEF F

\* dir_remove_child clears at most the next pointer of the parent's block.
LEMMA RemoveCuts ==
  ASSUME NEW v \in Vol, NEW p \in MetaIndex, NEW c \in MetaIndex,
         NEW r \in dir_remove_child(v, p, c)
  PROVE  Cut(v.blocks, r.vol.blocks)
<1>1. r.vol \in Vol /\ v.blocks \in [BlockIndex -> Block]
  BY RemoveChild DEF Vol
<1>2. PICK w \in dir_block_read(v, p) :
         RemoveFails(v, p, c, r, w) \/ RemoveUnlists(v, p, c, r, w)
  BY RemoveChild
<1>3. CASE RemoveFails(v, p, c, r, w)
  BY <1>3 DEF Cut, RemoveFails
<1>4. CASE RemoveUnlists(v, p, c, r, w)
  <2>1. EraseFirst(w, c) \in Seq(Word)
    BY <1>4, ReadType, EraseFirstType DEF RemoveUnlists
  <2> QED
    BY <1>1, <1>4, <2>1, WithChildrenType DEF Cut, RemoveUnlists
<1> QED
  BY <1>2, <1>3, <1>4

\* dir_add_child keeps the volume well linked, and the entries' fields but the
\* first block of the parent.
LEMMA AddChildLinked ==
  ASSUME NEW v \in Vol, NEW p \in Live(v.meta), NEW c \in MetaIndex,
         NEW r \in dir_add_child(v, p, c),
         WellLinked(v.meta, v.free_bitmap, v.blocks)
  PROVE  /\ r.vol \in Vol
         /\ WellLinked(r.vol.meta, r.vol.free_bitmap, r.vol.blocks)
         /\ Live(r.vol.meta) = Live(v.meta)
         /\ \A j \in MetaIndex : /\ r.vol.meta[j].type = v.meta[j].type
                                 /\ r.vol.meta[j].parent = v.meta[j].parent
<1>1. p \in MetaIndex
  BY DEF Live
<1>2. /\ r.vol \in Vol
      /\ AddFails(v, p, r) \/ AddLists(v, p, c, r) \/ AddAllocates(v, p, c, r)
  BY <1>1, AddChild
<1>3. /\ v.meta \in [MetaIndex -> MetaEntry] /\ r.vol.meta \in [MetaIndex -> MetaEntry]
      /\ v.blocks \in [BlockIndex -> Block] /\ r.vol.blocks \in [BlockIndex -> Block]
      /\ v.free_bitmap \in SUBSET BlockIndex
  BY <1>2 DEF Vol
<1>4. c \in Word
  BY SizesAssumption DEF Word, MetaIndex
<1>5. CASE AddFails(v, p, r)
  BY <1>2, <1>5 DEF AddFails
<1>6. CASE AddLists(v, p, c, r)
  <2> USE DEF AddLists
  <2>1. PICK w \in dir_block_read(v, p) :
           r.vol.blocks = WithChildren(v.blocks, v.meta[p].start_index, Append(w, c))
    BY <1>6
  <2>2. Append(w, c) \in Seq(Word)
    BY <1>1, <1>4, ReadType
  <2> DEFINE start == v.meta[p].start_index
             list  == Append(w, c)
  <2> HIDE DEF start, list
  <2>3. Cut(v.blocks, r.vol.blocks)
    <3>1. r.vol.blocks = WithChildren(v.blocks, start, list)
      BY <2>1 DEF start, list
    <3>2. start \in BlockIndex /\ list \in Seq(Word)
      BY <1>6, <2>2 DEF start, list
    <3>3. /\ r.vol.blocks[start].next = 0
          /\ \A k \in BlockIndex : k # start => r.vol.blocks[k] = v.blocks[k]
      BY <1>3, <3>1, <3>2, WithChildrenType
    <3> QED
      BY <3>2, <3>3 DEF Cut
  <2>4. \A j \in MetaIndex : SameLinks(v.meta, r.vol.meta, j)
    BY <1>6 DEF SameLinks
  <2>5. WellLinked(r.vol.meta, v.free_bitmap, r.vol.blocks)
    BY <1>3, <2>3, <2>4, CutLinked
  <2> QED
    BY <1>2, <1>6, <2>5
<1>7. CASE AddAllocates(v, p, c, r)
  <2> USE DEF AddAllocates
  <2>1. PICK b \in BlockIndex \ v.free_bitmap :
           /\ r.vol.meta = [v.meta EXCEPT ![p].start_index = b]
           /\ r.vol.free_bitmap = v.free_bitmap \cup {b}
           /\ r.vol.blocks = WithChildren(v.blocks, b, <<c>>)
    BY <1>7
  <2> DEFINE new == <<b>>
  <2>2. <<c>> \in Seq(Word) /\ 1 \in 1 .. 1 /\ NB \in Nat
    BY <1>4, SizesAssumption
  <2>3. r.vol.blocks[b].next = 0 /\ \A k \in v.free_bitmap : r.vol.blocks[k] = v.blocks[k]
    <3> DEFINE list == <<c>>
    <3>1. list \in Seq(Word) /\ b \in BlockIndex
          /\ r.vol.blocks = WithChildren(v.blocks, b, list)
      BY <2>1, <2>2
    <3> HIDE DEF list
    <3>2. /\ r.vol.blocks[b].next = 0
          /\ \A k \in BlockIndex : k # b => r.vol.blocks[k] = v.blocks[k]
      BY <1>3, <3>1, WithChildrenType
    <3> QED
      BY <1>3, <2>1, <3>2
  <2>4. new \in BlockSeq /\ BlocksOf(new) = {b}
    <3>1. 1 \in 0 .. NB /\ new \in [1 .. 1 -> BlockIndex] /\ DOMAIN new = 1 .. 1
      BY <2>2 DEF BlockIndex
    <3> QED
      BY <3>1 DEF BlockSeq, BlocksOf
  <2>5. \A k \in 1 .. Len(new) : new[k] \notin v.free_bitmap
                                 /\ r.vol.blocks[new[k]].next = NextIn(new, k)
    BY <2>3 DEF NextIn
  <2>6. /\ WellLinked(v.meta, v.free_bitmap \cup {b}, r.vol.blocks)
        /\ Unlinked(v.meta, v.free_bitmap \cup {b}, r.vol.blocks, b)
    <3>1. Len(new) >= 1 /\ new[1] = b
      OBVIOUS
    <3> HIDE DEF new
    <3>2. \A k \in v.free_bitmap : r.vol.blocks[k].next = v.blocks[k].next
      BY <2>3
    <3>3. /\ WellLinked(v.meta, v.free_bitmap \cup BlocksOf(new), r.vol.blocks)
          /\ Len(new) >= 1 => Unlinked(v.meta, v.free_bitmap \cup BlocksOf(new),
                                       r.vol.blocks, new[1])
      BY <1>3, <2>4, <2>5, <3>2, ChainAdded, Zenon
    <3> QED
      BY <2>4, <3>1, <3>3
  <2>7. /\ \A j \in MetaIndex \ {p} : SameLinks(v.meta, r.vol.meta, j)
        /\ r.vol.meta[p].valid = 0 /\ r.vol.meta[p].start_index = b
        /\ \A j \in MetaIndex : /\ r.vol.meta[j].type = v.meta[j].type
                                /\ r.vol.meta[j].parent = v.meta[j].parent
    <3>1. v.meta[p] \in MetaEntry /\ v.meta[p].valid = 0
      BY <1>3 DEF Live
    <3>2. /\ r.vol.meta[p] = [v.meta[p] EXCEPT !.start_index = b]
          /\ \A j \in MetaIndex \ {p} : r.vol.meta[j] = v.meta[j]
      BY <1>1, <1>3, <2>1
    <3>3. /\ r.vol.meta[p].valid = 0 /\ r.vol.meta[p].start_index = b
          /\ r.vol.meta[p].type = v.meta[p].type /\ r.vol.meta[p].parent = v.meta[p].parent
      BY <3>1, <3>2, EntryFields
    <3> QED
      BY <3>2, <3>3 DEF SameLinks
  <2>8. /\ WellLinked(r.vol.meta, v.free_bitmap \cup {b}, r.vol.blocks)
        /\ Live(r.vol.meta) = Live(v.meta) \cup {p}
    <3>1. v.free_bitmap \cup {b} \in SUBSET BlockIndex
      BY <1>3, <2>1
    <3>2. WellLinked(v.meta, v.free_bitmap \cup {b}, r.vol.blocks)
      BY <2>6
    <3>3. StartsAt(v.meta, r.vol.meta, v.free_bitmap \cup {b}, r.vol.blocks, p)
      BY <2>3, <2>6, <2>7 DEF StartsAt
    <3> QED
      BY <1>1, <1>3, <3>1, <3>2, <3>3, StartLinked, ZenonT(40)
  <2>9. WellLinked(r.vol.meta, r.vol.free_bitmap, r.vol.blocks)
    BY <2>1, <2>8
  <2> QED
    BY <1>2, <2>7, <2>8, <2>9
<1> QED
  BY <1>2, <1>5, <1>6, <1>7

-----------------------------------------------------------------------------
(* What directories list. *)

Items(m, blk, d)    == blk[m[d].start_index].items
IsDirWithBlock(m, d) == d \in Live(m) /\ m[d].type = DIR /\ m[d].start_index # 0
AllListOwn(m, blk)  == \A d \in Live(m) : ListsOwn(m, blk, d)
Unlisted(m, blk, i) == \A d \in Live(m) : IsDirWithBlock(m, d) =>
                          \A k \in DOMAIN Items(m, blk, d) : Items(m, blk, d)[k] # i

\* A directory reads the words of its only block.
LEMMA DirRead ==
  ASSUME NEW v \in Vol, NEW used, WellLinked(v.meta, used, v.blocks),
         NEW d \in Live(v.meta), v.meta[d].type = DIR, NEW c \in dir_block_read(v, d)
  PROVE  /\ c \in Seq(Word)
         /\ v.meta[d].start_index = 0 => c = <<>>
         /\ v.meta[d].start_index # 0 => c = Items(v.meta, v.blocks, d)
<1>1. d \in MetaIndex
  BY DEF Live
<1>2. v.meta[d].start_index # 0 => v.blocks[v.meta[d].start_index].next = 0
  BY DEF WellLinked
<1> QED
  BY <1>1, <1>2, ReadType DEF Items

\* Entry i, listed nowhere, changes; the others keep kind, use, block and parent.
LEMMA ListsKept ==
  ASSUME NEW m \in [MetaIndex -> MetaEntry], NEW m2 \in [MetaIndex -> MetaEntry],
         NEW blk, NEW blk2, NEW i \in MetaIndex,
         AllListOwn(m, blk), Unlisted(m, blk, i),
         \A j \in MetaIndex \ {i} : SameLinks(m, m2, j) /\ m2[j].parent = m[j].parent,
         IsDirWithBlock(m2, i) => i \in Live(m) /\ SameLinks(m, m2, i),
         \A d \in Live(m) : IsDirWithBlock(m, d) => Items(m, blk2, d) = Items(m, blk, d)
  PROVE  AllListOwn(m2, blk2) /\ Unlisted(m2, blk2, i)
<1>1. \A d \in MetaIndex : IsDirWithBlock(m2, d) =>
         IsDirWithBlock(m, d) /\ Items(m2, blk2, d) = Items(m, blk, d)
  BY DEF IsDirWithBlock, SameLinks, Live, Items
<1>2. \A d \in MetaIndex : IsDirWithBlock(m, d) => d \in Live(m) /\ ListsOwn(m, blk, d)
  BY DEF IsDirWithBlock, AllListOwn
<1>3. \A d \in MetaIndex : IsDirWithBlock(m, d) =>
         \A k \in DOMAIN Items(m, blk, d) :
            /\ Items(m, blk, d)[k] \in Live(m) /\ Items(m, blk, d)[k] # i
            /\ m[Items(m, blk, d)[k]].parent = d
            /\ \A l \in DOMAIN Items(m, blk, d) : Items(m, blk, d)[l] = Items(m, blk, d)[k] => l = k
  <2>1. \A d \in MetaIndex : IsDirWithBlock(m, d) =>
           \A k \in DOMAIN Items(m, blk, d) : Items(m, blk, d)[k] # i
    BY <1>2 DEF Unlisted
  <2>2. \A d \in MetaIndex : IsDirWithBlock(m, d) =>
           \A k \in DOMAIN Items(m, blk, d) :
              /\ Items(m, blk, d)[k] \in Live(m) /\ m[Items(m, blk, d)[k]].parent = d
              /\ \A l \in DOMAIN Items(m, blk, d) :
                    Items(m, blk, d)[l] = Items(m, blk, d)[k] => l = k
    BY <1>2 DEF IsDirWithBlock, ListsOwn, Items
  <2> QED
    BY <2>1, <2>2
<1>4. \A c \in Live(m) : c # i => c \in Live(m2) /\ m2[c].parent = m[c].parent
  BY DEF Live, SameLinks
<1>5. \A d \in MetaIndex : IsDirWithBlock(m2, d) =>
         \A k \in DOMAIN Items(m2, blk2, d) :
            /\ Items(m2, blk2, d)[k] \in Live(m2) /\ Items(m2, blk2, d)[k] # i
            /\ m2[Items(m2, blk2, d)[k]].parent = d
            /\ \A l \in DOMAIN Items(m2, blk2, d) :
                  Items(m2, blk2, d)[l] = Items(m2, blk2, d)[k] => l = k
  BY <1>1, <1>3, <1>4
<1>6. AllListOwn(m2, blk2)
  BY <1>5 DEF AllListOwn, ListsOwn, IsDirWithBlock, Items, Live
<1>7. Unlisted(m2, blk2, i)
  BY <1>5 DEF Unlisted, Live
<1> QED
  BY <1>6, <1>7

\* No entry changes use, kind, or parent and no directory its words.
LEMMA ListsSame ==
  ASSUME NEW m \in [MetaIndex -> MetaEntry], NEW m2 \in [MetaIndex -> MetaEntry],
         NEW blk, NEW blk2, AllListOwn(m, blk),
         \A j \in MetaIndex : /\ m2[j].valid = m[j].valid /\ m2[j].type = m[j].type
                              /\ m2[j].parent = m[j].parent
                              /\ m[j].type = DIR => m2[j].start_index = m[j].start_index,
         \A d \in Live(m) : IsDirWithBlock(m, d) => Items(m, blk2, d) = Items(m, blk, d)
  PROVE  AllListOwn(m2, blk2)
<1>1. \A d \in MetaIndex : IsDirWithBlock(m2, d) =>
         IsDirWithBlock(m, d) /\ Items(m2, blk2, d) = Items(m, blk, d)
  BY DEF IsDirWithBlock, Live, Items
<1>2. \A d \in MetaIndex : IsDirWithBlock(m, d) =>
         \A k \in DOMAIN Items(m, blk, d) :
            /\ Items(m, blk, d)[k] \in Live(m)
            /\ m[Items(m, blk, d)[k]].parent = d
            /\ \A l \in DOMAIN Items(m, blk, d) : Items(m, blk, d)[l] = Items(m, blk, d)[k] => l = k
  BY DEF IsDirWithBlock, AllListOwn, ListsOwn, Items
<1>3. Live(m2) = Live(m) /\ \A c \in Live(m) : m2[c].parent = m[c].parent
  BY DEF Live
<1>4. \A d \in MetaIndex : IsDirWithBlock(m2, d) =>
         \A k \in DOMAIN Items(m2, blk2, d) :
            /\ Items(m2, blk2, d)[k] \in Live(m2)
            /\ m2[Items(m2, blk2, d)[k]].parent = d
            /\ \A l \in DOMAIN Items(m2, blk2, d) :
                  Items(m2, blk2, d)[l] = Items(m2, blk2, d)[k] => l = k
  BY <1>1, <1>2, <1>3
<1> QED
  BY <1>4 DEF AllListOwn, ListsOwn, IsDirWithBlock, Items, Live

\* dir_remove_child leaves the child listed nowhere, whether it found it or not.
LEMMA RemoveChildLists ==
  ASSUME NEW v \in Vol, NEW used, WellLinked(v.meta, used, v.blocks),
         AllListOwn(v.meta, v.blocks), NEW i \in MetaIndex, v.meta[i].parent \in MetaIndex,
         NEW r \in dir_remove_child(v, v.meta[i].parent, i)
  PROVE  AllListOwn(v.meta, r.vol.blocks) /\ Unlisted(v.meta, r.vol.blocks, i)
<1> DEFINE m == v.meta
           p == m[i].parent
           start == m[p].start_index
<1>1. /\ m \in [MetaIndex -> MetaEntry]
      /\ v.blocks \in [BlockIndex -> Block]
  BY DEF Vol
<1>2. PICK w \in dir_block_read(v, p) : RemoveFails(v, p, i, r, w) \/ RemoveUnlists(v, p, i, r, w)
  BY RemoveChild
<1>3. IsDirWithBlock(m, p) => w = Items(m, v.blocks, p) /\ w \in Seq(Word)
  BY <1>2, DirRead DEF IsDirWithBlock
<1>4. \A d \in Live(m) : IsDirWithBlock(m, d) =>
         \A k \in DOMAIN Items(m, v.blocks, d) :
            /\ Items(m, v.blocks, d)[k] \in Live(m)
            /\ m[Items(m, v.blocks, d)[k]].parent = d
            /\ \A l \in DOMAIN Items(m, v.blocks, d) :
                  Items(m, v.blocks, d)[l] = Items(m, v.blocks, d)[k] => l = k
  BY DEF IsDirWithBlock, AllListOwn, ListsOwn, Items
<1> HIDE DEF m, p
<1>5. CASE RemoveFails(v, p, i, r, w)
  <2>1. r.vol.blocks = v.blocks
    BY <1>5 DEF RemoveFails
  <2>2. \A d \in Live(m) : IsDirWithBlock(m, d) /\ d # p =>
           \A k \in DOMAIN Items(m, v.blocks, d) : Items(m, v.blocks, d)[k] # i
    BY <1>4 DEF p
  <2>3. IsDirWithBlock(m, p) =>
           \A k \in DOMAIN Items(m, v.blocks, p) : Items(m, v.blocks, p)[k] # i
    BY <1>3, <1>5 DEF RemoveFails
  <2>4. Unlisted(m, v.blocks, i)
    BY <2>2, <2>3 DEF Unlisted
  <2> QED
    BY <2>1, <2>4 DEF m
<1>6. CASE RemoveUnlists(v, p, i, r, w)
  <2> DEFINE left == EraseFirst(w, i)
  <2>1. w \in Seq(Word) /\ p \in MetaIndex /\ start \in BlockIndex /\ start # 0
        /\ \E k \in 1 .. Len(w) : w[k] = i
    BY <1>2, <1>6, ReadType, SizesAssumption DEF RemoveUnlists, m, p, BlockIndex
  <2>2. p \in Live(m)
    BY <2>1 DEF WellLinked, m
  <2>3. /\ left \in Seq(Word) /\ Len(left) = Len(w) - 1
        /\ \E k \in 1 .. Len(w) :
              /\ w[k] = i
              /\ \A l \in 1 .. Len(w) - 1 : left[l] = IF l < k THEN w[l] ELSE w[l + 1]
    BY <2>1, EraseFirstType
  <2> DEFINE blk2 == r.vol.blocks
             new == blk2[start].items
  <2>4. blk2 = WithChildren(v.blocks, start, left)
    BY <1>6 DEF RemoveUnlists, m
  <2> HIDE DEF left, start
  <2>5. /\ blk2 \in [BlockIndex -> Block]
        /\ \A b \in BlockIndex : b # start => blk2[b] = v.blocks[b]
        /\ Len(new) <= Len(left)
        /\ \A k \in 1 .. Len(new) : new[k] = left[k]
    <3> HIDE DEF blk2
    <3>1. \A k \in 1 .. Len(left) : left[k] \in Word
      BY <2>3
    <3>2. blk2 \in [BlockIndex -> Block] /\ \A b \in BlockIndex : b # start => blk2[b] = v.blocks[b]
      BY <1>1, <2>1, <2>3, <2>4, WithChildrenType
    <3>3. Len(new) <= Len(left) /\ \A k \in 1 .. Len(new) : new[k] = left[k]
      BY <1>1, <2>1, <2>3, <2>4, WithChildrenType
    <3> QED
      BY <3>2, <3>3
  <2>6. new \in Seq(Word)
    BY <2>1, <2>5 DEF Block
  <2> HIDE DEF blk2
  <2>7. DOMAIN new = 1 .. Len(new) /\ Len(new) \in Nat /\ DOMAIN w = 1 .. Len(w) /\ Len(w) \in Nat
    BY <2>1, <2>6
  <2>8. ASSUME IsDirWithBlock(m, p)
        PROVE  \A k \in DOMAIN new :
                  /\ new[k] \in Live(m) /\ new[k] # i /\ m[new[k]].parent = p
                  /\ \A l \in DOMAIN new : new[l] = new[k] => l = k
    <3>1. \A k \in 1 .. Len(w) :
             /\ w[k] \in Live(m) /\ m[w[k]].parent = p
             /\ \A l \in 1 .. Len(w) : w[l] = w[k] => l = k
      BY <1>3, <1>4, <2>2, <2>7, <2>8
    <3>2. PICK e \in 1 .. Len(w) :
              /\ w[e] = i
              /\ \A l \in 1 .. Len(w) - 1 : left[l] = IF l < e THEN w[l] ELSE w[l + 1]
      BY <2>3
    <3> DEFINE at(k) == IF k < e THEN k ELSE k + 1
    <3>3. \A k \in 1 .. Len(new) : at(k) \in 1 .. Len(w) /\ at(k) # e /\ new[k] = w[at(k)]
      BY <2>3, <2>5, <2>7, <3>2
    <3>4. \A k, l \in 1 .. Len(new) : at(k) = at(l) => k = l
      BY <2>7
    <3> SUFFICES ASSUME NEW k \in 1 .. Len(new)
                 PROVE  /\ new[k] \in Live(m) /\ new[k] # i /\ m[new[k]].parent = p
                        /\ \A l \in 1 .. Len(new) : new[l] = new[k] => l = k
      BY <2>7
    <3>5. at(k) \in 1 .. Len(w) /\ at(k) # e /\ new[k] = w[at(k)]
      BY <3>3
    <3>6. new[k] \in Live(m) /\ new[k] # i /\ m[new[k]].parent = p
      BY <3>1, <3>2, <3>5
    <3>7. ASSUME NEW l \in 1 .. Len(new), new[l] = new[k] PROVE l = k
      <4>1. at(l) \in 1 .. Len(w) /\ new[l] = w[at(l)]
        BY <3>3
      <4>2. at(l) = at(k)
        BY <3>1, <3>5, <3>7, <4>1
      <4> QED
        BY <3>4, <4>2
    <3> QED
      BY <3>6, <3>7
  <2>9. \A d \in Live(m) : IsDirWithBlock(m, d) /\ d # p =>
           Items(m, blk2, d) = Items(m, v.blocks, d)
    <3>1. \A d \in Live(m) : IsDirWithBlock(m, d) =>
             m[d].start_index \in BlockIndex
      <4>1. \A d \in MetaIndex : m[d].start_index \in 0 .. NB
        BY <1>1 DEF MetaEntry
      <4>2. \A n \in 0 .. NB : n # 0 => n \in BlockIndex
        BY SizesAssumption DEF BlockIndex
      <4> QED
        BY <4>1, <4>2 DEF IsDirWithBlock, Live
    <3>2. \A d \in Live(m) : IsDirWithBlock(m, d) /\ d # p => m[d].start_index # start
      BY <2>2 DEF IsDirWithBlock, WellLinked, m, start
    <3> QED
      BY <2>5, <3>1, <3>2 DEF Items
  <2>10. Items(m, blk2, p) = new
    BY DEF Items, start
  <2> HIDE DEF new
  <2>11. \A d \in Live(m) : IsDirWithBlock(m, d) =>
           \A k \in DOMAIN Items(m, blk2, d) :
              /\ Items(m, blk2, d)[k] \in Live(m) /\ Items(m, blk2, d)[k] # i
              /\ m[Items(m, blk2, d)[k]].parent = d
              /\ \A l \in DOMAIN Items(m, blk2, d) :
                    Items(m, blk2, d)[l] = Items(m, blk2, d)[k] => l = k
    <3> TAKE d \in Live(m)
    <3>1. CASE d = p
      BY <2>8, <2>10, <3>1
    <3>2. CASE d # p /\ IsDirWithBlock(m, d)
      <4>1. Items(m, blk2, d) = Items(m, v.blocks, d)
        BY <2>9, <3>2
      <4> QED
        BY <1>4, <3>2, <4>1 DEF p
    <3> QED
      BY <3>1, <3>2
  <2> QED
    BY <2>11 DEF AllListOwn, Unlisted, ListsOwn, IsDirWithBlock, Items, blk2, m
<1> QED
  BY <1>2, <1>5, <1>6

\* dir_add_child lists a child that was listed nowhere in its own parent.
LEMMA AddChildLists ==
  ASSUME NEW v \in Vol, WellLinked(v.meta, v.free_bitmap, v.blocks),
         AllListOwn(v.meta, v.blocks),
         NEW c \in Live(v.meta), Unlisted(v.meta, v.blocks, c),
         v.meta[c].parent \in Live(v.meta),
         NEW r \in dir_add_child(v, v.meta[c].parent, c)
  PROVE  AllListOwn(r.vol.meta, r.vol.blocks)
<1> DEFINE m == v.meta
           p == m[c].parent
           m2 == r.vol.meta
           blk2 == r.vol.blocks
<1>1. /\ m \in [MetaIndex -> MetaEntry]
      /\ v.blocks \in [BlockIndex -> Block]
      /\ p \in MetaIndex /\ c \in MetaIndex
  BY DEF Vol, Live
<1>2. /\ r.vol \in Vol
      /\ AddFails(v, p, r) \/ AddLists(v, p, c, r) \/ AddAllocates(v, p, c, r)
  BY <1>1, AddChild
<1>3. /\ Live(m2) = Live(m)
      /\ \A j \in MetaIndex : m2[j].type = m[j].type /\ m2[j].parent = m[j].parent
  BY <1>1, AddChildLinked
<1>4. \A d \in Live(m) : IsDirWithBlock(m, d) =>
         \A k \in DOMAIN Items(m, v.blocks, d) :
            /\ Items(m, v.blocks, d)[k] \in Live(m)
            /\ m[Items(m, v.blocks, d)[k]].parent = d
            /\ \A l \in DOMAIN Items(m, v.blocks, d) :
                  Items(m, v.blocks, d)[l] = Items(m, v.blocks, d)[k] => l = k
  BY DEF IsDirWithBlock, AllListOwn, ListsOwn, Items
<1>5. \A d \in Live(m) : IsDirWithBlock(m, d) =>
         \A k \in DOMAIN Items(m, v.blocks, d) : Items(m, v.blocks, d)[k] # c
  BY DEF Unlisted
<1>6. c \in Word
  BY <1>1, SizesAssumption DEF Word, MetaIndex
<1>7. /\ \A d \in MetaIndex : m[d].start_index \in 0 .. NB
      /\ \A n \in 0 .. NB : n # 0 => n \in BlockIndex
  <2>1. \A d \in MetaIndex : m[d].start_index \in 0 .. NB
    BY <1>1 DEF MetaEntry
  <2>2. \A n \in 0 .. NB : n # 0 => n \in BlockIndex
    BY SizesAssumption DEF BlockIndex
  <2> QED
    BY <2>1, <2>2
\* It is enough to look at one directory of the volume that results.
<1> DEFINE Good(d) == \A k \in DOMAIN Items(m2, blk2, d) :
                         /\ Items(m2, blk2, d)[k] \in Live(m)
                         /\ m[Items(m2, blk2, d)[k]].parent = d
                         /\ \A l \in DOMAIN Items(m2, blk2, d) :
                               Items(m2, blk2, d)[l] = Items(m2, blk2, d)[k] => l = k
<1>8. ASSUME \A d \in Live(m) : IsDirWithBlock(m2, d) => Good(d)
      PROVE  AllListOwn(m2, blk2)
  <2>1. \A d \in Live(m) : IsDirWithBlock(m2, d) => ListsOwn(m2, blk2, d)
    <3> TAKE d \in Live(m)
    <3> HAVE IsDirWithBlock(m2, d)
    <3> DEFINE items == Items(m2, blk2, d)
    <3>1. \A k \in DOMAIN items : /\ items[k] \in Live(m) /\ m[items[k]].parent = d
                                 /\ \A l \in DOMAIN items : items[l] = items[k] => l = k
      BY <1>8
    <3> HIDE DEF items
    <3>2. \A k \in DOMAIN items : items[k] \in Live(m2) /\ m2[items[k]].parent = d
      BY <1>3, <3>1 DEF Live
    <3>3. \A k \in DOMAIN items : /\ items[k] \in Live(m2) /\ m2[items[k]].parent = d
                                 /\ \A l \in DOMAIN items : items[l] = items[k] => l = k
      BY <3>1, <3>2
    <3> QED
      BY <3>3, Zenon DEF ListsOwn, Items, items
  <2> QED
    BY <1>3, <2>1 DEF AllListOwn, IsDirWithBlock, ListsOwn
<1> HIDE DEF m, p
<1>9. CASE AddFails(v, p, r)
  BY <1>9 DEF AddFails, m
<1>10. CASE AddLists(v, p, c, r)
  <2> DEFINE start == m[p].start_index
             new == blk2[start].items
  <2>1. PICK w \in dir_block_read(v, p) : blk2 = WithChildren(v.blocks, start, Append(w, c))
    BY <1>10 DEF AddLists, m
  <2>2. m2 = m /\ start \in BlockIndex /\ start # 0
    BY <1>10, SizesAssumption DEF AddLists, m, BlockIndex
  <2>3. IsDirWithBlock(m, p) => w = Items(m, v.blocks, p)
    BY DirRead DEF IsDirWithBlock, m
  <2>4. w \in Seq(Word)
    BY <1>1, ReadType DEF m
  <2> DEFINE list == Append(w, c)
  <2>5. /\ list \in Seq(Word) /\ Len(list) = Len(w) + 1 /\ Len(w) \in Nat /\ DOMAIN w = 1 .. Len(w)
        /\ list[Len(w) + 1] = c
        /\ \A k \in 1 .. Len(w) : list[k] = w[k]
    BY <1>6, <2>4
  <2> HIDE DEF list, start
  <2>6. /\ blk2 \in [BlockIndex -> Block]
        /\ \A b \in BlockIndex : b # start => blk2[b] = v.blocks[b]
        /\ Len(new) <= Len(list)
        /\ \A k \in 1 .. Len(new) : new[k] = list[k]
    <3>1. blk2 = WithChildren(v.blocks, start, list)
      BY <2>1 DEF list
    <3> HIDE DEF blk2
    <3> QED
      BY <1>1, <2>2, <2>5, <3>1, WithChildrenType
  <2>7. new \in Seq(Word)
    BY <2>2, <2>6 DEF Block
  <2>8. DOMAIN new = 1 .. Len(new) /\ Len(new) \in Nat
    BY <2>7
  <2>9. Items(m2, blk2, p) = new
    BY <2>2 DEF Items, start
  <2> HIDE DEF blk2, m2, new
  <2>10. ASSUME IsDirWithBlock(m2, p) PROVE Good(p)
    <3>1. \A k \in 1 .. Len(w) :
             /\ w[k] \in Live(m) /\ m[w[k]].parent = p /\ w[k] # c
             /\ \A l \in 1 .. Len(w) : w[l] = w[k] => l = k
      BY <1>4, <1>5, <2>2, <2>3, <2>5, <2>10 DEF m, p
    <3>2. c \in Live(m) /\ m[c].parent = p
      BY DEF m, p
    <3>3. \A k \in 1 .. Len(new) : k \in 1 .. Len(w) \/ k = Len(w) + 1
      BY <2>5, <2>6, <2>8
    <3>4. \A k \in 1 .. Len(new) : new[k] \in Live(m) /\ m[new[k]].parent = p
      BY <2>5, <2>6, <3>1, <3>2, <3>3
    <3>5. \A k, l \in 1 .. Len(new) : new[l] = new[k] => l = k
      BY <2>5, <2>6, <3>1, <3>3
    <3> QED
      BY <2>8, <2>9, <3>4, <3>5
  <2>11. ASSUME NEW d \in Live(m), d # p, IsDirWithBlock(m2, d) PROVE Good(d)
    <3>1. IsDirWithBlock(m, d)
      BY <2>2, <2>11
    <3>2. m[d].start_index \in BlockIndex
      BY <1>7, <3>1 DEF IsDirWithBlock, Live
    <3>3. m[d].start_index # start
      BY <2>11, <3>1 DEF IsDirWithBlock, WellLinked, m, start, p
    <3>4. Items(m2, blk2, d) = Items(m, v.blocks, d)
      BY <2>2, <2>6, <3>2, <3>3 DEF Items
    <3> QED
      BY <1>4, <3>1, <3>4
  <2> QED
    BY <1>8, <2>10, <2>11 DEF m2, blk2
<1>11. CASE AddAllocates(v, p, c, r)
  <2>1. PICK b \in BlockIndex \ v.free_bitmap :
           m2 = [m EXCEPT ![p].start_index = b] /\ blk2 = WithChildren(v.blocks, b, <<c>>)
    BY <1>11 DEF AddAllocates, m
  <2> DEFINE new == blk2[b].items
             list == <<c>>
  <2>2. list \in Seq(Word) /\ Len(list) = 1 /\ list[1] = c
    BY <1>6
  <2> HIDE DEF list
  <2>3. /\ blk2 \in [BlockIndex -> Block]
        /\ \A k \in BlockIndex : k # b => blk2[k] = v.blocks[k]
        /\ Len(new) <= Len(list)
        /\ \A k \in 1 .. Len(new) : new[k] = list[k]
    <3>1. blk2 = WithChildren(v.blocks, b, list)
      BY <2>1 DEF list
    <3>2. b \in BlockIndex /\ v.blocks \in [BlockIndex -> Block] /\ list \in Seq(Word)
      BY <1>1, <2>2
    <3> HIDE DEF blk2
    <3>3. /\ blk2 \in [BlockIndex -> Block]
          /\ \A k \in BlockIndex : k # b => blk2[k] = v.blocks[k]
      BY <3>1, <3>2, WithChildrenType
    <3>4. /\ Len(blk2[b].items) <= Len(list)
          /\ \A k \in 1 .. Len(blk2[b].items) : blk2[b].items[k] = list[k]
      BY <3>1, <3>2, WithChildrenType
    <3> QED
      BY <3>3, <3>4
  <2>4. new \in Seq(Word)
    BY <2>3 DEF Block
  <2>5. DOMAIN new = 1 .. Len(new) /\ Len(new) \in Nat
    BY <2>4
  <2>6. \A k \in 1 .. Len(new) : k = 1 /\ new[k] = c
    BY <2>2, <2>3, <2>5
  <2>7. m2[p].start_index = b /\ \A d \in MetaIndex \ {p} : m2[d] = m[d]
    <3> HIDE DEF m2, new, blk2, list, Good
    <3>1. m[p] \in MetaEntry
      BY <1>1
    <3>2. /\ m2[p] = [m[p] EXCEPT !.start_index = b]
          /\ \A d \in MetaIndex \ {p} : m2[d] = m[d]
      BY <1>1, <2>1
    <3> QED
      BY <3>1, <3>2, EntryFields
  <2>8. Items(m2, blk2, p) = new
    BY <2>7 DEF Items
  <2> HIDE DEF blk2, m2, new
  <2>9. Good(p)
    <3>1. c \in Live(m) /\ m[c].parent = p
      BY DEF m, p
    <3> QED
      BY <2>5, <2>6, <2>8, <3>1
  <2>10. ASSUME NEW d \in Live(m), d # p, IsDirWithBlock(m2, d) PROVE Good(d)
    <3>1. d \in MetaIndex /\ m2[d] = m[d]
      BY <2>7, <2>10 DEF Live
    <3>2. IsDirWithBlock(m, d)
      BY <2>10, <3>1 DEF IsDirWithBlock
    <3>3. m[d].start_index \in BlockIndex
      BY <1>7, <3>1, <3>2 DEF IsDirWithBlock
    <3>4. m[d].start_index \in v.free_bitmap
      BY <3>2 DEF IsDirWithBlock, WellLinked, m
    <3>5. Items(m2, blk2, d) = Items(m, v.blocks, d)
      BY <2>1, <2>3, <3>1, <3>3, <3>4 DEF Items
    <3> QED
      BY <1>4, <3>2, <3>5
  <2> QED
    BY <1>8, <2>9, <2>10 DEF m2, blk2
<1> QED
  BY <1>2, <1>9, <1>10, <1>11

-----------------------------------------------------------------------------
(* The invariant.  One lemma per kind of call. *)

Structure == WellLinked(meta, free_bitmap, blocks) /\ AllListOwn(meta, blocks)
Index     == IndexedEntriesLive /\ RootAlive

LEMMA InvParts == Inv <=> TypeOK /\ Structure /\ Index
  BY DEF Inv, Structure, Index, AllListOwn

\* A rebuilt index leads to entries in use, to each by one path, and to the root.
LEMMA IndexRebuilt ==
  ASSUME TypeOK', path_index' = rebuild_path_index(meta'),
         meta[Root].valid = 0, meta[Root].type = DIR, meta[Root].parent = 0,
         /\ meta'[Root].valid = meta[Root].valid /\ meta'[Root].type = meta[Root].type
         /\ meta'[Root].parent = meta[Root].parent
  PROVE  Index'
<1>1. meta' \in [MetaIndex -> MetaEntry]
  BY DEF TypeOK
<1>2. /\ \A q \in DOMAIN path_index' : /\ path_index'[q] \in Live(meta')
                                       /\ build_full_path_from_meta(meta', path_index'[q]) = q
      /\ Root \in Live(meta') => RootPath \in DOMAIN path_index' /\ path_index'[RootPath] = Root
  BY <1>1, Rebuild
<1>3. Root \in Live(meta')
  BY SizesAssumption DEF Live, Root, MetaIndex
<1>4. IndexedEntriesLive'
  BY <1>2 DEF IndexedEntriesLive
<1> QED
  BY <1>2, <1>3, <1>4 DEF Index, RootAlive, IsDir

\* A directory's block is in use, so what is written to free blocks is not in it.
LEMMA DirItemsKept ==
  ASSUME NEW m, NEW used, NEW blk, NEW blk2, WellLinked(m, used, blk),
         \A b \in used : blk2[b].items = blk[b].items
  PROVE  \A d \in Live(m) : IsDirWithBlock(m, d) => Items(m, blk2, d) = Items(m, blk, d)
  BY DEF WellLinked, IsDirWithBlock, Items

\* A free slot is listed nowhere.
LEMMA FreeUnlisted ==
  ASSUME NEW m \in [MetaIndex -> MetaEntry], NEW blk, AllListOwn(m, blk), NEW i, i \notin Live(m)
  PROVE  Unlisted(m, blk, i)
  BY DEF AllListOwn, ListsOwn, Unlisted, IsDirWithBlock, Items

\* The facts about MayCreate both kinds of creation use.
LEMMA CreatePlace ==
  ASSUME Inv, NEW p \in ClientPath, MayCreate(p), NEW i \in find_free_meta_index(meta)
  PROVE  /\ path_index[ParentPath(p)] \in Live(meta)
         /\ i \in MetaIndex /\ i \notin Live(meta) /\ i # Root /\ Root \in Live(meta)
         /\ Unlisted(meta, blocks, i)
<1>1. path_index[ParentPath(p)] \in Live(meta)
  BY DEF Inv, IndexedEntriesLive, MayCreate
<1>2. i \in MetaIndex /\ i \notin Live(meta)
  BY DEF find_free_meta_index, Lowest, Live
<1>3. Root \in Live(meta)
  BY SizesAssumption DEF Inv, RootAlive, IsDir, Live, Root, MetaIndex
<1>4. Unlisted(meta, blocks, i)
  BY <1>2, FreeUnlisted, InvParts DEF Structure, TypeOK
<1> QED
  BY <1>1, <1>2, <1>3, <1>4

\* A new entry of a free slot, with a chain of free blocks, none of them a
\* directory's: the volume file_create and dir_create hand to dir_add_child.
LEMMA EntryAdded ==
  ASSUME Inv, NEW i \in MetaIndex, i \notin Live(meta), NEW e \in MetaEntry,
         e.valid = 0, e.type = DIR => e.start_index = 0,
         NEW s \in BlockSeq, e.start_index = FirstOf(s),
         NEW blk2 \in [BlockIndex -> Block],
         \A k \in 1 .. Len(s) : s[k] \notin free_bitmap /\ blk2[s[k]].next = NextIn(s, k),
         \A b \in free_bitmap : blk2[b] = blocks[b]
  PROVE  LET m2 == [meta EXCEPT ![i] = e]
         IN  /\ WellLinked(m2, free_bitmap \cup BlocksOf(s), blk2)
             /\ AllListOwn(m2, blk2) /\ Unlisted(m2, blk2, i)
             /\ Live(m2) = Live(meta) \cup {i}
<1> DEFINE m2 == [meta EXCEPT ![i] = e]
           used2 == free_bitmap \cup BlocksOf(s)
<1>1. /\ meta \in [MetaIndex -> MetaEntry] /\ free_bitmap \in SUBSET BlockIndex
      /\ blocks \in [BlockIndex -> Block]
      /\ WellLinked(meta, free_bitmap, blocks) /\ AllListOwn(meta, blocks)
  BY InvParts DEF TypeOK, Structure
<1>2. m2 \in [MetaIndex -> MetaEntry] /\ m2[i] = e
      /\ \A j \in MetaIndex \ {i} : m2[j] = meta[j]
  BY <1>1
<1>3. used2 \in SUBSET BlockIndex
  BY <1>1, BlockSeqType DEF BlocksOf
<1>4. \A b \in free_bitmap : blk2[b].next = blocks[b].next /\ blk2[b].items = blocks[b].items
  OBVIOUS
<1>5. /\ WellLinked(meta, used2, blk2)
      /\ Len(s) >= 1 => Unlinked(meta, used2, blk2, s[1])
  BY <1>1, <1>4, ChainAdded
<1>6. e.start_index # 0 => Len(s) >= 1 /\ e.start_index = s[1]
  BY BlockSeqType DEF FirstOf
<1>7. StartsAt(meta, m2, used2, blk2, i)
  BY <1>2, <1>5, <1>6 DEF StartsAt, SameLinks
<1> HIDE DEF m2, used2
<1>8. WellLinked(m2, used2, blk2) /\ Live(m2) = Live(meta) \cup {i}
  BY <1>1, <1>2, <1>3, <1>5, <1>7, StartLinked
<1>9. Unlisted(meta, blocks, i)
  BY <1>1, FreeUnlisted
<1>10. /\ \A j \in MetaIndex \ {i} : SameLinks(meta, m2, j) /\ m2[j].parent = meta[j].parent
       /\ ~IsDirWithBlock(m2, i)
  BY <1>2 DEF SameLinks, IsDirWithBlock
<1>11. \A d \in Live(meta) : IsDirWithBlock(meta, d) => Items(meta, blk2, d) = Items(meta, blocks, d)
  BY <1>1, <1>4, DirItemsKept
<1>12. AllListOwn(m2, blk2) /\ Unlisted(m2, blk2, i)
  BY <1>1, <1>2, <1>9, <1>10, <1>11, ListsKept
<1> QED
  BY <1>8, <1>12 DEF m2, used2

\* The index with path p leading to entry i.
Inserted(p, i) == [q \in DOMAIN path_index \cup {p} |-> IF q = p THEN i ELSE path_index[q]]

\* What file_create hands to dir_add_child: the volume v, in which entry i is
\* new and has the chain s of blocks that were free.
Creates(p, size, i, s, v) ==
  LET e == NewEntry(FILE, p, FirstOf(s), size)
  IN  /\ MayCreate(p) /\ path_index[ParentPath(p)] \in Live(meta)
      /\ i \notin Live(meta) /\ i # Root /\ Root \in Live(meta)
      /\ e \in MetaEntry /\ v.meta = [meta EXCEPT ![i] = e]
      /\ s \in allocate_blocks(free_bitmap, BlocksFor(size)) /\ size \in Nat
      /\ \A k \in 1 .. Len(s) : s[k] \in BlockIndex /\ s[k] \notin free_bitmap
      /\ v.free_bitmap = free_bitmap \cup BlocksOf(s)
      /\ \A b \in free_bitmap : v.blocks[b] = blocks[b]
      /\ \A b \in BlockIndex : b \notin BlocksOf(s) => v.blocks[b] = blocks[b]
      /\ \A k \in 1 .. Len(s) : v.blocks[s[k]].next = NextIn(s, k)
      /\ WellLinked(v.meta, v.free_bitmap, v.blocks)
      /\ AllListOwn(v.meta, v.blocks) /\ Unlisted(v.meta, v.blocks, i)
      /\ Live(v.meta) = Live(meta) \cup {i}
      /\ v.meta[i] = e /\ \A j \in MetaIndex \ {i} : v.meta[j] = meta[j]

LEMMA CreateParts ==
  ASSUME Inv, NEW p \in ClientPath, NEW size \in Size, file_create(p, size)
  PROVE  \E i \in MetaIndex : \E s \in BlockSeq : \E v \in Vol :
            /\ Creates(p, size, i, s, v)
            /\ \E r \in dir_add_child(v, path_index[ParentPath(p)], i) : Becomes(r.vol)
            /\ path_index' = Inserted(p, i)
<1> DEFINE parent == path_index[ParentPath(p)]
           E(s) == NewEntry(FILE, p, FirstOf(s), size)
           W(i, s, data) ==
             [meta |-> [meta EXCEPT ![i] = E(s)],
              free_bitmap |-> free_bitmap \cup BlocksOf(s),
              blocks |-> WriteChain(blocks, s, data)]
<1>1. PICK i \in find_free_meta_index(meta), s \in allocate_blocks(free_bitmap, BlocksFor(size)) :
        \E data \in [DOMAIN s -> Data] :
          /\ \E r \in dir_add_child(W(i, s, data), parent, i) : Becomes(r.vol)
          /\ path_index' = Inserted(p, i)
  BY DEF file_create, Inserted
<1>2. PICK data \in [DOMAIN s -> Data] :
          /\ \E r \in dir_add_child(W(i, s, data), parent, i) : Becomes(r.vol)
          /\ path_index' = Inserted(p, i)
  BY <1>1
<1>3. size \in Nat /\ MayCreate(p) /\ TypeOK /\ Structure /\ Index
  BY ClientAssumption, InvParts DEF file_create
<1>4. /\ parent \in Live(meta)
      /\ i \in MetaIndex /\ i \notin Live(meta) /\ i # Root /\ Root \in Live(meta)
  BY <1>3, CreatePlace
<1>5. /\ s \in BlockSeq /\ \A k \in 1 .. Len(s) : s[k] \in BlockIndex /\ s[k] \notin free_bitmap
  BY <1>3, Allocated, BlocksForType
<1>6. data \in [DOMAIN s -> Seq(Word)]
  BY DataAssumption DEF Word
<1> DEFINE blk2 == WriteChain(blocks, s, data)
<1>7. /\ blk2 \in [BlockIndex -> Block]
      /\ \A b \in BlockIndex : b \notin BlocksOf(s) => blk2[b] = blocks[b]
      /\ \A k \in 1 .. Len(s) : blk2[s[k]].next = NextIn(s, k)
  BY <1>3, <1>5, <1>6, ChainWritten DEF TypeOK
<1>8. \A b \in free_bitmap : blk2[b] = blocks[b]
  <2>1. DOMAIN s = 1 .. Len(s) /\ free_bitmap \subseteq BlockIndex
    BY <1>3, <1>5, BlockSeqType DEF TypeOK
  <2>2. \A b \in free_bitmap : b \notin BlocksOf(s)
    BY <1>5, <2>1 DEF BlocksOf
  <2> QED
    BY <1>7, <2>1, <2>2
<1>9. /\ E(s) \in MetaEntry /\ E(s).valid = 0 /\ E(s).type = FILE
      /\ E(s).start_index = FirstOf(s) /\ E(s).parent = parent
  <2>1. E(s) \in MetaEntry
    BY <1>3, <1>5, FirstOfType, NewEntryType
  <2> QED
    BY <2>1 DEF NewEntry
<1> DEFINE v == W(i, s, data)
           e == E(s)
<1> HIDE DEF blk2, E
<1>10. v = [meta |-> [meta EXCEPT ![i] = e], free_bitmap |-> free_bitmap \cup BlocksOf(s),
            blocks |-> blk2]
  BY DEF blk2
<1> HIDE DEF W, v, e, parent
<1>11. /\ WellLinked(v.meta, v.free_bitmap, v.blocks)
       /\ AllListOwn(v.meta, v.blocks) /\ Unlisted(v.meta, v.blocks, i)
       /\ Live(v.meta) = Live(meta) \cup {i}
  <2>1. e \in MetaEntry /\ e.valid = 0 /\ (e.type = DIR => e.start_index = 0)
        /\ e.start_index = FirstOf(s)
    BY <1>9 DEF e, FILE, DIR
  <2>2. LET m2 == [meta EXCEPT ![i] = e]
        IN  /\ WellLinked(m2, free_bitmap \cup BlocksOf(s), blk2)
            /\ AllListOwn(m2, blk2) /\ Unlisted(m2, blk2, i)
            /\ Live(m2) = Live(meta) \cup {i}
    <3>1. \A k \in 1 .. Len(s) : s[k] \notin free_bitmap /\ blk2[s[k]].next = NextIn(s, k)
      BY <1>5, <1>7
    <3>2. i \in MetaIndex /\ i \notin Live(meta) /\ s \in BlockSeq
          /\ blk2 \in [BlockIndex -> Block]
      BY <1>4, <1>5, <1>7
    <3> QED
      BY <1>8, <2>1, <3>1, <3>2, EntryAdded
  <2> QED
    BY <1>10, <2>2
<1>12. v \in Vol
  <2>1. BlocksOf(s) \subseteq BlockIndex
    BY <1>5, BlockSeqType DEF BlocksOf
  <2>2. e \in MetaEntry
    BY <1>9 DEF e
  <2> QED
    BY <1>3, <1>4, <1>7, <1>10, <2>1, <2>2 DEF Vol, TypeOK
<1>13. v.meta[i] = e /\ \A j \in MetaIndex \ {i} : v.meta[j] = meta[j]
  BY <1>3, <1>4, <1>10 DEF TypeOK
<1>14. \E r \in dir_add_child(v, parent, i) : Becomes(r.vol)
  BY <1>2 DEF v
<1>15. Creates(p, size, i, s, v)
  <2>1. e = NewEntry(FILE, p, FirstOf(s), size)
    BY DEF e, E
  <2>2. e \in MetaEntry
    BY <1>9 DEF e
  <2>3. \A k \in 1 .. Len(s) : v.blocks[s[k]].next = NextIn(s, k)
    BY <1>7, <1>10
  <2>4. /\ \A b \in free_bitmap : v.blocks[b] = blocks[b]
        /\ \A b \in BlockIndex : b \notin BlocksOf(s) => v.blocks[b] = blocks[b]
    BY <1>7, <1>8, <1>10
  <2>5. v.meta = [meta EXCEPT ![i] = e] /\ v.free_bitmap = free_bitmap \cup BlocksOf(s)
    BY <1>10
  <2> QED
    BY <1>1, <1>3, <1>4, <1>5, <1>11, <1>13, <2>1, <2>2, <2>3, <2>4, <2>5 DEF Creates, parent
<1> QED
  BY <1>2, <1>4, <1>5, <1>12, <1>14, <1>15 DEF parent

LEMMA CreateInv ==
  ASSUME Inv, TypeOK', NEW p \in ClientPath, NEW size \in Size, file_create(p, size)
  PROVE  Inv'
<1> DEFINE parent == path_index[ParentPath(p)]
<1>1. PICK i \in MetaIndex : \E s \in BlockSeq : \E v \in Vol :
         /\ Creates(p, size, i, s, v)
         /\ \E r \in dir_add_child(v, parent, i) : Becomes(r.vol)
         /\ path_index' = Inserted(p, i)
  BY CreateParts
<1>2. PICK s \in BlockSeq : \E v \in Vol :
         /\ Creates(p, size, i, s, v)
         /\ \E r \in dir_add_child(v, parent, i) : Becomes(r.vol)
         /\ path_index' = Inserted(p, i)
  BY <1>1
<1>3. PICK v \in Vol :
         /\ Creates(p, size, i, s, v)
         /\ \E r \in dir_add_child(v, parent, i) : Becomes(r.vol)
         /\ path_index' = Inserted(p, i)
  BY <1>2
<1>4. /\ MayCreate(p) /\ TypeOK /\ Index
      /\ parent \in Live(meta)
      /\ i \notin Live(meta) /\ i # Root /\ Root \in Live(meta)
  BY <1>3, InvParts DEF Creates
<1>5. /\ WellLinked(v.meta, v.free_bitmap, v.blocks)
      /\ AllListOwn(v.meta, v.blocks) /\ Unlisted(v.meta, v.blocks, i)
      /\ Live(v.meta) = Live(meta) \cup {i}
      /\ v.meta[i].parent = parent /\ \A j \in MetaIndex \ {i} : v.meta[j] = meta[j]
  <2>1. v.meta[i] = NewEntry(FILE, p, FirstOf(s), size)
    BY <1>3 DEF Creates
  <2>2. v.meta[i].parent = parent
    BY <2>1 DEF NewEntry
  <2> QED
    BY <1>3, <2>2 DEF Creates
<1> HIDE DEF parent
<1>6. PICK r \in dir_add_child(v, parent, i) : Becomes(r.vol)
  BY <1>3
<1>7. i \in Live(v.meta) /\ parent \in Live(v.meta)
  BY <1>4, <1>5
<1>8. /\ WellLinked(r.vol.meta, r.vol.free_bitmap, r.vol.blocks)
      /\ Live(r.vol.meta) = Live(meta) \cup {i}
      /\ \A j \in MetaIndex : /\ r.vol.meta[j].type = v.meta[j].type
                              /\ r.vol.meta[j].parent = v.meta[j].parent
  BY <1>5, <1>6, <1>7, AddChildLinked
<1>9. AllListOwn(r.vol.meta, r.vol.blocks)
  BY <1>5, <1>6, <1>7, AddChildLists
<1>10. Structure'
  BY <1>6, <1>8, <1>9 DEF Becomes, Structure
<1>11. Live(meta') = Live(meta) \cup {i}
  BY <1>6, <1>8 DEF Becomes
<1>12. /\ meta'[Root].type = meta[Root].type /\ meta'[Root].parent = meta[Root].parent
       /\ meta'[Root].valid = 0
  <2>1. Root \in MetaIndex \ {i} /\ Root \in Live(meta')
    BY <1>4, <1>11 DEF Live
  <2> QED
    BY <1>5, <1>6, <1>8, <2>1 DEF Becomes, Live
<1>13. p # RootPath /\ p \notin DOMAIN path_index
  BY <1>4 DEF MayCreate, RootPath
<1>14. path_index' = Inserted(p, i)
  BY <1>3
<1>15. IndexedEntriesLive'
  BY <1>4, <1>11, <1>13, <1>14 DEF IndexedEntriesLive, Index, Inserted
<1>16. RootAlive'
  BY <1>4, <1>12, <1>13, <1>14 DEF RootAlive, IsDir, Index, Inserted
<1> QED
  BY <1>10, <1>15, <1>16 DEF Inv, Structure, AllListOwn

LEMMA CreateNoSpaceInv ==
  ASSUME Inv, TypeOK', NEW p \in ClientPath, NEW size \in Size, file_create_no_space(p, size)
  PROVE  Inv'
<1>1. PICK i \in find_free_meta_index(meta) :
        meta' = [meta EXCEPT ![i] =
                   [NewEntry(FILE, p, meta[i].start_index, size) EXCEPT !.valid = 1]]
  BY DEF file_create_no_space
<1>2. /\ MayCreate(p) /\ UNCHANGED <<free_bitmap, blocks, path_index>>
      /\ TypeOK /\ Structure /\ Index
  BY InvParts DEF file_create_no_space
<1>3. /\ i \in MetaIndex /\ i \notin Live(meta) /\ i # Root /\ Root \in Live(meta)
      /\ Unlisted(meta, blocks, i)
  BY <1>2, CreatePlace
<1>4. /\ meta'[i].valid = 1 /\ meta'[i].start_index = meta[i].start_index
      /\ \A j \in MetaIndex \ {i} : meta'[j] = meta[j]
  BY <1>1, <1>2, <1>3 DEF TypeOK, NewEntry
<1>5. Live(meta') = Live(meta)
  BY <1>3, <1>4 DEF Live
<1>6. \A j \in Live(meta) : meta'[j] = meta[j] /\ j \in MetaIndex
  BY <1>3, <1>4 DEF Live
<1>7. \A j \in MetaIndex \ Live(meta) : meta'[j].start_index = 0
  BY <1>2, <1>3, <1>4 DEF Structure, WellLinked
<1>8. WellLinked(meta', free_bitmap, blocks)
  BY <1>2, <1>5, <1>6, <1>7 DEF Structure, WellLinked
<1>9. AllListOwn(meta', blocks)
  <2>1. \A j \in MetaIndex \ {i} : SameLinks(meta, meta', j) /\ meta'[j].parent = meta[j].parent
    BY <1>4 DEF SameLinks
  <2>2. ~IsDirWithBlock(meta', i)
    BY <1>3, <1>5 DEF IsDirWithBlock
  <2>3. \A d \in Live(meta) : IsDirWithBlock(meta, d) => Items(meta, blocks, d) = Items(meta, blocks, d)
    OBVIOUS
  <2> QED
    BY <1>2, <1>3, <2>1, <2>2, <2>3, ListsKept DEF Structure, TypeOK
<1>10. Structure'
  BY <1>2, <1>8, <1>9 DEF Structure
<1>11. Index'
  BY <1>2, <1>3, <1>4, <1>5, <1>6 DEF Index, IndexedEntriesLive, RootAlive, IsDir
<1> QED
  BY <1>10, <1>11 DEF Inv, Structure, AllListOwn, Index

\* What dir_create hands to dir_add_child: the volume v, in which entry i is new.
DirCreates(p, i, v) ==
  LET e == NewEntry(DIR, p, 0, 0)
  IN  /\ MayCreate(p) /\ path_index[ParentPath(p)] \in Live(meta)
      /\ meta[path_index[ParentPath(p)]].type = DIR
      /\ i \notin Live(meta) /\ i # Root /\ Root \in Live(meta)
      /\ e \in MetaEntry /\ v.meta = [meta EXCEPT ![i] = e]
      /\ v.free_bitmap = free_bitmap /\ v.blocks = blocks
      /\ WellLinked(v.meta, v.free_bitmap, v.blocks)
      /\ AllListOwn(v.meta, v.blocks) /\ Unlisted(v.meta, v.blocks, i)
      /\ Live(v.meta) = Live(meta) \cup {i}
      /\ v.meta[i] = e /\ \A j \in MetaIndex \ {i} : v.meta[j] = meta[j]

\* What it does with the outcome of dir_add_child.
DirCreated(i, r) ==
  IF r.ok THEN Becomes(r.vol) /\ path_index' = rebuild_path_index(meta')
  ELSE /\ meta' = [r.vol.meta EXCEPT ![i].valid = 1]
       /\ UNCHANGED <<free_bitmap, blocks, path_index>>

LEMMA DirCreateParts ==
  ASSUME Inv, NEW p \in ClientPath, dir_create(p)
  PROVE  \E i \in MetaIndex : \E v \in Vol :
            /\ DirCreates(p, i, v)
            /\ \E r \in dir_add_child(v, path_index[ParentPath(p)], i) : DirCreated(i, r)
<1> DEFINE parent == path_index[ParentPath(p)]
           e == NewEntry(DIR, p, 0, 0)
           W(i) == [Volume EXCEPT !.meta[i] = e]
<1>1. PICK i \in find_free_meta_index(meta) :
        \E r \in dir_add_child(W(i), parent, i) : DirCreated(i, r)
  BY DEF dir_create, DirCreated
<1>2. MayCreate(p) /\ TypeOK /\ Structure /\ Index /\ 0 \in 0 .. NB
  BY InvParts, SizesAssumption DEF dir_create
<1>3. /\ parent \in Live(meta)
      /\ i \in MetaIndex /\ i \notin Live(meta) /\ i # Root /\ Root \in Live(meta)
      /\ Unlisted(meta, blocks, i)
  BY <1>2, CreatePlace
<1>4. e \in MetaEntry /\ e.valid = 0 /\ e.type = DIR /\ e.start_index = 0 /\ e.parent = parent
  <2>1. e \in MetaEntry
    BY <1>2, NewEntryType
  <2> QED
    BY <2>1 DEF NewEntry
<1> DEFINE v == W(i)
<1> HIDE DEF e
<1>5. v = [meta |-> [meta EXCEPT ![i] = e], free_bitmap |-> free_bitmap, blocks |-> blocks]
  BY DEF Volume
<1>6. PICK r \in dir_add_child(v, parent, i) : DirCreated(i, r)
  BY <1>1
<1> HIDE DEF W, v
<1>7. v.meta = [meta EXCEPT ![i] = e] /\ v.free_bitmap = free_bitmap /\ v.blocks = blocks
  BY <1>5
<1>8. v \in Vol
  BY <1>2, <1>3, <1>4, <1>5 DEF Vol, TypeOK
<1>9. /\ WellLinked(v.meta, v.free_bitmap, v.blocks)
      /\ AllListOwn(v.meta, v.blocks) /\ Unlisted(v.meta, v.blocks, i)
      /\ Live(v.meta) = Live(meta) \cup {i}
  <2> DEFINE s == <<>>
  <2>1. s \in BlockSeq /\ Len(s) = 0 /\ FirstOf(s) = 0 /\ BlocksOf(s) = {}
    <3>1. 0 \in 0 .. NB /\ s \in [1 .. 0 -> BlockIndex] /\ DOMAIN s = {}
      BY <1>2
    <3> QED
      BY <3>1 DEF BlockSeq, FirstOf, BlocksOf
  <2>2. \A k \in 1 .. Len(s) : s[k] \notin free_bitmap /\ blocks[s[k]].next = NextIn(s, k)
    BY <2>1
  <2> HIDE DEF s
  <2>3. LET m2 == [meta EXCEPT ![i] = e]
        IN  /\ WellLinked(m2, free_bitmap \cup BlocksOf(s), blocks)
            /\ AllListOwn(m2, blocks) /\ Unlisted(m2, blocks, i)
            /\ Live(m2) = Live(meta) \cup {i}
    BY <1>2, <1>3, <1>4, <2>1, <2>2, EntryAdded DEF TypeOK
  <2> QED
    BY <1>7, <2>1, <2>3
<1>10. v.meta[i] = e /\ \A j \in MetaIndex \ {i} : v.meta[j] = meta[j]
  BY <1>2, <1>3, <1>4, <1>7 DEF TypeOK
<1>11. DirCreates(p, i, v)
  <2>1. meta[parent].type = DIR
    BY DEF dir_create
  <2>2. e = NewEntry(DIR, p, 0, 0) /\ e \in MetaEntry
    BY <1>4 DEF e
  <2> HIDE DEF parent
  <2> QED
    BY <1>2, <1>3, <1>7, <1>9, <1>10, <2>1, <2>2 DEF DirCreates, parent
<1> QED
  BY <1>3, <1>6, <1>8, <1>11

LEMMA DirCreateInv ==
  ASSUME Inv, TypeOK', NEW p \in ClientPath, dir_create(p)
  PROVE  Inv'
<1> DEFINE parent == path_index[ParentPath(p)]
           e == NewEntry(DIR, p, 0, 0)
<1>1. PICK i \in MetaIndex : \E v \in Vol :
         DirCreates(p, i, v) /\ \E r \in dir_add_child(v, parent, i) : DirCreated(i, r)
  BY DirCreateParts
<1>5. PICK v \in Vol :
         DirCreates(p, i, v) /\ \E r \in dir_add_child(v, parent, i) : DirCreated(i, r)
  BY <1>1
<1>2. TypeOK /\ Structure /\ Index
  BY InvParts
<1>3. /\ parent \in Live(meta)
      /\ i \in MetaIndex /\ i \notin Live(meta) /\ i # Root /\ Root \in Live(meta)
      /\ Unlisted(meta, blocks, i)
  <2>1. /\ parent \in Live(meta) /\ i \notin Live(meta) /\ i # Root /\ Root \in Live(meta)
    BY <1>5 DEF DirCreates
  <2> QED
    BY <1>2, <2>1, FreeUnlisted DEF TypeOK, Structure
<1>4. e \in MetaEntry /\ e.parent = parent /\ e.start_index = 0
  BY <1>5 DEF DirCreates, NewEntry
<1> HIDE DEF e, parent
<1>6. PICK r \in dir_add_child(v, parent, i) : DirCreated(i, r)
  BY <1>5
<1>7. v.meta = [meta EXCEPT ![i] = e] /\ v.free_bitmap = free_bitmap /\ v.blocks = blocks
  BY <1>5 DEF DirCreates, e
<1>8. v \in Vol
  OBVIOUS
<1>9. /\ WellLinked(v.meta, v.free_bitmap, v.blocks)
      /\ AllListOwn(v.meta, v.blocks) /\ Unlisted(v.meta, v.blocks, i)
      /\ Live(v.meta) = Live(meta) \cup {i}
  BY <1>5 DEF DirCreates
<1>10. v.meta[i].parent = parent /\ \A j \in MetaIndex \ {i} : v.meta[j] = meta[j]
  BY <1>4, <1>5 DEF DirCreates, e
<1>11. i \in Live(v.meta) /\ parent \in Live(v.meta) /\ parent \in MetaIndex
  BY <1>3, <1>9 DEF Live
<1>12. CASE r.ok
  <2>1. /\ WellLinked(r.vol.meta, r.vol.free_bitmap, r.vol.blocks)
        /\ Live(r.vol.meta) = Live(meta) \cup {i}
        /\ \A j \in MetaIndex : /\ r.vol.meta[j].type = v.meta[j].type
                                /\ r.vol.meta[j].parent = v.meta[j].parent
    BY <1>3, <1>8, <1>9, <1>11, AddChildLinked
  <2>2. AllListOwn(r.vol.meta, r.vol.blocks)
    BY <1>8, <1>9, <1>10, <1>11, AddChildLists
  <2>3. Becomes(r.vol) /\ path_index' = rebuild_path_index(meta')
    BY <1>6, <1>12 DEF DirCreated
  <2>4. Structure'
    BY <2>1, <2>2, <2>3 DEF Becomes, Structure
  <2>5. Root \in MetaIndex \ {i} /\ Root \in Live(meta')
    BY <1>3, <2>1, <2>3 DEF Live, Becomes
  <2>6. /\ meta'[Root].valid = meta[Root].valid /\ meta'[Root].type = meta[Root].type
        /\ meta'[Root].parent = meta[Root].parent
    BY <1>3, <1>10, <2>1, <2>3, <2>5 DEF Becomes, Live
  <2>7. Index'
    BY <1>2, <2>3, <2>6, IndexRebuilt DEF Index, RootAlive, IsDir
  <2> QED
    BY <2>4, <2>7 DEF Inv, Structure, AllListOwn, Index
<1>13. CASE ~r.ok
  <2>1. r.vol = v
    BY <1>3, <1>8, <1>11, <1>13, AddChild DEF AddFails, AddLists, AddAllocates
  <2>2. /\ meta' = [[meta EXCEPT ![i] = e] EXCEPT ![i].valid = 1]
        /\ UNCHANGED <<free_bitmap, blocks, path_index>>
    BY <1>6, <1>7, <1>13, <2>1 DEF DirCreated
  <2>3. /\ meta'[i].valid = 1 /\ meta'[i].start_index = 0
        /\ \A j \in MetaIndex \ {i} : meta'[j] = meta[j]
    <3>1. meta \in [MetaIndex -> MetaEntry]
      BY <1>2 DEF TypeOK
    <3>2. /\ meta'[i] = [e EXCEPT !.valid = 1]
          /\ \A j \in MetaIndex \ {i} : meta'[j] = meta[j]
      BY <1>3, <2>2, <3>1
    <3> QED
      BY <1>4, <3>2, EntryFields
  <2>4. Live(meta') = Live(meta)
    BY <1>3, <2>3 DEF Live
  <2>5. \A j \in Live(meta) : meta'[j] = meta[j] /\ j \in MetaIndex
    BY <1>3, <2>3 DEF Live
  <2>6. \A j \in MetaIndex \ Live(meta) : meta'[j].start_index = 0
    BY <1>2, <2>3 DEF Structure, WellLinked
  <2>7. WellLinked(meta', free_bitmap, blocks)
    BY <1>2, <2>4, <2>5, <2>6 DEF Structure, WellLinked
  <2>8. AllListOwn(meta', blocks)
    <3>1. \A j \in MetaIndex \ {i} : SameLinks(meta, meta', j) /\ meta'[j].parent = meta[j].parent
      BY <2>3 DEF SameLinks
    <3>2. ~IsDirWithBlock(meta', i)
      BY <1>3, <2>4 DEF IsDirWithBlock
    <3>3. \A d \in Live(meta) : IsDirWithBlock(meta, d) => Items(meta, blocks, d) = Items(meta, blocks, d)
      OBVIOUS
    <3> QED
      BY <1>2, <1>3, <3>1, <3>2, <3>3, ListsKept DEF Structure, TypeOK
  <2>9. Structure'
    BY <2>2, <2>7, <2>8 DEF Structure
  <2>10. Index'
    BY <1>2, <1>3, <2>2, <2>3, <2>4, <2>5 DEF Index, IndexedEntriesLive, RootAlive, IsDir
  <2> QED
    BY <2>9, <2>10 DEF Inv, Structure, AllListOwn, Index
<1> QED
  BY <1>12, <1>13

\* Taking entry i out of its parent's block, on the volume v of the current
\* table and blocks, whatever its bitmap.
LEMMA TakenOut ==
  ASSUME Inv, NEW v \in Vol, v.meta = meta, v.blocks = blocks,
         NEW i \in MetaIndex, meta[i].parent \in MetaIndex,
         NEW r \in dir_remove_child(v, meta[i].parent, i)
  PROVE  /\ r.vol \in Vol /\ r.vol.meta = meta /\ r.vol.free_bitmap = v.free_bitmap
         /\ Cut(blocks, r.vol.blocks)
         /\ AllListOwn(meta, r.vol.blocks) /\ Unlisted(meta, r.vol.blocks, i)
<1>1. Structure
  BY InvParts
<1>2. r.vol \in Vol /\ r.vol.meta = meta /\ r.vol.free_bitmap = v.free_bitmap
  BY RemoveChild
<1>3. Cut(v.blocks, r.vol.blocks)
  BY RemoveCuts
<1>4. WellLinked(v.meta, free_bitmap, v.blocks) /\ AllListOwn(v.meta, v.blocks)
  BY <1>1 DEF Structure
<1>5. r \in dir_remove_child(v, v.meta[i].parent, i) /\ v.meta[i].parent \in MetaIndex
  OBVIOUS
<1>6. AllListOwn(v.meta, r.vol.blocks) /\ Unlisted(v.meta, r.vol.blocks, i)
  BY <1>4, <1>5, RemoveChildLists
<1> QED
  BY <1>2, <1>3, <1>6

\* Entry i, listed nowhere any more and not the root, becomes a free slot, its
\* blocks become free, and the index is rebuilt.
LEMMA EntryRemoved ==
  ASSUME Inv, TypeOK', NEW i \in Live(meta), i # Root,
         AllListOwn(meta, blocks'), Unlisted(meta, blocks', i),
         WellLinked(meta', free_bitmap', blocks'), meta'[i].valid = 1,
         \A j \in MetaIndex \ {i} : meta'[j] = meta[j],
         path_index' = rebuild_path_index(meta')
  PROVE  Inv'
<1>1. TypeOK /\ Structure /\ Index /\ i \in MetaIndex
  BY InvParts DEF Live
<1>2. \A j \in MetaIndex \ {i} : SameLinks(meta, meta', j) /\ meta'[j].parent = meta[j].parent
  BY DEF SameLinks
<1>3. ~IsDirWithBlock(meta', i)
  BY DEF IsDirWithBlock, Live
<1>4. \A d \in Live(meta) : IsDirWithBlock(meta, d) => Items(meta, blocks', d) = Items(meta, blocks', d)
  OBVIOUS
<1>5. meta \in [MetaIndex -> MetaEntry] /\ meta' \in [MetaIndex -> MetaEntry]
  BY <1>1 DEF TypeOK
<1>6. AllListOwn(meta', blocks')
  BY <1>1, <1>2, <1>3, <1>4, <1>5, ListsKept
<1>7. Root \in MetaIndex \ {i}
  BY SizesAssumption DEF Root, MetaIndex
<1>8. Index'
  BY <1>1, <1>7, IndexRebuilt DEF Index, RootAlive, IsDir
<1> QED
  BY <1>6, <1>8 DEF Inv, AllListOwn, Index

\* What file_delete does: the chain s of the file i leaves the bitmap (volume f),
\* i is taken out of its parent's block (volume v), and its slot is freed.
DeleteEffect(i, s, f, v) ==
  /\ f.meta = meta /\ f.blocks = blocks /\ f.free_bitmap = free_bitmap \ BlocksOf(s)
  /\ meta[i].parent \in MetaIndex =>
        \E r \in dir_remove_child(f, meta[i].parent, i) : v = r.vol
  /\ v.meta = meta /\ v.free_bitmap = f.free_bitmap /\ Cut(blocks, v.blocks)
  /\ AllListOwn(meta, v.blocks) /\ Unlisted(meta, v.blocks, i)
  /\ free_bitmap' = v.free_bitmap /\ blocks' = v.blocks
  /\ path_index' = rebuild_path_index(meta')
  /\ meta'[i].valid = 1 /\ meta'[i].start_index = 0 /\ meta'[i].type = meta[i].type
  /\ \A j \in MetaIndex \ {i} : meta'[j] = meta[j]

LEMMA DeleteParts ==
  ASSUME Inv, NEW p \in ClientPath, file_delete(p)
  PROVE  LET i == path_index[p]
         IN  /\ i \in MetaIndex /\ i \in Live(meta) /\ meta[i].type = FILE /\ i # Root
             /\ \E s \in Chains(blocks, meta[i].start_index) : \E f \in Vol : \E v \in Vol :
                   DeleteEffect(i, s, f, v)
<1> DEFINE i == path_index[p]
           F(s) == [Volume EXCEPT !.free_bitmap = @ \ BlocksOf(s)]
           R(s) == IF meta[i].parent \in MetaIndex
                   THEN dir_remove_child(F(s), meta[i].parent, i)
                   ELSE {[ok |-> FALSE, vol |-> F(s)]}
           Done(r) == /\ meta' = [r.vol.meta EXCEPT ![i].valid = 1, ![i].start_index = 0,
                                                    ![i].total_size = 0]
                      /\ free_bitmap' = r.vol.free_bitmap
                      /\ blocks' = r.vol.blocks
                      /\ path_index' = rebuild_path_index(meta')
<1>1. PICK s \in Chains(blocks, meta[i].start_index) : \E r \in R(s) : Done(r)
  BY DEF file_delete
<1>2. PICK r \in R(s) : Done(r)
  BY <1>1
<1>3. TypeOK /\ Structure /\ Index
  BY InvParts
<1>4. /\ i \in MetaIndex /\ i \in Live(meta) /\ meta[i].type = FILE /\ i # Root
  <2>1. i \in MetaIndex /\ i \in Live(meta) /\ meta[i].type = FILE
    BY <1>3 DEF TypeOK, file_delete, Live
  <2>2. meta[Root].type = DIR
    BY <1>3 DEF Index, RootAlive, IsDir
  <2> QED
    BY <2>1, <2>2 DEF FILE, DIR
<1>5. F(s) \in Vol /\ F(s).meta = meta /\ F(s).blocks = blocks
      /\ F(s).free_bitmap = free_bitmap \ BlocksOf(s)
  BY <1>3 DEF TypeOK, Vol, Volume
<1> HIDE DEF i, F
<1>6. /\ r.vol \in Vol /\ r.vol.meta = meta /\ r.vol.free_bitmap = free_bitmap \ BlocksOf(s)
      /\ Cut(blocks, r.vol.blocks)
      /\ AllListOwn(meta, r.vol.blocks) /\ Unlisted(meta, r.vol.blocks, i)
  <2>1. CASE meta[i].parent \in MetaIndex
    BY <1>4, <1>5, <2>1, TakenOut
  <2>2. CASE meta[i].parent \notin MetaIndex
    <3>1. r.vol = F(s)
      BY <2>2
    <3>2. Unlisted(meta, blocks, i)
      BY <1>3, <2>2 DEF Unlisted, Structure, AllListOwn, ListsOwn, IsDirWithBlock, Items, Live
    <3> QED
      BY <1>3, <1>5, <3>1, <3>2 DEF Cut, Structure
  <2> QED
    BY <2>1, <2>2
<1> HIDE DEF R
<1>7. /\ free_bitmap' = free_bitmap \ BlocksOf(s) /\ blocks' = r.vol.blocks
      /\ path_index' = rebuild_path_index(meta')
      /\ meta' = [meta EXCEPT ![i].valid = 1, ![i].start_index = 0, ![i].total_size = 0]
  BY <1>2, <1>6
<1>8. /\ meta'[i].valid = 1 /\ meta'[i].start_index = 0 /\ meta'[i].type = meta[i].type
      /\ \A j \in MetaIndex \ {i} : meta'[j] = meta[j]
  <2>1. meta[i] \in MetaEntry
    BY <1>3, <1>4 DEF TypeOK
  <2>2. /\ meta'[i] = [meta[i] EXCEPT !.valid = 1, !.start_index = 0, !.total_size = 0]
        /\ \A j \in MetaIndex \ {i} : meta'[j] = meta[j]
    BY <1>3, <1>4, <1>7 DEF TypeOK
  <2> QED
    BY <2>1, <2>2 DEF MetaEntry
<1>9. DeleteEffect(i, s, F(s), r.vol)
  <2>1. meta[i].parent \in MetaIndex =>
           \E q \in dir_remove_child(F(s), meta[i].parent, i) : r.vol = q.vol
    BY DEF R
  <2> QED
    BY <1>5, <1>6, <1>7, <1>8, <2>1 DEF DeleteEffect
<1> QED
  BY <1>4, <1>5, <1>6, <1>9 DEF i

LEMMA DeleteInv ==
  ASSUME Inv, TypeOK', NEW p \in ClientPath, file_delete(p)
  PROVE  Inv'
<1> DEFINE i == path_index[p]
<1>4. i \in MetaIndex /\ i \in Live(meta) /\ meta[i].type = FILE /\ i # Root
  BY DeleteParts
<1>1. PICK s \in Chains(blocks, meta[i].start_index) : \E f \in Vol : \E v \in Vol :
         DeleteEffect(i, s, f, v)
  BY DeleteParts
<1> HIDE DEF i
<1>2. PICK f \in Vol : \E v \in Vol : DeleteEffect(i, s, f, v)
  BY <1>1
<1>5. PICK v \in Vol : DeleteEffect(i, s, f, v)
  BY <1>2
<1>3. TypeOK /\ Structure /\ Index
  BY InvParts
<1>6. /\ Cut(blocks, blocks') /\ AllListOwn(meta, blocks') /\ Unlisted(meta, blocks', i)
      /\ v.meta = meta /\ v.blocks = blocks'
  BY <1>5 DEF DeleteEffect
<1>7. /\ free_bitmap' = free_bitmap \ BlocksOf(s) /\ path_index' = rebuild_path_index(meta')
  BY <1>5 DEF DeleteEffect
<1>8. /\ meta'[i].valid = 1 /\ meta'[i].start_index = 0 /\ meta'[i].type = meta[i].type
      /\ \A j \in MetaIndex \ {i} : meta'[j] = meta[j]
  BY <1>5 DEF DeleteEffect
<1>9. WellLinked(meta', free_bitmap', blocks')
  <2>1. s \in BlockSeq
    BY DEF Chains
  <2> DEFINE n == 0
  <2>2. n \in 0 .. Len(s) /\ BlocksOf(s) = Behind(s, n)
    BY <2>1, BlockSeqType DEF BlocksOf, Behind
  <2>3. \A j \in MetaIndex \ {i} : SameLinks(meta, meta', j)
    BY <1>8 DEF SameLinks
  <2>4. /\ meta \in [MetaIndex -> MetaEntry] /\ meta' \in [MetaIndex -> MetaEntry]
        /\ blocks \in [BlockIndex -> Block] /\ blocks' \in [BlockIndex -> Block]
        /\ free_bitmap \in SUBSET BlockIndex /\ WellLinked(meta, free_bitmap, blocks)
        /\ Cut(blocks, blocks')
    BY <1>3, <1>6, <1>7 DEF TypeOK, Structure
  <2>5. KeepsHead(meta, meta', blocks', i, s, n)
    BY <1>8, <2>3 DEF KeepsHead
  <2> HIDE DEF n
  <2>6. WellLinked(meta', free_bitmap \ Behind(s, n), blocks')
    BY <1>4, <2>2, <2>4, <2>5, TailFreed
  <2> QED
    BY <1>7, <2>2, <2>6
<1> QED
  BY <1>4, <1>6, <1>7, <1>8, <1>9, EntryRemoved

\* What dir_delete does: the directory i, whose block lists nothing, is taken
\* out of its parent's block (volume v), and its slot and its block are freed.
DirDeleteEffect(i, v) ==
  /\ \E r \in dir_remove_child(Volume, meta[i].parent, i) : v = r.vol
  /\ v.meta = meta /\ v.free_bitmap = free_bitmap /\ Cut(blocks, v.blocks)
  /\ AllListOwn(meta, v.blocks) /\ Unlisted(meta, v.blocks, i)
  /\ free_bitmap' = free_bitmap \ {meta[i].start_index} /\ blocks' = v.blocks
  /\ path_index' = rebuild_path_index(meta')
  /\ meta'[i].valid = 1 /\ meta'[i].start_index = 0 /\ meta'[i].type = meta[i].type
  /\ \A j \in MetaIndex \ {i} : meta'[j] = meta[j]

LEMMA DirDeleteParts ==
  ASSUME Inv, NEW p \in ClientPath, dir_delete(p)
  PROVE  LET i == path_index[p]
         IN  /\ i \in MetaIndex /\ i \in Live(meta) /\ meta[i].parent \in MetaIndex /\ i # Root
             /\ meta[i].type = DIR /\ <<>> \in dir_block_read(Volume, i)
             /\ \E v \in Vol : DirDeleteEffect(i, v)
<1> DEFINE i == path_index[p]
           start == meta[i].start_index
<1>1. PICK r \in dir_remove_child(Volume, meta[i].parent, i) :
        /\ r.ok
        /\ meta' = [r.vol.meta EXCEPT ![i].valid = 1, ![i].start_index = 0]
        /\ free_bitmap' = r.vol.free_bitmap \ {r.vol.meta[i].start_index}
        /\ blocks' = r.vol.blocks
        /\ path_index' = rebuild_path_index(meta')
  BY DEF dir_delete
<1>2. TypeOK /\ Structure /\ Index
  BY InvParts
<1>3. /\ i \in MetaIndex /\ i \in Live(meta) /\ meta[i].parent \in MetaIndex /\ i # Root
  BY <1>2 DEF TypeOK, dir_delete, Live, Index, RootAlive, IndexedEntriesLive
<1> HIDE DEF i
<1>4. Volume \in Vol /\ Volume.meta = meta /\ Volume.blocks = blocks
      /\ Volume.free_bitmap = free_bitmap
  BY <1>2, VolumeTyped DEF Volume
<1>5. /\ r.vol \in Vol /\ r.vol.meta = meta /\ r.vol.free_bitmap = free_bitmap
      /\ Cut(blocks, r.vol.blocks)
      /\ AllListOwn(meta, r.vol.blocks) /\ Unlisted(meta, r.vol.blocks, i)
  BY <1>3, <1>4, TakenOut
<1>6. /\ free_bitmap' = free_bitmap \ {start} /\ blocks' = r.vol.blocks
      /\ path_index' = rebuild_path_index(meta')
      /\ meta' = [meta EXCEPT ![i].valid = 1, ![i].start_index = 0]
  BY <1>1, <1>5
<1>7. /\ meta'[i].valid = 1 /\ meta'[i].start_index = 0 /\ meta'[i].type = meta[i].type
      /\ \A j \in MetaIndex \ {i} : meta'[j] = meta[j]
  <2>1. meta[i] \in MetaEntry
    BY <1>2, <1>3 DEF TypeOK
  <2>2. /\ meta'[i] = [meta[i] EXCEPT !.valid = 1, !.start_index = 0]
        /\ \A j \in MetaIndex \ {i} : meta'[j] = meta[j]
    BY <1>2, <1>3, <1>6 DEF TypeOK
  <2> QED
    BY <2>1, <2>2 DEF MetaEntry
<1>8. DirDeleteEffect(i, r.vol)
  <2>1. \E q \in dir_remove_child(Volume, meta[i].parent, i) : r.vol = q.vol
    OBVIOUS
  <2> QED
    BY <1>5, <1>6, <1>7, <2>1 DEF DirDeleteEffect
<1>9. meta[i].type = DIR /\ <<>> \in dir_block_read(Volume, i)
  BY DEF dir_delete, i
<1> QED
  BY <1>3, <1>5, <1>8, <1>9 DEF i

LEMMA DirDeleteInv ==
  ASSUME Inv, TypeOK', NEW p \in ClientPath, dir_delete(p)
  PROVE  Inv'
<1> DEFINE i == path_index[p]
           start == meta[i].start_index
<1>3. i \in MetaIndex /\ i \in Live(meta) /\ meta[i].parent \in MetaIndex /\ i # Root
  BY DirDeleteParts
<1>1. PICK v \in Vol : DirDeleteEffect(i, v)
  BY DirDeleteParts
<1>2. TypeOK /\ Structure /\ Index
  BY InvParts
<1> HIDE DEF i
<1>5. /\ Cut(blocks, blocks') /\ AllListOwn(meta, blocks') /\ Unlisted(meta, blocks', i)
  BY <1>1 DEF DirDeleteEffect
<1>6. /\ free_bitmap' = free_bitmap \ {start} /\ path_index' = rebuild_path_index(meta')
  BY <1>1 DEF DirDeleteEffect
<1>7. /\ meta'[i].valid = 1 /\ meta'[i].start_index = 0 /\ meta'[i].type = meta[i].type
      /\ \A j \in MetaIndex \ {i} : meta'[j] = meta[j]
  BY <1>1 DEF DirDeleteEffect
<1>8. WellLinked(meta', free_bitmap', blocks')
  <2> DEFINE F == {start} \ {0}
  <2>1. free_bitmap' = free_bitmap \ F
    <3>1. 0 \notin free_bitmap
      BY <1>2, SizesAssumption DEF TypeOK, BlockIndex
    <3> QED
      BY <1>6, <3>1
  <2>2. \A j \in MetaIndex \ {i} : SameLinks(meta, meta', j)
    BY <1>7 DEF SameLinks
  <2>3. \A j \in Live(meta) : j # i => meta[j].start_index \notin F
    BY <1>2, <1>3 DEF Structure, WellLinked
  <2>4. \A b \in free_bitmap \ F : blocks'[b].next \notin F \/ blocks'[b].next = 0
    <3>1. \A b \in free_bitmap : blocks'[b].next \in {blocks[b].next, 0}
      BY <1>2, <1>5, <1>6 DEF Cut, TypeOK
    <3> QED
      BY <1>2, <1>3, <3>1 DEF Structure, WellLinked
  <2> HIDE DEF F
  <2>5. NoLinkTo(F, meta, meta', free_bitmap, blocks', i)
    BY <1>7, <2>2, <2>3, <2>4 DEF NoLinkTo
  <2>6. /\ meta \in [MetaIndex -> MetaEntry] /\ meta' \in [MetaIndex -> MetaEntry]
        /\ blocks \in [BlockIndex -> Block] /\ blocks' \in [BlockIndex -> Block]
        /\ free_bitmap \in SUBSET BlockIndex /\ WellLinked(meta, free_bitmap, blocks)
        /\ Cut(blocks, blocks')
    BY <1>2, <1>5, <1>6 DEF TypeOK, Structure
  <2>7. WellLinked(meta', free_bitmap \ F, blocks')
    BY <1>3, <2>5, <2>6, Freed
  <2> QED
    BY <2>1, <2>7
<1> QED
  BY <1>3, <1>5, <1>6, <1>7, <1>8, EntryRemoved

\* Calls that keep every entry's use, kind, name, parent and directory block.
LEMMA IndexSame ==
  ASSUME Inv, TypeOK', UNCHANGED path_index,
         \A j \in MetaIndex : /\ meta'[j].valid = meta[j].valid /\ meta'[j].type = meta[j].type
                              /\ meta'[j].parent = meta[j].parent
  PROVE  Index'
<1>1. Index /\ Root \in MetaIndex
  BY InvParts, SizesAssumption DEF Root, MetaIndex
<1>2. Live(meta') = Live(meta)
  BY DEF Live
<1> QED
  BY <1>1, <1>2 DEF Index, IndexedEntriesLive, RootAlive, IsDir

\* file_edit changes no link, and no word of a directory.
LEMMA EditParts ==
  ASSUME Inv, NEW p \in ClientPath, NEW pos \in Size, file_edit(p, pos)
  PROVE  /\ UNCHANGED <<meta, free_bitmap, path_index>>
         /\ \A b \in BlockIndex : blocks'[b].next = blocks[b].next
         /\ \A d \in Live(meta) : IsDirWithBlock(meta, d)
               => Items(meta, blocks', d) = Items(meta, blocks, d)
<1> DEFINE i == path_index[p]
           k == pos \div BlockPayload + 1
<1>1. PICK s \in Chains(blocks, meta[i].start_index) :
        k \in DOMAIN s /\ \E d \in Data : blocks' = [blocks EXCEPT ![s[k]].items = d]
  BY DEF file_edit
<1>2. PICK d \in Data : blocks' = [blocks EXCEPT ![s[k]].items = d]
  BY <1>1
<1>3. TypeOK /\ Structure /\ UNCHANGED <<meta, free_bitmap, path_index>>
  BY InvParts DEF file_edit
<1>4. i \in MetaIndex /\ i \in Live(meta) /\ meta[i].type = FILE
  BY <1>3 DEF TypeOK, file_edit, Live
<1> HIDE DEF i, k
<1>5. s \in BlockSeq
  BY DEF Chains
<1>6. k \in 1 .. Len(s) /\ s[k] \in BlockIndex
  BY <1>1, <1>5, BlockSeqType
<1>7. Owns(meta, free_bitmap, blocks, i, s)
  BY <1>3, <1>4, ChainOwned DEF TypeOK, Structure
<1>8. /\ \A b \in BlockIndex : blocks'[b].next = blocks[b].next
      /\ \A b \in BlockIndex : b # s[k] => blocks'[b] = blocks[b]
  <2>1. /\ blocks'[s[k]] = [blocks[s[k]] EXCEPT !.items = d]
        /\ \A b \in BlockIndex : b # s[k] => blocks'[b] = blocks[b]
    BY <1>2, <1>3, <1>6 DEF TypeOK
  <2>2. blocks[s[k]] \in Block
    BY <1>3, <1>6 DEF TypeOK
  <2> QED
    BY <2>1, <2>2 DEF Block
<1>9. \A d2 \in Live(meta) : IsDirWithBlock(meta, d2)
          => Items(meta, blocks', d2) = Items(meta, blocks, d2)
  <2> TAKE d2 \in Live(meta)
  <2> HAVE IsDirWithBlock(meta, d2)
  <2>1. meta[d2].start_index \in free_bitmap /\ free_bitmap \subseteq BlockIndex
    BY <1>3 DEF IsDirWithBlock, Structure, WellLinked, TypeOK
  <2>2. meta[d2].start_index # s[k]
    BY <1>4, <1>6, <1>7 DEF Owns, IsDirWithBlock, FILE, DIR
  <2> QED
    BY <1>8, <2>1, <2>2 DEF Items
<1> QED
  BY <1>3, <1>8, <1>9

LEMMA EditInv ==
  ASSUME Inv, TypeOK', NEW p \in ClientPath, NEW pos \in Size, file_edit(p, pos)
  PROVE  Inv'
<1>1. TypeOK /\ Structure /\ UNCHANGED <<meta, free_bitmap, path_index>>
  BY InvParts DEF file_edit
<1>2. WellLinked(meta, free_bitmap, blocks')
  <2>1. Cut(blocks, blocks') /\ \A j \in MetaIndex : SameLinks(meta, meta, j)
    BY EditParts DEF Cut, SameLinks
  <2> QED
    BY <1>1, <2>1, CutLinked DEF TypeOK, Structure
<1>3. AllListOwn(meta, blocks')
  <2>1. \A d \in Live(meta) : IsDirWithBlock(meta, d)
           => Items(meta, blocks', d) = Items(meta, blocks, d)
    BY EditParts
  <2> QED
    BY <1>1, <2>1, ListsSame DEF TypeOK, Structure
<1>4. Index'
  BY <1>1, IndexSame
<1> QED
  BY <1>1, <1>2, <1>3, <1>4 DEF Inv, AllListOwn, Index

\* What file_truncate does to the links, by the number of blocks needed: nothing,
SameBlocks(i, s, need) ==
  need = Len(s) /\ SameLinks(meta, meta', i) /\ UNCHANGED <<free_bitmap, blocks>>

\* the blocks behind the first ones needed are freed,
FewerBlocks(i, s, need) ==
  /\ need < Len(s) /\ free_bitmap' = free_bitmap \ Behind(s, need)
  /\ \A b \in BlockIndex : /\ blocks'[b].next \in {blocks[b].next, 0}
                           /\ blocks'[b].items = blocks[b].items
                           /\ need # 0 /\ b # s[need] => blocks'[b] = blocks[b]
  /\ need = 0 => meta'[i].start_index = 0 /\ UNCHANGED blocks
  /\ need # 0 => SameLinks(meta, meta', i) /\ blocks'[s[need]].next = 0

\* or the chain new of free blocks is linked behind the last one.
MoreBlocks(i, s, need, new) ==
  /\ need > Len(s) /\ Len(new) = need - Len(s)
  /\ \A k \in 1 .. Len(new) : /\ new[k] \in BlockIndex /\ new[k] \notin free_bitmap
                              /\ blocks'[new[k]].next = NextIn(new, k)
  /\ free_bitmap' = free_bitmap \cup BlocksOf(new)
  /\ \A b \in free_bitmap : /\ blocks'[b].items = blocks[b].items
                            /\ Len(s) = 0 \/ b # s[Len(s)] => blocks'[b].next = blocks[b].next
  /\ \A b \in BlockIndex : b \notin BlocksOf(new) /\ (Len(s) = 0 \/ b # s[Len(s)])
                            => blocks'[b] = blocks[b]
  /\ Len(s) = 0 => meta'[i].start_index = new[1]
  /\ Len(s) # 0 => SameLinks(meta, meta', i) /\ blocks'[s[Len(s)]].next = new[1]

LEMMA TruncateParts ==
  ASSUME Inv, TypeOK', NEW p \in ClientPath, NEW size \in Size, file_truncate(p, size)
  PROVE  LET i == path_index[p]
             need == BlocksFor(size)
         IN  /\ i \in MetaIndex /\ i \in Live(meta) /\ meta[i].type = FILE
             /\ need \in Nat /\ size \in Nat /\ UNCHANGED path_index
             /\ \A j \in MetaIndex \ {i} : meta'[j] = meta[j]
             /\ meta'[i].valid = meta[i].valid /\ meta'[i].type = meta[i].type
             /\ meta'[i].parent = meta[i].parent /\ meta'[i].name = meta[i].name
             /\ meta'[i].total_size = size
             /\ \E s \in Chains(blocks, meta[i].start_index) :
                   \/ SameBlocks(i, s, need)
                   \/ FewerBlocks(i, s, need)
                   \/ \E new \in BlockSeq : MoreBlocks(i, s, need, new)
<1> DEFINE i == path_index[p]
           need == BlocksFor(size)
           Same(s) == /\ need = Len(s)
                      /\ meta' = [meta EXCEPT ![i].total_size = size]
                      /\ UNCHANGED <<free_bitmap, blocks>>
           Less(s) == /\ need < Len(s)
                      /\ free_bitmap' = free_bitmap \ Behind(s, need)
                      /\ IF need = 0
                         THEN /\ meta' = [meta EXCEPT ![i].start_index = 0,
                                                      ![i].total_size = size]
                              /\ UNCHANGED blocks
                         ELSE /\ meta' = [meta EXCEPT ![i].total_size = size]
                              /\ blocks' = [blocks EXCEPT ![s[need]].next = 0]
           Grown(new) == WriteChain(blocks, new, [k \in DOMAIN new |-> <<>>])
           More(s, new) == /\ free_bitmap' = free_bitmap \cup BlocksOf(new)
                           /\ IF Len(s) = 0
                              THEN /\ meta' = [meta EXCEPT ![i].start_index = new[1],
                                                           ![i].total_size = size]
                                   /\ blocks' = Grown(new)
                              ELSE /\ meta' = [meta EXCEPT ![i].total_size = size]
                                   /\ blocks' = [Grown(new) EXCEPT ![s[Len(s)]].next = new[1]]
<1>1. PICK s \in Chains(blocks, meta[i].start_index) :
         \/ Same(s)
         \/ Less(s)
         \/ /\ need > Len(s)
            /\ \E new \in allocate_blocks(free_bitmap, need - Len(s)) : More(s, new)
  BY DEF file_truncate, Behind
<1>2. TypeOK /\ Structure /\ UNCHANGED path_index
  BY InvParts DEF file_truncate
<1>3. /\ i \in MetaIndex /\ i \in Live(meta) /\ meta[i].type = FILE /\ need \in Nat
      /\ meta[i] \in MetaEntry /\ size \in Nat
  BY <1>2, ClientAssumption, BlocksForType DEF TypeOK, file_truncate, Live
<1> HIDE DEF i, need
<1>4. /\ s \in BlockSeq /\ Len(s) \in Nat /\ \A k \in 1 .. Len(s) : s[k] \in BlockIndex
  BY BlockSeqType DEF Chains
<1>5. /\ meta \in [MetaIndex -> MetaEntry] /\ meta' \in [MetaIndex -> MetaEntry]
      /\ blocks \in [BlockIndex -> Block] /\ blocks' \in [BlockIndex -> Block]
      /\ free_bitmap \in SUBSET BlockIndex /\ free_bitmap' \in SUBSET BlockIndex
      /\ WellLinked(meta, free_bitmap, blocks) /\ AllListOwn(meta, blocks)
  BY <1>2 DEF TypeOK, Structure
<1>6. Owns(meta, free_bitmap, blocks, i, s)
  BY <1>3, <1>5, ChainOwned
\* What every case keeps of the table.
<1>7. /\ \A j \in MetaIndex \ {i} : meta'[j] = meta[j]
      /\ meta'[i].valid = meta[i].valid /\ meta'[i].type = meta[i].type
      /\ meta'[i].parent = meta[i].parent /\ meta'[i].name = meta[i].name
      /\ meta'[i].total_size = size
  <2>1. \/ meta' = [meta EXCEPT ![i].total_size = size]
        \/ meta' = [meta EXCEPT ![i].start_index = 0, ![i].total_size = size]
        \/ \E n : meta' = [meta EXCEPT ![i].start_index = n, ![i].total_size = size]
    BY <1>1
  <2>2. \A j \in MetaIndex \ {i} : meta'[j] = meta[j]
    BY <1>3, <1>5, <2>1
  <2>3. \/ meta'[i] = [meta[i] EXCEPT !.total_size = size]
        \/ \E n : meta'[i] = [meta[i] EXCEPT !.start_index = n, !.total_size = size]
    BY <1>3, <1>5, <2>1
  <2> QED
    BY <1>3, <2>2, <2>3 DEF MetaEntry
<1>8. \A j \in MetaIndex \ {i} : SameLinks(meta, meta', j)
  BY <1>7 DEF SameLinks
<1>9. meta' = [meta EXCEPT ![i].total_size = size]
        => SameLinks(meta, meta', i) /\ \A j \in MetaIndex : SameLinks(meta, meta', j)
  <2> SUFFICES ASSUME meta' = [meta EXCEPT ![i].total_size = size]
               PROVE  meta'[i].start_index = meta[i].start_index
    BY <1>7, <1>8 DEF SameLinks
  <2>1. meta' = Resized(meta, i, size)
    BY DEF Resized
  <2> QED
    BY <1>3, <1>5, <2>1, ResizedFields
<1>10. \A start : meta' = [meta EXCEPT ![i].start_index = start, ![i].total_size = size]
          => meta'[i].start_index = start
  <2> TAKE start
  <2> HAVE meta' = [meta EXCEPT ![i].start_index = start, ![i].total_size = size]
  <2>1. meta' = Restarted(meta, i, start, size)
    BY DEF Restarted
  <2> QED
    BY <1>3, <1>5, <2>1, ResizedFields
<1>11. ASSUME Same(s) PROVE SameBlocks(i, s, need)
  BY <1>9, <1>11 DEF SameBlocks
<1>12. ASSUME Less(s) PROVE FewerBlocks(i, s, need)
  <2>1. need # 0 => /\ s[need] \in BlockIndex
                    /\ blocks'[s[need]] = [blocks[s[need]] EXCEPT !.next = 0]
                    /\ \A b \in BlockIndex : b # s[need] => blocks'[b] = blocks[b]
    <3> SUFFICES ASSUME need # 0
                 PROVE  /\ s[need] \in BlockIndex
                        /\ blocks'[s[need]] = [blocks[s[need]] EXCEPT !.next = 0]
                        /\ \A b \in BlockIndex : b # s[need] => blocks'[b] = blocks[b]
      OBVIOUS
    <3>1. need \in 1 .. Len(s)
      BY <1>3, <1>4, <1>12
    <3> QED
      BY <1>4, <1>5, <1>12, <3>1
  <2>2. /\ need # 0 => blocks'[s[need]].next = 0
        /\ \A b \in BlockIndex : /\ blocks'[b].next \in {blocks[b].next, 0}
                                 /\ blocks'[b].items = blocks[b].items
    <3>1. CASE need = 0
      BY <1>12, <3>1
    <3>2. CASE need # 0
      BY <1>5, <2>1, <3>2 DEF Block
    <3> QED
      BY <3>1, <3>2
  <2> QED
    BY <1>9, <1>10, <1>12, <2>1, <2>2 DEF FewerBlocks
<1>13. ASSUME need > Len(s), NEW new \in allocate_blocks(free_bitmap, need - Len(s)),
              More(s, new)
       PROVE  new \in BlockSeq /\ MoreBlocks(i, s, need, new)
  <2>1. /\ need - Len(s) \in Nat /\ need - Len(s) # 0
    BY <1>3, <1>4, <1>13
  <2>2. /\ new \in BlockSeq /\ Len(new) = need - Len(s)
        /\ \A k \in 1 .. Len(new) : new[k] \in BlockIndex /\ new[k] \notin free_bitmap
    BY <2>1, Allocated
  <2>3. [k \in DOMAIN new |-> <<>>] \in [DOMAIN new -> Seq(Word)]
    OBVIOUS
  <2> DEFINE grown == Grown(new)
             x == new[1]
  <2>4. /\ grown \in [BlockIndex -> Block]
        /\ \A b \in BlockIndex : b \notin BlocksOf(new) => grown[b] = blocks[b]
        /\ \A k \in 1 .. Len(new) : grown[new[k]].next = NextIn(new, k)
    BY <1>5, <2>2, <2>3, ChainWritten
  <2> HIDE DEF Grown, grown, x
  <2>5. \A b \in free_bitmap : grown[b] = blocks[b]
    BY <1>5, <2>2, <2>4, BlockSeqType DEF BlocksOf
  <2>6. free_bitmap' = free_bitmap \cup BlocksOf(new)
    BY <1>13
  <2>7. CASE Len(s) = 0
    <3>1. /\ meta' = [meta EXCEPT ![i].start_index = x, ![i].total_size = size]
          /\ blocks' = grown
      BY <1>13, <2>7 DEF grown, x
    <3>2. meta'[i].start_index = x
      BY <1>10, <3>1
    <3> QED
      BY <1>13, <2>2, <2>4, <2>5, <2>6, <2>7, <3>1, <3>2 DEF MoreBlocks, x
  <2>8. CASE Len(s) # 0
    <3> DEFINE b == s[Len(s)]
    <3>1. Len(s) \in 1 .. Len(s) /\ b \in BlockIndex /\ b \in free_bitmap
      BY <1>4, <1>6, <2>8 DEF Owns
    <3> HIDE DEF b
    <3>2. /\ meta' = [meta EXCEPT ![i].total_size = size]
          /\ blocks' = [grown EXCEPT ![b].next = x]
      BY <1>13, <2>8 DEF grown, x, b
    <3>3. /\ blocks'[b] = [grown[b] EXCEPT !.next = x]
          /\ \A c \in BlockIndex : c # b => blocks'[c] = grown[c]
      BY <2>4, <3>1, <3>2
    <3>4. blocks'[b].next = x /\ blocks'[b].items = grown[b].items
      BY <2>4, <3>1, <3>3 DEF Block
    <3>5. \A c \in free_bitmap : /\ blocks'[c].items = blocks[c].items
                                 /\ c # b => blocks'[c].next = blocks[c].next
      BY <1>5, <2>5, <3>1, <3>3, <3>4
    <3>6. \A k \in 1 .. Len(new) : blocks'[new[k]].next = NextIn(new, k)
      BY <2>2, <2>4, <3>1, <3>3
    <3>7. SameLinks(meta, meta', i)
      BY <1>9, <3>2
    <3>8. \A c \in BlockIndex : c \notin BlocksOf(new) /\ c # b => blocks'[c] = blocks[c]
      BY <2>4, <3>3
    <3> QED
      BY <1>13, <2>2, <2>6, <2>8, <3>4, <3>5, <3>6, <3>7, <3>8 DEF MoreBlocks, x, b
  <2> QED
    BY <2>2, <2>7, <2>8
<1>14. \/ SameBlocks(i, s, need)
       \/ FewerBlocks(i, s, need)
       \/ \E new \in BlockSeq : MoreBlocks(i, s, need, new)
  BY <1>1, <1>11, <1>12, <1>13
<1> QED
  BY <1>2, <1>3, <1>7, <1>14 DEF i, need

LEMMA TruncateInv ==
  ASSUME Inv, TypeOK', NEW p \in ClientPath, NEW size \in Size, file_truncate(p, size)
  PROVE  Inv'
<1> DEFINE i == path_index[p]
           need == BlocksFor(size)
<1>1. /\ i \in MetaIndex /\ i \in Live(meta) /\ meta[i].type = FILE
      /\ need \in Nat /\ UNCHANGED path_index
      /\ \A j \in MetaIndex \ {i} : meta'[j] = meta[j]
      /\ meta'[i].valid = meta[i].valid /\ meta'[i].type = meta[i].type
      /\ meta'[i].parent = meta[i].parent
  BY TruncateParts
<1>2. PICK s \in Chains(blocks, meta[i].start_index) :
         \/ SameBlocks(i, s, need)
         \/ FewerBlocks(i, s, need)
         \/ \E new \in BlockSeq : MoreBlocks(i, s, need, new)
  BY TruncateParts
<1> HIDE DEF i, need
<1>3. TypeOK /\ Structure
  BY InvParts
<1>4. /\ s \in BlockSeq /\ Len(s) \in Nat /\ \A k \in 1 .. Len(s) : s[k] \in BlockIndex
  BY BlockSeqType DEF Chains
<1>5. /\ meta \in [MetaIndex -> MetaEntry] /\ meta' \in [MetaIndex -> MetaEntry]
      /\ blocks \in [BlockIndex -> Block] /\ blocks' \in [BlockIndex -> Block]
      /\ free_bitmap \in SUBSET BlockIndex /\ free_bitmap' \in SUBSET BlockIndex
      /\ WellLinked(meta, free_bitmap, blocks) /\ AllListOwn(meta, blocks)
  BY <1>3 DEF TypeOK, Structure
<1>6. Owns(meta, free_bitmap, blocks, i, s)
  BY <1>1, <1>5, ChainOwned
<1>7. \A j \in MetaIndex \ {i} : SameLinks(meta, meta', j)
  BY <1>1 DEF SameLinks
<1> DEFINE Keeps == /\ WellLinked(meta', free_bitmap', blocks')
                    /\ \A b \in free_bitmap : blocks'[b].items = blocks[b].items
<1>8. ASSUME SameBlocks(i, s, need) PROVE Keeps
  <2>1. Cut(blocks, blocks) /\ \A j \in MetaIndex : SameLinks(meta, meta', j)
    BY <1>7, <1>8 DEF Cut, SameBlocks
  <2>2. free_bitmap' = free_bitmap /\ blocks' = blocks
    BY <1>8 DEF SameBlocks
  <2> QED
    BY <1>5, <2>1, <2>2, CutLinked
<1>9. ASSUME FewerBlocks(i, s, need) PROVE Keeps
  <2>1. Cut(blocks, blocks') /\ \A b \in free_bitmap : blocks'[b].items = blocks[b].items
    BY <1>5, <1>9 DEF Cut, FewerBlocks
  <2>2. KeepsHead(meta, meta', blocks', i, s, need)
    <3>1. CASE need = 0
      BY <1>1, <1>7, <1>9, <3>1 DEF KeepsHead, FewerBlocks
    <3>2. CASE need # 0
      BY <1>7, <1>9, <3>2 DEF KeepsHead, FewerBlocks
    <3> QED
      BY <3>1, <3>2
  <2>3. need \in 0 .. Len(s) /\ free_bitmap' = free_bitmap \ Behind(s, need)
    BY <1>1, <1>4, <1>9 DEF FewerBlocks
  <2>4. WellLinked(meta', free_bitmap \ Behind(s, need), blocks')
    BY <1>1, <1>5, <2>1, <2>2, <2>3, TailFreed
  <2> QED
    BY <2>1, <2>3, <2>4
<1>10. ASSUME NEW new \in BlockSeq, MoreBlocks(i, s, need, new) PROVE Keeps
\* The new chain first, with the table and the link of the last block as before.
  <2> DEFINE all == free_bitmap \cup BlocksOf(new)
             x == new[1]
             last == s[Len(s)]
             grown == IF Len(s) = 0 THEN blocks' ELSE [blocks' EXCEPT ![last] = blocks[last]]
  <2>1. /\ Len(new) >= 1
        /\ \A k \in 1 .. Len(new) : /\ new[k] \in BlockIndex /\ new[k] \notin free_bitmap
                                    /\ blocks'[new[k]].next = NextIn(new, k)
        /\ free_bitmap' = all
        /\ \A b \in free_bitmap : blocks'[b].items = blocks[b].items
    BY <1>1, <1>4, <1>10 DEF MoreBlocks
  <2>2. Len(s) # 0 => last \in BlockIndex /\ last \in free_bitmap
    <3> SUFFICES ASSUME Len(s) # 0 PROVE last \in BlockIndex /\ last \in free_bitmap
      OBVIOUS
    <3>1. Len(s) \in 1 .. Len(s)
      BY <1>4
    <3> QED
      BY <1>4, <1>6, <3>1 DEF Owns
  <2>3. /\ Len(s) = 0 => grown = blocks'
        /\ Len(s) # 0 => /\ grown[last] = blocks[last]
                         /\ \A b \in BlockIndex : b # last => grown[b] = blocks'[b]
    BY <1>5, <2>2
  <2>4. grown \in [BlockIndex -> Block]
    BY <1>5, <2>2
  <2> HIDE DEF all, x, last, grown
  <2>5. \A b \in free_bitmap : grown[b].next = blocks[b].next
    BY <1>5, <1>10, <2>3 DEF MoreBlocks, last
  <2>6. \A k \in 1 .. Len(new) : new[k] \notin free_bitmap /\ grown[new[k]].next = NextIn(new, k)
    BY <2>1, <2>2, <2>3
  <2>7. WellLinked(meta, all, grown) /\ Unlinked(meta, all, grown, x)
    BY <1>5, <2>1, <2>4, <2>5, <2>6, ChainAdded DEF all, x
  <2>8. all \in SUBSET BlockIndex
    BY <1>5, <2>1
  <2>9. CASE Len(s) = 0
    <3>1. blocks' = grown /\ meta'[i].start_index = x
      BY <1>10, <2>3, <2>9 DEF MoreBlocks, x
    <3>2. StartsAt(meta, meta', all, grown, i)
      <4>1. meta'[i].valid = 0 /\ meta'[i].type # DIR
        BY <1>1 DEF Live, FILE, DIR
      <4> QED
        BY <1>7, <2>7, <3>1, <4>1 DEF StartsAt, Unlinked
    <3>3. WellLinked(meta', all, grown)
      BY <1>1, <1>5, <2>4, <2>7, <2>8, <3>2, StartLinked
    <3> QED
      BY <2>1, <3>1, <3>3
  <2>10. CASE Len(s) # 0
    <3>1. /\ last \in all /\ blocks'[last].next = x /\ SameLinks(meta, meta', i)
          /\ \A c \in all : c # last => blocks'[c].next = grown[c].next
      BY <1>10, <2>2, <2>3, <2>8, <2>10 DEF MoreBlocks, x, last, all
    <3>2. \A j \in Live(meta) : meta[j].type = DIR => meta[j].start_index # last
      <4>1. Len(s) \in 1 .. Len(s)
        BY <1>4, <2>10
      <4> QED
        BY <1>1, <1>6, <4>1 DEF Owns, last, FILE, DIR
    <3>3. WellLinked(meta, all, blocks')
      BY <1>5, <2>4, <2>7, <2>8, <3>1, <3>2, NextLinked
    <3>4. Cut(blocks', blocks') /\ \A j \in MetaIndex : SameLinks(meta, meta', j)
      BY <1>7, <3>1 DEF Cut
    <3>5. WellLinked(meta', all, blocks')
      BY <1>5, <2>8, <3>3, <3>4, CutLinked
    <3> QED
      BY <2>1, <3>5
  <2> QED
    BY <2>9, <2>10
<1>11. Keeps
  BY <1>2, <1>8, <1>9, <1>10
<1>12. AllListOwn(meta', blocks')
  <2>1. \A d \in Live(meta) : IsDirWithBlock(meta, d) => Items(meta, blocks', d) = Items(meta, blocks, d)
    BY <1>5, <1>11, DirItemsKept
  <2>2. \A j \in MetaIndex : /\ meta'[j].valid = meta[j].valid /\ meta'[j].type = meta[j].type
                             /\ meta'[j].parent = meta[j].parent
                             /\ meta[j].type = DIR => meta'[j].start_index = meta[j].start_index
    BY <1>1 DEF FILE, DIR
  <2> QED
    BY <1>5, <2>1, <2>2, ListsSame
<1>13. Index'
  BY <1>1, IndexSame
<1> QED
  BY <1>11, <1>12, <1>13 DEF Inv, AllListOwn, Index

\* The entry taken out of its parent's block, under its new name and parent.
LEMMA MovedLinked ==
  ASSUME Inv, NEW p \in ClientPath, NEW q \in ClientPath, MayRename(p, q),
         NEW r \in dir_remove_child(Volume, meta[path_index[p]].parent, path_index[p])
  PROVE  LET i == path_index[p]
             to == path_index[PrefixPath(q)]
             v == Moved(p, q, r)
         IN  /\ i \in Live(meta) /\ i # Root /\ to \in Live(meta) /\ meta[i].parent \in MetaIndex
             /\ v \in Vol
             /\ WellLinked(v.meta, v.free_bitmap, v.blocks)
             /\ AllListOwn(v.meta, v.blocks) /\ Unlisted(v.meta, v.blocks, i)
             /\ Live(v.meta) = Live(meta) /\ v.meta[i].parent = to
             /\ \A j \in MetaIndex : v.meta[j].type = meta[j].type
             /\ \A j \in MetaIndex \ {i} : v.meta[j] = meta[j]
             /\ v.meta[i].name = Basename(q) /\ v.meta[i].total_size = meta[i].total_size
             /\ v.meta[i].start_index = meta[i].start_index
             /\ v.free_bitmap = free_bitmap /\ v.blocks = r.vol.blocks
<1> DEFINE i == path_index[p]
           to == path_index[PrefixPath(q)]
           v == Moved(p, q, r)
<1>1. TypeOK /\ Structure /\ Index
  BY InvParts
<1>2. i \in MetaIndex /\ meta[i].parent \in MetaIndex /\ to \in MetaIndex /\ v \in Vol
  BY <1>1, MovedTyped
<1>3. i \in Live(meta) /\ to \in Live(meta) /\ i # Root
  <2>1. i \in Live(meta) /\ to \in Live(meta)
    BY <1>2 DEF MayRename, Live
  <2>2. meta[Root].parent = 0 /\ 0 \notin MetaIndex
    BY <1>1, SizesAssumption DEF Index, RootAlive, MetaIndex
  <2> QED
    BY <1>2, <2>1, <2>2
<1>4. Volume \in Vol /\ Volume.meta = meta /\ Volume.blocks = blocks
      /\ Volume.free_bitmap = free_bitmap
  BY <1>1, VolumeTyped DEF Volume
<1>5. /\ r.vol \in Vol /\ r.vol.meta = meta /\ r.vol.free_bitmap = free_bitmap
      /\ Cut(blocks, r.vol.blocks)
      /\ AllListOwn(meta, r.vol.blocks) /\ Unlisted(meta, r.vol.blocks, i)
  BY <1>2, <1>4, TakenOut
<1>6. v.meta = [meta EXCEPT ![i].name = Basename(q), ![i].parent = to]
      /\ v.free_bitmap = free_bitmap /\ v.blocks = r.vol.blocks
  BY <1>5 DEF Moved, Vol
<1> DEFINE e == meta[i]
           name == Basename(q)
<1>7. e \in MetaEntry /\ v.meta[i] = [e EXCEPT !.name = name, !.parent = to]
      /\ \A j \in MetaIndex \ {i} : v.meta[j] = meta[j]
  BY <1>1, <1>2, <1>6 DEF TypeOK
<1> HIDE DEF e, v, to, i, name
<1>8. /\ v.meta[i].valid = e.valid /\ v.meta[i].type = e.type
      /\ v.meta[i].start_index = e.start_index /\ v.meta[i].parent = to
      /\ v.meta[i].name = name /\ v.meta[i].total_size = e.total_size
  BY <1>7 DEF MetaEntry
<1>9. \A j \in MetaIndex : SameLinks(meta, v.meta, j)
  BY <1>7, <1>8 DEF SameLinks, e
<1>10. /\ meta \in [MetaIndex -> MetaEntry] /\ v.meta \in [MetaIndex -> MetaEntry]
       /\ free_bitmap \in SUBSET BlockIndex
       /\ blocks \in [BlockIndex -> Block] /\ v.blocks \in [BlockIndex -> Block]
  BY <1>1, <1>2 DEF TypeOK, Vol
<1>11. WellLinked(v.meta, v.free_bitmap, v.blocks) /\ Live(v.meta) = Live(meta)
  <2>1. WellLinked(meta, free_bitmap, blocks) /\ Cut(blocks, v.blocks)
    BY <1>1, <1>5, <1>6 DEF Structure
  <2>2. WellLinked(v.meta, free_bitmap, v.blocks) /\ Live(v.meta) = Live(meta)
    BY <1>9, <1>10, <2>1, CutLinked
  <2> QED
    BY <1>6, <2>2
<1>12. AllListOwn(v.meta, v.blocks) /\ Unlisted(v.meta, v.blocks, i)
  <2>1. \A j \in MetaIndex \ {i} : SameLinks(meta, v.meta, j) /\ v.meta[j].parent = meta[j].parent
    BY <1>7, <1>9
  <2>2. IsDirWithBlock(v.meta, i) => i \in Live(meta) /\ SameLinks(meta, v.meta, i)
    BY <1>2, <1>3, <1>9
  <2>3. \A d \in Live(meta) : IsDirWithBlock(meta, d)
           => Items(meta, v.blocks, d) = Items(meta, r.vol.blocks, d)
    BY <1>6
  <2>4. AllListOwn(meta, r.vol.blocks) /\ Unlisted(meta, r.vol.blocks, i)
    BY <1>5
  <2> QED
    BY <1>2, <1>10, <2>1, <2>2, <2>3, <2>4, ListsKept
<1>13. \A j \in MetaIndex : v.meta[j].type = meta[j].type
  BY <1>9 DEF SameLinks
<1> QED
  BY <1>2, <1>3, <1>6, <1>7, <1>8, <1>11, <1>12, <1>13 DEF i, to, v, e, name

LEMMA RenameInv ==
  ASSUME Inv, TypeOK', NEW p \in ClientPath, NEW q \in ClientPath, file_rename(p, q)
  PROVE  Inv'
<1> DEFINE i == path_index[p]
           to == path_index[PrefixPath(q)]
<1>1. PICK r \in dir_remove_child(Volume, meta[i].parent, i) :
        \E a \in dir_add_child(Moved(p, q, r), to, i) :
           Becomes(a.vol) /\ path_index' = rebuild_path_index(meta')
  BY DEF file_rename
<1>2. PICK a \in dir_add_child(Moved(p, q, r), to, i) :
           Becomes(a.vol) /\ path_index' = rebuild_path_index(meta')
  BY <1>1
<1> DEFINE v == Moved(p, q, r)
<1>3. MayRename(p, q) /\ Index
  BY InvParts DEF file_rename
<1>4. /\ i \in Live(meta) /\ i # Root /\ to \in Live(meta)
      /\ v \in Vol
      /\ WellLinked(v.meta, v.free_bitmap, v.blocks)
      /\ AllListOwn(v.meta, v.blocks) /\ Unlisted(v.meta, v.blocks, i)
      /\ Live(v.meta) = Live(meta) /\ v.meta[i].parent = to
      /\ \A j \in MetaIndex \ {i} : v.meta[j] = meta[j]
  BY <1>3, MovedLinked
<1> HIDE DEF v, to, i
<1>5. a \in dir_add_child(v, to, i) /\ i \in Live(v.meta) /\ to \in Live(v.meta)
      /\ i \in MetaIndex
  BY <1>2, <1>4 DEF v, Live
<1>6. /\ WellLinked(a.vol.meta, a.vol.free_bitmap, a.vol.blocks)
      /\ Live(a.vol.meta) = Live(v.meta)
      /\ \A j \in MetaIndex : /\ a.vol.meta[j].type = v.meta[j].type
                              /\ a.vol.meta[j].parent = v.meta[j].parent
  BY <1>4, <1>5, AddChildLinked
<1>7. AllListOwn(a.vol.meta, a.vol.blocks)
  BY <1>4, <1>5, AddChildLists
<1>8. Structure'
  BY <1>2, <1>6, <1>7 DEF Becomes, Structure
<1>9. Root \in MetaIndex \ {i} /\ Root \in Live(meta)
  BY <1>3, <1>4, SizesAssumption DEF Index, RootAlive, IsDir, Live, Root, MetaIndex
<1>10. /\ meta'[Root].valid = meta[Root].valid /\ meta'[Root].type = meta[Root].type
       /\ meta'[Root].parent = meta[Root].parent
  <2>1. Root \in Live(meta')
    BY <1>2, <1>4, <1>6, <1>9 DEF Becomes
  <2> QED
    BY <1>2, <1>4, <1>6, <1>9, <2>1 DEF Becomes, Live
<1>11. Index'
  BY <1>2, <1>3, <1>9, <1>10, IndexRebuilt DEF Index, RootAlive, IsDir
<1> QED
  BY <1>8, <1>11 DEF Inv, Structure, AllListOwn, Index

LEMMA RenameFailsInv ==
  ASSUME Inv, TypeOK', NEW p \in ClientPath, NEW q \in ClientPath, file_rename_fails(p, q)
  PROVE  Inv'
<1> DEFINE i == path_index[p]
           to == path_index[PrefixPath(q)]
           from == meta[i].parent
           Back(a) == [a.vol EXCEPT !.meta[i].parent = from]
<1>1. PICK r \in dir_remove_child(Volume, from, i) :
         /\ r.ok
         /\ \E a \in dir_add_child(Moved(p, q, r), to, i) :
              ~a.ok /\ \E b \in dir_add_child(Back(a), from, i) : Becomes(b.vol)
  BY DEF file_rename_fails
<1>2. PICK a \in dir_add_child(Moved(p, q, r), to, i) :
              ~a.ok /\ \E b \in dir_add_child(Back(a), from, i) : Becomes(b.vol)
  BY <1>1
<1> DEFINE v == Moved(p, q, r)
           u == Back(a)
<1>3. MayRename(p, q) /\ TypeOK /\ Structure /\ Index /\ UNCHANGED path_index
  BY InvParts DEF file_rename_fails
<1>4. /\ i \in Live(meta) /\ i # Root /\ to \in Live(meta) /\ from \in MetaIndex
      /\ v \in Vol
      /\ WellLinked(v.meta, v.free_bitmap, v.blocks)
      /\ AllListOwn(v.meta, v.blocks) /\ Unlisted(v.meta, v.blocks, i)
      /\ Live(v.meta) = Live(meta) /\ v.meta[i].parent = to
      /\ \A j \in MetaIndex \ {i} : v.meta[j] = meta[j]
  BY <1>3, MovedLinked
<1> HIDE DEF v
<1>5. i \in MetaIndex /\ to \in MetaIndex /\ a.vol = v
  <2>1. i \in MetaIndex /\ to \in MetaIndex
    BY <1>4 DEF Live
  <2>2. a \in dir_add_child(v, to, i)
    BY DEF v
  <2> HIDE DEF i, to
  <2> QED
    BY <1>2, <1>4, <2>1, <2>2, AddChild DEF AddFails, AddLists, AddAllocates
\* The old parent listed the entry, so it is in use and has a block.
<1>6. from \in Live(meta)
  <2>1. Volume \in Vol /\ Volume.meta = meta
    BY <1>3, VolumeTyped DEF Volume
  <2>2. PICK w \in dir_block_read(Volume, from) : RemoveFails(Volume, from, i, r, w)
                                               \/ RemoveUnlists(Volume, from, i, r, w)
    BY <1>4, <1>5, <2>1, RemoveChild
  <2>3. meta[from].start_index # 0
    BY <1>1, <2>1, <2>2, SizesAssumption DEF RemoveFails, RemoveUnlists, BlockIndex
  <2> QED
    BY <1>3, <1>4, <2>3 DEF Structure, WellLinked
<1> HIDE DEF i, to, from
<1>7. u = [v EXCEPT !.meta[i].parent = from]
  BY <1>5
<1>8. /\ v.meta \in [MetaIndex -> MetaEntry] /\ v.blocks \in [BlockIndex -> Block]
      /\ v.free_bitmap \in SUBSET BlockIndex /\ v.meta[i] \in MetaEntry
  BY <1>4, <1>5 DEF Vol
<1>9. /\ u.meta = [v.meta EXCEPT ![i].parent = from]
      /\ u.free_bitmap = v.free_bitmap /\ u.blocks = v.blocks
  BY <1>4, <1>7 DEF Vol
<1>10. [v.meta[i] EXCEPT !.parent = from] \in MetaEntry
  <2>1. from \in 0 .. NM
    BY <1>4, SizesAssumption DEF MetaIndex
  <2> QED
    BY <1>8, <2>1 DEF MetaEntry
<1>11. u.meta \in [MetaIndex -> MetaEntry]
       /\ u.meta[i] = [v.meta[i] EXCEPT !.parent = from]
       /\ \A j \in MetaIndex \ {i} : u.meta[j] = v.meta[j]
  BY <1>5, <1>8, <1>9, <1>10
<1>12. u \in Vol
  BY <1>4, <1>7, <1>9, <1>11 DEF Vol
<1> HIDE DEF u, Back
<1>13. /\ u.meta[i].valid = v.meta[i].valid /\ u.meta[i].type = v.meta[i].type
       /\ u.meta[i].start_index = v.meta[i].start_index /\ u.meta[i].parent = from
  BY <1>8, <1>11 DEF MetaEntry
<1>14. \A j \in MetaIndex : SameLinks(v.meta, u.meta, j)
  BY <1>11, <1>13 DEF SameLinks
<1>15. WellLinked(u.meta, u.free_bitmap, u.blocks) /\ Live(u.meta) = Live(meta)
  <2>1. Cut(v.blocks, v.blocks)
    BY DEF Cut
  <2>2. WellLinked(u.meta, v.free_bitmap, v.blocks) /\ Live(u.meta) = Live(v.meta)
    BY <1>4, <1>8, <1>11, <1>14, <2>1, CutLinked
  <2> QED
    BY <1>4, <1>9, <2>2
<1>16. AllListOwn(u.meta, u.blocks) /\ Unlisted(u.meta, u.blocks, i)
  <2>1. \A j \in MetaIndex \ {i} : SameLinks(v.meta, u.meta, j) /\ u.meta[j].parent = v.meta[j].parent
    BY <1>11, <1>14
  <2>2. IsDirWithBlock(u.meta, i) => i \in Live(v.meta) /\ SameLinks(v.meta, u.meta, i)
    BY <1>4, <1>5, <1>14
  <2>3. \A d \in Live(v.meta) : IsDirWithBlock(v.meta, d)
           => Items(v.meta, u.blocks, d) = Items(v.meta, v.blocks, d)
    BY <1>9
  <2> QED
    BY <1>4, <1>5, <1>8, <1>11, <2>1, <2>2, <2>3, ListsKept
<1>17. PICK b \in dir_add_child(u, from, i) : Becomes(b.vol)
  BY <1>2 DEF u
<1>18. i \in Live(u.meta) /\ from \in Live(u.meta)
  BY <1>4, <1>6, <1>15
<1>19. /\ WellLinked(b.vol.meta, b.vol.free_bitmap, b.vol.blocks)
       /\ Live(b.vol.meta) = Live(u.meta)
       /\ \A j \in MetaIndex : /\ b.vol.meta[j].type = u.meta[j].type
                               /\ b.vol.meta[j].parent = u.meta[j].parent
  BY <1>5, <1>12, <1>15, <1>17, <1>18, AddChildLinked
<1>20. AllListOwn(b.vol.meta, b.vol.blocks)
  BY <1>12, <1>13, <1>15, <1>16, <1>17, <1>18, AddChildLists
<1>21. Structure'
  BY <1>17, <1>19, <1>20 DEF Becomes, Structure
<1>22. Live(meta') = Live(meta)
  BY <1>15, <1>17, <1>19 DEF Becomes
<1>23. Root \in MetaIndex \ {i} /\ Root \in Live(meta)
  BY <1>3, <1>4, SizesAssumption DEF Index, RootAlive, IsDir, Live, Root, MetaIndex
<1>24. meta'[Root].valid = 0 /\ meta'[Root].type = meta[Root].type
       /\ meta'[Root].parent = meta[Root].parent
  BY <1>4, <1>11, <1>17, <1>19, <1>22, <1>23 DEF Becomes, Live
<1>25. Index'
  BY <1>3, <1>22, <1>24 DEF Index, IndexedEntriesLive, RootAlive, IsDir
<1> QED
  BY <1>21, <1>25 DEF Inv, Structure, AllListOwn, Index

-----------------------------------------------------------------------------
(* The invariant holds at the start and is kept by every call. *)

LEMMA InitInv == Init => Inv
<1> SUFFICES ASSUME Init PROVE Inv
  OBVIOUS
<1>1. TypeOK
  BY InitTyped
<1>2. /\ Root \in MetaIndex
      /\ meta[Root].valid = 0 /\ meta[Root].type = DIR /\ meta[Root].parent = 0
      /\ \A i \in MetaIndex : meta[i].start_index = 0
      /\ \A i \in MetaIndex \ {Root} : meta[i].valid = 1
  <2>1. Root \in MetaIndex
    BY SizesAssumption DEF Root, MetaIndex
  <2>2. \A i \in MetaIndex \ {Root} : meta[i] = FreshEntry
    BY DEF Init
  <2>3. meta[Root] = [FreshEntry EXCEPT !.valid = 0, !.type = DIR, !.name = "root"]
    BY <2>1 DEF Init
  <2>4. FreshEntry.valid = 1 /\ FreshEntry.start_index = 0
    BY DEF FreshEntry
  <2>5. /\ meta[Root].valid = 0 /\ meta[Root].type = DIR /\ meta[Root].parent = 0
        /\ meta[Root].start_index = 0
    BY <2>3 DEF FreshEntry
  <2>6. \A i \in MetaIndex \ {Root} : meta[i].valid = 1 /\ meta[i].start_index = 0
    BY <2>2, <2>4
  <2> QED
    BY <2>1, <2>5, <2>6
<1>3. Live(meta) = {Root}
  BY <1>2 DEF Live
<1>4. Structure
  <2>1. free_bitmap = {}
    BY DEF Init
  <2>2. WellLinked(meta, free_bitmap, blocks)
    BY <1>2, <1>3, <2>1 DEF WellLinked
  <2>3. AllListOwn(meta, blocks)
    BY <1>2, <1>3 DEF AllListOwn, ListsOwn
  <2> QED
    BY <2>2, <2>3 DEF Structure
<1>5. Index
  <2>1. DOMAIN path_index = {RootPath} /\ path_index[RootPath] = Root
    BY DEF Init
  <2> QED
    BY <1>2, <1>3, <2>1 DEF Index, IndexedEntriesLive, RootAlive, IsDir
<1> QED
  BY <1>1, <1>4, <1>5, InvParts

LEMMA NextInv == Inv /\ [Next]_vars => Inv'
<1> SUFFICES ASSUME Inv, [Next]_vars PROVE Inv'
  OBVIOUS
<1>0. TypeOK'
  <2>1. TypeOK
    BY InvParts
  <2> QED
    BY <2>1, NextTyped
<1>1. CASE UNCHANGED vars
  <2>1. UNCHANGED <<meta, free_bitmap, blocks, path_index>>
    BY <1>1 DEF vars
  <2>2. (Live(meta))' = Live(meta) /\ IsDir(Root)' = IsDir(Root)
    BY <2>1 DEF Live, IsDir
  <2>3. IndexedEntriesLive' /\ RootAlive'
    BY <2>1, <2>2 DEF Inv, IndexedEntriesLive, RootAlive
  <2> QED
    BY <1>0, <2>1, <2>3 DEF Inv
<1>2. ASSUME NEW p \in ClientPath, NEW size \in Size, file_create(p, size) PROVE Inv'
  BY <1>0, <1>2, CreateInv
<1>3. ASSUME NEW p \in ClientPath, NEW size \in Size, file_create_no_space(p, size)
      PROVE  Inv'
  BY <1>0, <1>3, CreateNoSpaceInv
<1>4. ASSUME NEW p \in ClientPath, file_delete(p) PROVE Inv'
  BY <1>0, <1>4, DeleteInv
<1>5. ASSUME NEW p \in ClientPath, NEW pos \in Size, file_edit(p, pos) PROVE Inv'
  BY <1>0, <1>5, EditInv
<1>6. ASSUME NEW p \in ClientPath, NEW size \in Size, file_truncate(p, size) PROVE Inv'
  BY <1>0, <1>6, TruncateInv
<1>7. ASSUME NEW p \in ClientPath, dir_create(p) PROVE Inv'
  BY <1>0, <1>7, DirCreateInv
<1>8. ASSUME NEW p \in ClientPath, dir_delete(p) PROVE Inv'
  BY <1>0, <1>8, DirDeleteInv
<1>9. ASSUME NEW p \in ClientPath, NEW q \in ClientPath, file_rename(p, q) PROVE Inv'
  BY <1>0, <1>9, RenameInv
<1>10. ASSUME NEW p \in ClientPath, NEW q \in ClientPath, file_rename_fails(p, q)
       PROVE  Inv'
  BY <1>0, <1>10, RenameFailsInv
<1> QED
  BY <1>1, <1>2, <1>3, <1>4, <1>5, <1>6, <1>7, <1>8, <1>9, <1>10 DEF Next

-----------------------------------------------------------------------------
(* What follows for every number of slots and blocks, every block size, every *)
(* set of paths, sizes and data, and every sequence of calls.                  *)

\* No sequence of calls breaks the structures of the instance: block links have
\* one predecessor each, directories list their own entries, the index leads to
\* entries in use (all of core/ofs_core.cpp's file_* and dir_* calls).
THEOREM InvCorrect == Spec => []Inv
<1>1. Init => Inv
  BY InitInv
<1>2. Inv /\ [Next]_vars => Inv'
  BY NextInv
<1> QED
  BY <1>1, <1>2, PTL DEF Spec

\* Two chains from different entries never meet.
LEMMA InvOwnedOnce == Inv => BlocksOwnedOnce
<1> SUFFICES ASSUME Inv PROVE BlocksOwnedOnce
  OBVIOUS
<1>1. /\ meta \in [MetaIndex -> MetaEntry] /\ free_bitmap \in SUBSET BlockIndex
      /\ blocks \in [BlockIndex -> Block] /\ WellLinked(meta, free_bitmap, blocks)
  BY DEF Inv, TypeOK
<1>2. ASSUME NEW i \in Live(meta), NEW s \in ChainOfEntry(i)
      PROVE  BlocksOf(s) \subseteq free_bitmap
  <2>1. s \in Chains(blocks, meta[i].start_index)
    BY <1>2 DEF ChainOfEntry
  <2>2. Owns(meta, free_bitmap, blocks, i, s)
    BY <1>1, <1>2, <2>1, ChainOwned
  <2> QED
    BY <2>2 DEF Owns, BlocksOf
<1>3. ASSUME NEW i \in Live(meta), NEW j \in Live(meta), i # j,
             NEW s \in ChainOfEntry(i), NEW t \in ChainOfEntry(j)
      PROVE  BlocksOf(s) \cap BlocksOf(t) = {}
  <2>1. /\ s \in Chains(blocks, meta[i].start_index)
        /\ t \in Chains(blocks, meta[j].start_index)
    BY <1>3 DEF ChainOfEntry
  <2> QED
    BY <1>1, <1>3, <2>1, ChainsDisjoint
<1> QED
  BY <1>2, <1>3 DEF BlocksOwnedOnce

\* The chains of two entries never share a block and are marked in the bitmap:
\* allocate_blocks never hands out a block of a file or directory in use.
THEOREM BlocksOwnedOnceCorrect == Spec => []BlocksOwnedOnce
  BY InvOwnedOnce, InvCorrect, PTL

\* A directory lists entries in use of its own, each once: no listing shows an
\* entry deleted, moved away, or created anew in a recycled slot elsewhere.
THEOREM ChildrenMatchParentsCorrect == Spec => []ChildrenMatchParents
<1>1. Inv => ChildrenMatchParents
  <2> SUFFICES ASSUME Inv, NEW d \in MetaIndex, IsDir(d), NEW c \in dir_block_read(Volume, d),
                      NEW k \in DOMAIN c
               PROVE  /\ c[k] \in Live(meta) /\ meta[c[k]].parent = d
                      /\ \A l \in DOMAIN c : c[l] = c[k] => l = k
    BY DEF ChildrenMatchParents
  <2>1. /\ Volume \in Vol /\ Volume.meta = meta /\ Volume.blocks = blocks
        /\ WellLinked(Volume.meta, free_bitmap, Volume.blocks)
    BY VolumeTyped DEF Volume, Inv
  <2>2. d \in Live(Volume.meta) /\ Volume.meta[d].type = DIR
    BY <2>1 DEF IsDir, Live
  <2>3. /\ c \in Seq(Word)
        /\ meta[d].start_index = 0 => c = <<>>
        /\ meta[d].start_index # 0 => c = Items(meta, blocks, d)
    <3>1. /\ c \in Seq(Word)
          /\ Volume.meta[d].start_index = 0 => c = <<>>
          /\ Volume.meta[d].start_index # 0 => c = Items(Volume.meta, Volume.blocks, d)
      BY <2>1, <2>2, DirRead
    <3> QED
      BY <2>1, <3>1
  <2>4. meta[d].start_index # 0
    BY <2>3
  <2>5. ListsOwn(meta, blocks, d)
    BY <2>1, <2>2 DEF Inv
  <2> QED
    BY <2>1, <2>2, <2>3, <2>4, <2>5 DEF ListsOwn, Items
<1> QED
  BY <1>1, InvCorrect, PTL

\* The path index leads only to entries in use, and to each by one path: every
\* call that frees, moves or renames an entry rebuilds or corrects the index.
THEOREM IndexedEntriesLiveCorrect == Spec => []IndexedEntriesLive
<1>1. Inv => IndexedEntriesLive
  BY DEF Inv
<1> QED
  BY <1>1, InvCorrect, PTL

\* The root keeps its slot, its kind and its path: no call deletes, renames or
\* truncates it, though file_rename has no check of its own for the root.
THEOREM RootAliveCorrect == Spec => []RootAlive
<1>1. Inv => RootAlive
  BY DEF Inv
<1> QED
  BY <1>1, InvCorrect, PTL
-----------------------------------------------------------------------------
(* Every chain ends.  A rank that falls along the next pointers of the blocks *)
(* in use rules out a loop; each call leaves such a rank.                      *)

Ranks(rank, used, blk) ==
  \A b \in used : blk[b].next # 0 => rank[blk[b].next] < rank[b]

Ranked(used, blk) == \E rank \in [BlockIndex -> Nat] : Ranks(rank, used, blk)

\* A block in use links to blocks in use only: part of WellLinked.
Closed(used, blk) == \A b \in used : blk[b].next # 0 => blk[b].next \in used

\* No link is new: one that is there was there before.
NoNewLink(used, blk, used2, blk2) ==
  \A b \in used2 : blk2[b].next # 0 => b \in used /\ blk2[b].next = blk[b].next

LEMMA RankKept ==
  ASSUME NEW used, NEW blk, NEW used2, NEW blk2,
         Ranked(used, blk), NoNewLink(used, blk, used2, blk2)
  PROVE  Ranked(used2, blk2)
  BY DEF Ranked, Ranks, NoNewLink

LEMMA NoNewLinkTrans ==
  ASSUME NEW u1, NEW b1, NEW u2, NEW b2, NEW u3, NEW b3,
         NoNewLink(u1, b1, u2, b2), NoNewLink(u2, b2, u3, b3)
  PROVE  NoNewLink(u1, b1, u3, b3)
  BY DEF NoNewLink

\* Cutting links and freeing blocks adds no link.
LEMMA CutNoNewLink ==
  ASSUME NEW used \in SUBSET BlockIndex, NEW used2 \in SUBSET used, NEW blk, NEW blk2,
         Cut(blk, blk2)
  PROVE  NoNewLink(used, blk, used2, blk2)
  BY DEF NoNewLink, Cut

\* dir_add_child links the directory's block to no other.
LEMMA AddNoNewLink ==
  ASSUME NEW v \in Vol, NEW p \in MetaIndex, NEW c \in MetaIndex,
         NEW r \in dir_add_child(v, p, c)
  PROVE  NoNewLink(v.free_bitmap, v.blocks, r.vol.free_bitmap, r.vol.blocks)
<1>1. AddFails(v, p, r) \/ AddLists(v, p, c, r) \/ AddAllocates(v, p, c, r)
  BY AddChild
<1>2. v.blocks \in [BlockIndex -> Block] /\ v.free_bitmap \in SUBSET BlockIndex /\ c \in Word
  BY SizesAssumption DEF Vol, Word, MetaIndex
<1>3. CASE AddFails(v, p, r)
  BY <1>3 DEF AddFails, NoNewLink
<1>4. CASE AddLists(v, p, c, r)
  <2>1. PICK w \in dir_block_read(v, p) :
           r.vol.blocks = WithChildren(v.blocks, v.meta[p].start_index, Append(w, c))
    BY <1>4 DEF AddLists
  <2>2. Append(w, c) \in Seq(Word) /\ v.meta[p].start_index \in BlockIndex
    BY <1>2, <1>4, ReadType DEF AddLists
  <2> DEFINE start == v.meta[p].start_index
             list  == Append(w, c)
  <2> HIDE DEF start, list
  <2>3. /\ r.vol.blocks[start].next = 0
        /\ \A k \in BlockIndex : k # start => r.vol.blocks[k] = v.blocks[k]
    <3>1. r.vol.blocks = WithChildren(v.blocks, start, list)
      BY <2>1 DEF start, list
    <3>2. start \in BlockIndex /\ list \in Seq(Word)
      BY <2>2 DEF start, list
    <3> QED
      BY <1>2, <3>1, <3>2, WithChildrenType
  <2>4. r.vol.free_bitmap = v.free_bitmap
    BY <1>4 DEF AddLists
  <2> QED
    BY <1>2, <2>3, <2>4 DEF NoNewLink
<1>5. CASE AddAllocates(v, p, c, r)
  <2>1. PICK b \in BlockIndex \ v.free_bitmap :
           /\ r.vol.free_bitmap = v.free_bitmap \cup {b}
           /\ r.vol.blocks = WithChildren(v.blocks, b, <<c>>)
    BY <1>5 DEF AddAllocates
  <2>2. <<c>> \in Seq(Word)
    BY <1>2
  <2> DEFINE list == <<c>>
  <2> HIDE DEF list
  <2>3. /\ r.vol.blocks[b].next = 0
        /\ \A k \in BlockIndex : k # b => r.vol.blocks[k] = v.blocks[k]
    <3>1. r.vol.blocks = WithChildren(v.blocks, b, list) /\ list \in Seq(Word)
      BY <2>1, <2>2 DEF list
    <3> QED
      BY <1>2, <2>1, <3>1, WithChildrenType
  <2> QED
    BY <1>2, <2>1, <2>3 DEF NoNewLink
<1> QED
  BY <1>1, <1>3, <1>4, <1>5

\* A new chain of free blocks, linked to from nowhere or behind a block in use.
LEMMA RankGrown ==
  ASSUME NEW used \in SUBSET BlockIndex,
         NEW blk \in [BlockIndex -> Block], NEW blk2 \in [BlockIndex -> Block],
         Ranked(used, blk), Closed(used, blk), NEW new \in BlockSeq,
         \A k \in 1 .. Len(new) : new[k] \notin used /\ blk2[new[k]].next = NextIn(new, k),
         \A b \in used : blk2[b].next \in {blk[b].next, FirstOf(new)}
  PROVE  Ranked(used \cup BlocksOf(new), blk2)
<1> DEFINE n == Len(new)
           At(b) == CHOOSE k \in 1 .. n : new[k] = b
<1>1. /\ n \in Nat /\ DOMAIN new = 1 .. n
      /\ \A k \in 1 .. n : new[k] \in BlockIndex
      /\ \A k, l \in 1 .. n : new[k] = new[l] => k = l
  BY BlockSeqType
<1>2. \A b \in BlocksOf(new) : At(b) \in 1 .. n /\ new[At(b)] = b
  BY <1>1 DEF BlocksOf
<1>3. \A k \in 1 .. n : new[k] \in BlocksOf(new) /\ At(new[k]) = k
  BY <1>1, <1>2 DEF BlocksOf
<1>4. PICK rank \in [BlockIndex -> Nat] : Ranks(rank, used, blk)
  BY DEF Ranked
<1> DEFINE up == [b \in BlockIndex |-> IF b \in BlocksOf(new) THEN n - At(b) ELSE rank[b] + n]
<1> HIDE DEF At
<1>5. up \in [BlockIndex -> Nat]
  <2>1. \A b \in BlocksOf(new) : n - At(b) \in Nat
    BY <1>1, <1>2
  <2>2. \A b \in BlockIndex : rank[b] + n \in Nat
    BY <1>1
  <2> QED
    BY <2>1, <2>2
<1>6. \A b \in used : b \in BlockIndex /\ b \notin BlocksOf(new) /\ up[b] = rank[b] + n
  BY <1>1 DEF BlocksOf
<1>7. \A k \in 1 .. n : up[new[k]] = n - k
  BY <1>1, <1>3
<1> HIDE DEF up
<1>8. ASSUME NEW b \in used, blk2[b].next # 0 PROVE up[blk2[b].next] < up[b]
  <2>1. CASE blk2[b].next = blk[b].next
    <3> DEFINE c == blk[b].next
    <3>1. c \in used /\ rank[c] < rank[b]
      BY <1>4, <1>8, <2>1 DEF Closed, Ranks
    <3> QED
      BY <1>1, <1>6, <2>1, <3>1
  <2>2. CASE blk2[b].next = FirstOf(new)
    <3>1. n # 0 /\ blk2[b].next = new[1]
      BY <1>8, <2>2 DEF FirstOf
    <3>2. 1 \in 1 .. n
      BY <1>1, <3>1
    <3> QED
      BY <1>1, <1>6, <1>7, <3>1, <3>2
  <2> QED
    BY <2>1, <2>2
<1>9. ASSUME NEW k \in 1 .. n, blk2[new[k]].next # 0 PROVE up[blk2[new[k]].next] < up[new[k]]
  <2>1. k < n /\ blk2[new[k]].next = new[k + 1]
    BY <1>9 DEF NextIn
  <2>2. k + 1 \in 1 .. n
    BY <1>1, <2>1
  <2> QED
    BY <1>1, <1>7, <2>1, <2>2
<1>10. Ranks(up, used \cup BlocksOf(new), blk2)
  <2>1. \A b \in BlocksOf(new) : \E k \in 1 .. n : b = new[k]
    BY <1>1 DEF BlocksOf
  <2> QED
    BY <1>8, <1>9, <2>1 DEF Ranks
<1> QED
  BY <1>5, <1>10 DEF Ranked

\* Distinct blocks are not more than there are blocks.
LEMMA DistinctFit ==
  ASSUME NEW n \in Nat, NEW f \in [1 .. n -> BlockIndex],
         \A k, l \in 1 .. n : f[k] = f[l] => k = l
  PROVE  n <= NB
<1>1. NB \in Nat
  BY SizesAssumption
<1>2. /\ IsFiniteSet(1 .. n) /\ Cardinality(1 .. n) = n
      /\ IsFiniteSet(BlockIndex) /\ Cardinality(BlockIndex) = NB
  <2>1. 1 \in Int /\ n \in Int /\ NB \in Int
    BY <1>1
  <2>2. /\ IsFiniteSet(1 .. n) /\ Cardinality(1 .. n) = IF 1 > n THEN 0 ELSE n - 1 + 1
        /\ IsFiniteSet(1 .. NB) /\ Cardinality(1 .. NB) = IF 1 > NB THEN 0 ELSE NB - 1 + 1
    BY <2>1, FS_Interval
  <2> QED
    BY <1>1, <2>2 DEF BlockIndex
<1>3. f \in Injection(1 .. n, BlockIndex)
  BY DEF Injection, IsInjective
<1>4. Cardinality(1 .. n) <= Cardinality(BlockIndex)
  BY <1>2, <1>3, FS_Injection
<1> QED
  BY <1>2, <1>4

\* With a rank, every walk from a block in use is a chain, and along it no rank
\* is above the first.
LEMMA WalkEnds ==
  ASSUME NEW used \in SUBSET BlockIndex, NEW blk \in [BlockIndex -> Block],
         NEW rank \in [BlockIndex -> Nat], Ranks(rank, used, blk), Closed(used, blk),
         NEW b \in used
  PROVE  \E s \in Chains(blk, b) : \A k \in 1 .. Len(s) : rank[s[k]] <= rank[b]
<1> DEFINE Below(s, c) == \A k \in 1 .. Len(s) : rank[s[k]] <= rank[c]
           Bad == {c \in used : ~ \E s \in Chains(blk, c) : Below(s, c)}
           R == {rank[c] : c \in Bad}
<1>1. SUFFICES ASSUME Bad # {} PROVE FALSE
  OBVIOUS
<1>2. R \in SUBSET Nat /\ R # {}
  BY <1>1
<1>3. PICK x \in R : \A y \in R : x <= y
  <2> HIDE DEF R
  <2> QED
    BY <1>2, LeastExists, Zenon
<1>4. PICK c \in Bad : \A d \in Bad : rank[c] <= rank[d]
  BY <1>3
<1>5. c \in used /\ c \in BlockIndex /\ ~ \E s \in Chains(blk, c) : Below(s, c)
  OBVIOUS
<1> DEFINE d == blk[c].next
\* What follows c: nothing, or a chain of lower ranks.
<1>6. \E t \in Chains(blk, d) : \A k \in 1 .. Len(t) : rank[t[k]] < rank[c]
  <2>1. CASE d = 0
    <3> DEFINE t == <<>>
    <3>1. 0 \in 0 .. NB /\ t \in [1 .. 0 -> BlockIndex] /\ DOMAIN t = {} /\ Len(t) = 0
      BY SizesAssumption
    <3>2. t \in Chains(blk, d)
      BY <2>1, <3>1 DEF Chains, BlockSeq, FirstOf
    <3> QED
      BY <3>1, <3>2
  <2>2. CASE d # 0
    <3>1. d \in used /\ d \in BlockIndex /\ rank[d] < rank[c]
      BY <1>5, <2>2 DEF Closed, Ranks
    <3>2. d \notin Bad
      <4>1. rank[c] \in Nat /\ rank[d] \in Nat
        BY <1>5, <3>1
      <4>2. d \in Bad => rank[c] <= rank[d]
        BY <1>4
      <4> HIDE DEF Bad
      <4> QED
        BY <3>1, <4>1, <4>2
    <3>3. PICK t \in Chains(blk, d) : Below(t, d)
      BY <3>1, <3>2
    <3>4. t \in BlockSeq
      BY DEF Chains
    <3>5. \A k \in 1 .. Len(t) : t[k] \in BlockIndex
      BY <3>4, BlockSeqType
    <3>6. \A k \in 1 .. Len(t) : rank[t[k]] < rank[c]
      BY <1>5, <3>1, <3>3, <3>5
    <3> QED
      BY <3>6
  <2> QED
    BY <2>1, <2>2
<1>7. PICK t \in Chains(blk, d) : \A k \in 1 .. Len(t) : rank[t[k]] < rank[c]
  BY <1>6
<1> HIDE DEF Bad, R
<1>8. /\ t \in BlockSeq /\ FirstOf(t) = d
      /\ \A k \in DOMAIN t : blk[t[k]].next = NextIn(t, k)
  BY DEF Chains
<1>9. /\ Len(t) \in Nat /\ DOMAIN t = 1 .. Len(t)
      /\ \A k \in 1 .. Len(t) : t[k] \in BlockIndex
      /\ \A k, l \in 1 .. Len(t) : t[k] = t[l] => k = l
  BY <1>8, BlockSeqType
<1> DEFINE n == Len(t) + 1
           s == [k \in 1 .. n |-> IF k = 1 THEN c ELSE t[k - 1]]
<1>10. n \in Nat /\ \A k \in 1 .. n : k # 1 => k - 1 \in 1 .. Len(t)
  BY <1>9
<1> HIDE DEF n
<1>11. /\ s \in [1 .. n -> BlockIndex] /\ DOMAIN s = 1 .. n
       /\ \A k \in 1 .. n : s[k] = IF k = 1 THEN c ELSE t[k - 1]
  BY <1>5, <1>9, <1>10
<1> HIDE DEF s
<1>12. \A k \in 1 .. n : k # 1 => s[k] # c
  <2>1. \A k \in 1 .. Len(t) : t[k] # c
    BY <1>5, <1>7
  <2> QED
    BY <1>10, <1>11, <2>1
<1>13. \A k, l \in 1 .. n : s[k] = s[l] => k = l
  <2> TAKE k, l \in 1 .. n
  <2> HAVE s[k] = s[l]
  <2>1. CASE k = 1 \/ l = 1
    BY <1>11, <1>12, <2>1
  <2>2. CASE k # 1 /\ l # 1
    <3>1. k - 1 \in 1 .. Len(t) /\ l - 1 \in 1 .. Len(t) /\ t[k - 1] = t[l - 1]
      BY <1>10, <1>11, <2>2
    <3>2. k - 1 = l - 1
      BY <1>9, <3>1
    <3> QED
      BY <1>10, <3>2
  <2> QED
    BY <2>1, <2>2
<1>14. n \in 0 .. NB
  <2>1. n \in Nat /\ s \in [1 .. n -> BlockIndex]
    BY <1>10, <1>11
  <2>2. n <= NB
    BY <1>13, <2>1, DistinctFit, Zenon
  <2> QED
    BY <2>1, <2>2, SizesAssumption
<1>15. s \in BlockSeq /\ Len(s) = n
  <2>1. s \in BlockSeq
    BY <1>11, <1>13, <1>14 DEF BlockSeq
  <2>2. Len(s) \in Nat /\ DOMAIN s = 1 .. Len(s)
    BY <2>1, BlockSeqType
  <2> QED
    BY <1>10, <1>11, <2>1, <2>2
<1>16. FirstOf(s) = c
  BY <1>9, <1>10, <1>11, <1>15 DEF FirstOf, n
<1>17. ASSUME NEW k \in 1 .. n PROVE blk[s[k]].next = NextIn(s, k)
  <2>1. CASE k = 1
    <3>1. s[k] = c
      BY <1>11, <2>1
    <3>2. CASE Len(t) = 0
      <4>1. ~(k < n)
        BY <2>1, <3>2 DEF n
      <4> QED
        BY <1>8, <1>15, <3>1, <3>2, <4>1 DEF FirstOf, NextIn
    <3>3. CASE Len(t) # 0
      <4>1. k < n /\ k + 1 \in 1 .. n /\ k + 1 # 1 /\ k + 1 - 1 = 1
        BY <1>9, <2>1, <3>3 DEF n
      <4>2. s[k + 1] = t[1]
        BY <1>11, <4>1
      <4> QED
        BY <1>8, <1>15, <3>1, <3>3, <4>1, <4>2 DEF FirstOf, NextIn
    <3> QED
      BY <3>2, <3>3
  <2>2. CASE k # 1
    <3>1. k - 1 \in 1 .. Len(t) /\ s[k] = t[k - 1]
      BY <1>10, <1>11, <2>2
    <3>2. blk[s[k]].next = NextIn(t, k - 1)
      BY <1>8, <1>9, <3>1
    <3>3. CASE k < n
      <4>1. k - 1 < Len(t) /\ k + 1 \in 1 .. n /\ k + 1 # 1 /\ k + 1 - 1 = k - 1 + 1
        BY <1>9, <3>1, <3>3 DEF n
      <4>2. s[k + 1] = t[k - 1 + 1]
        BY <1>11, <4>1
      <4> QED
        BY <1>15, <3>2, <3>3, <4>1, <4>2 DEF NextIn
    <3>4. CASE ~(k < n)
      <4>1. ~(k - 1 < Len(t))
        BY <1>9, <3>1, <3>4 DEF n
      <4> QED
        BY <1>15, <3>2, <3>4, <4>1 DEF NextIn
    <3> QED
      BY <3>3, <3>4
  <2> QED
    BY <2>1, <2>2
<1>18. s \in Chains(blk, c)
  BY <1>11, <1>15, <1>16, <1>17 DEF Chains
<1>19. \A k \in 1 .. n : rank[s[k]] <= rank[c]
  <2> TAKE k \in 1 .. n
  <2>1. rank[c] \in Nat
    BY <1>5
  <2>2. CASE k = 1
    BY <1>11, <2>1, <2>2
  <2>3. CASE k # 1
    <3>1. k - 1 \in 1 .. Len(t) /\ s[k] = t[k - 1]
      BY <1>10, <1>11, <2>3
    <3>2. rank[s[k]] \in Nat /\ rank[s[k]] < rank[c]
      BY <1>7, <1>9, <3>1
    <3> QED
      BY <2>1, <3>2
  <2> QED
    BY <2>2, <2>3
<1> QED
  BY <1>5, <1>15, <1>18, <1>19
-----------------------------------------------------------------------------
(* Every call leaves a rank. *)

LEMMA InvBlocks ==
  ASSUME Inv
  PROVE  /\ meta \in [MetaIndex -> MetaEntry] /\ free_bitmap \in SUBSET BlockIndex
         /\ blocks \in [BlockIndex -> Block] /\ WellLinked(meta, free_bitmap, blocks)
         /\ Closed(free_bitmap, blocks)
  BY DEF Inv, TypeOK, WellLinked, Closed

LEMMA CreateRanked ==
  ASSUME Inv, Ranked(free_bitmap, blocks), NEW p \in ClientPath, NEW size \in Size,
         file_create(p, size)
  PROVE  Ranked(free_bitmap', blocks')
<1> DEFINE parent == path_index[ParentPath(p)]
           E(s) == NewEntry(FILE, p, FirstOf(s), size)
           W(i, s, data) ==
             [meta |-> [meta EXCEPT ![i] = E(s)],
              free_bitmap |-> free_bitmap \cup BlocksOf(s),
              blocks |-> WriteChain(blocks, s, data)]
<1>0. PICK i \in find_free_meta_index(meta), s \in allocate_blocks(free_bitmap, BlocksFor(size)) :
           \E data \in [DOMAIN s -> Data] :
              \E r \in dir_add_child(W(i, s, data), parent, i) : Becomes(r.vol)
  BY DEF file_create
<1>1. PICK data \in [DOMAIN s -> Data] :
           \E r \in dir_add_child(W(i, s, data), parent, i) : Becomes(r.vol)
  BY <1>0
<1>2. size \in Nat /\ MayCreate(p) /\ TypeOK
  BY ClientAssumption, InvParts DEF file_create
<1>3. parent \in MetaIndex /\ i \in MetaIndex
  BY <1>2, CreatePlace DEF Live
<1>4. s \in BlockSeq /\ \A k \in 1 .. Len(s) : s[k] \in BlockIndex /\ s[k] \notin free_bitmap
  BY <1>2, Allocated, BlocksForType
<1>5. data \in [DOMAIN s -> Seq(Word)]
  BY DataAssumption DEF Word
<1> DEFINE blk2 == WriteChain(blocks, s, data)
           used2 == free_bitmap \cup BlocksOf(s)
<1>6. /\ blk2 \in [BlockIndex -> Block]
      /\ \A b \in BlockIndex : b \notin BlocksOf(s) => blk2[b] = blocks[b]
      /\ \A k \in 1 .. Len(s) : blk2[s[k]].next = NextIn(s, k)
  BY <1>4, <1>5, InvBlocks, ChainWritten
<1>7. E(s) \in MetaEntry
  BY <1>2, <1>4, FirstOfType, NewEntryType
<1> DEFINE v == W(i, s, data)
           e == E(s)
<1> HIDE DEF blk2, E
<1>8. v = [meta |-> [meta EXCEPT ![i] = e], free_bitmap |-> used2, blocks |-> blk2]
  BY DEF blk2
<1>9. PICK r \in dir_add_child(v, parent, i) : Becomes(r.vol)
  BY <1>1
<1> HIDE DEF W, v, e, parent
<1>10. v \in Vol
  <2>1. used2 \subseteq BlockIndex
    BY <1>4, InvBlocks, BlockSeqType DEF BlocksOf
  <2>2. [meta EXCEPT ![i] = e] \in [MetaIndex -> MetaEntry]
    BY <1>3, <1>7, InvBlocks DEF e
  <2> QED
    BY <1>6, <1>8, <2>1, <2>2 DEF Vol
<1>11. Ranked(used2, blk2)
  <2>1. \A b \in free_bitmap : blk2[b].next \in {blocks[b].next, FirstOf(s)}
    <3>1. DOMAIN s = 1 .. Len(s)
      BY <1>4, BlockSeqType
    <3>2. \A b \in free_bitmap : b \in BlockIndex /\ b \notin BlocksOf(s)
      BY <1>4, <3>1, InvBlocks DEF BlocksOf
    <3> QED
      BY <1>6, <3>2
  <2>2. \A k \in 1 .. Len(s) : s[k] \notin free_bitmap /\ blk2[s[k]].next = NextIn(s, k)
    BY <1>4, <1>6
  <2> QED
    BY <1>4, <1>6, <2>1, <2>2, InvBlocks, RankGrown
<1>12. NoNewLink(used2, blk2, r.vol.free_bitmap, r.vol.blocks)
  <2>1. v.free_bitmap = used2 /\ v.blocks = blk2
    BY <1>8
  <2>2. NoNewLink(v.free_bitmap, v.blocks, r.vol.free_bitmap, r.vol.blocks)
    BY <1>3, <1>9, <1>10, AddNoNewLink
  <2> QED
    BY <2>1, <2>2
<1> QED
  BY <1>9, <1>11, <1>12, RankKept DEF Becomes

LEMMA TruncateRanked ==
  ASSUME Inv, TypeOK', Ranked(free_bitmap, blocks), NEW p \in ClientPath, NEW size \in Size,
         file_truncate(p, size)
  PROVE  Ranked(free_bitmap', blocks')
<1> DEFINE i == path_index[p]
           need == BlocksFor(size)
<1>1. i \in Live(meta) /\ need \in Nat
  BY TruncateParts
<1>2. PICK s \in Chains(blocks, meta[i].start_index) :
         \/ SameBlocks(i, s, need)
         \/ FewerBlocks(i, s, need)
         \/ \E new \in BlockSeq : MoreBlocks(i, s, need, new)
  BY TruncateParts
<1> HIDE DEF i, need
<1>3. /\ s \in BlockSeq /\ Len(s) \in Nat /\ \A k \in 1 .. Len(s) : s[k] \in BlockIndex
  BY BlockSeqType DEF Chains
<1>4. blocks \in [BlockIndex -> Block] /\ blocks' \in [BlockIndex -> Block]
      /\ free_bitmap \in SUBSET BlockIndex
  BY InvBlocks DEF TypeOK
<1>5. CASE SameBlocks(i, s, need)
  BY <1>5 DEF SameBlocks
<1>6. CASE FewerBlocks(i, s, need)
  <2>1. Cut(blocks, blocks') /\ free_bitmap' \in SUBSET free_bitmap
    BY <1>6 DEF Cut, FewerBlocks
  <2>2. NoNewLink(free_bitmap, blocks, free_bitmap', blocks')
    BY <1>4, <2>1, CutNoNewLink
  <2> QED
    BY <2>2, RankKept
<1>7. ASSUME NEW new \in BlockSeq, MoreBlocks(i, s, need, new)
      PROVE  Ranked(free_bitmap', blocks')
  <2>1. Len(new) # 0 /\ FirstOf(new) = new[1] /\ free_bitmap' = free_bitmap \cup BlocksOf(new)
    BY <1>1, <1>3, <1>7 DEF MoreBlocks, FirstOf
  <2>2. /\ \A k \in 1 .. Len(new) : new[k] \notin free_bitmap /\ blocks'[new[k]].next = NextIn(new, k)
        /\ \A b \in free_bitmap : blocks'[b].next \in {blocks[b].next, FirstOf(new)}
    BY <1>7, <2>1 DEF MoreBlocks
  <2>3. Ranked(free_bitmap \cup BlocksOf(new), blocks')
    BY <1>4, <2>2, InvBlocks, RankGrown
  <2> QED
    BY <2>1, <2>3
<1> QED
  BY <1>2, <1>5, <1>6, <1>7

LEMMA DirCreateRanked ==
  ASSUME Inv, Ranked(free_bitmap, blocks), NEW p \in ClientPath, dir_create(p)
  PROVE  Ranked(free_bitmap', blocks')
<1> DEFINE parent == path_index[ParentPath(p)]
           e == NewEntry(DIR, p, 0, 0)
           W(i) == [Volume EXCEPT !.meta[i] = e]
<1>0. PICK i \in find_free_meta_index(meta) : \E r \in dir_add_child(W(i), parent, i) :
           Becomes(r.vol) \/ UNCHANGED <<free_bitmap, blocks>>
  BY DEF dir_create
<1>1. PICK r \in dir_add_child(W(i), parent, i) :
           Becomes(r.vol) \/ UNCHANGED <<free_bitmap, blocks>>
  BY <1>0
<1>2. MayCreate(p) /\ TypeOK /\ 0 \in 0 .. NB
  BY InvParts, SizesAssumption DEF dir_create
<1>3. parent \in MetaIndex /\ i \in MetaIndex
  BY <1>2, CreatePlace DEF Live
<1>4. e \in MetaEntry
  BY <1>2, NewEntryType
<1> DEFINE v == W(i)
<1> HIDE DEF e, parent
<1>5. v = [meta |-> [meta EXCEPT ![i] = e], free_bitmap |-> free_bitmap, blocks |-> blocks]
  BY DEF Volume
<1> HIDE DEF W, v
<1>6. v \in Vol /\ v.free_bitmap = free_bitmap /\ v.blocks = blocks
  <2>1. [meta EXCEPT ![i] = e] \in [MetaIndex -> MetaEntry]
    BY <1>3, <1>4, InvBlocks
  <2> QED
    BY <1>5, <2>1, InvBlocks DEF Vol
<1>7. NoNewLink(free_bitmap, blocks, r.vol.free_bitmap, r.vol.blocks)
  <2>1. r \in dir_add_child(v, parent, i)
    BY DEF v
  <2>2. NoNewLink(v.free_bitmap, v.blocks, r.vol.free_bitmap, r.vol.blocks)
    BY <1>3, <1>6, <2>1, AddNoNewLink
  <2> QED
    BY <1>6, <2>2
<1>8. CASE Becomes(r.vol)
  BY <1>7, <1>8, RankKept DEF Becomes
<1>9. CASE UNCHANGED <<free_bitmap, blocks>>
  BY <1>9
<1> QED
  BY <1>1, <1>8, <1>9

LEMMA DeleteRanked ==
  ASSUME Inv, Ranked(free_bitmap, blocks), NEW p \in ClientPath,
         file_delete(p) \/ dir_delete(p)
  PROVE  Ranked(free_bitmap', blocks')
<1> DEFINE i == path_index[p]
           F(s) == [Volume EXCEPT !.free_bitmap = @ \ BlocksOf(s)]
\* Both free blocks of a volume v of the current blocks.
<1>1. ASSUME NEW v \in Vol, v.blocks = blocks, v.free_bitmap \subseteq free_bitmap,
             NEW r \in dir_remove_child(v, meta[i].parent, i),
             i \in MetaIndex, meta[i].parent \in MetaIndex,
             free_bitmap' \subseteq r.vol.free_bitmap, blocks' = r.vol.blocks
      PROVE  Ranked(free_bitmap', blocks')
  <2>1. r.vol.free_bitmap = v.free_bitmap /\ Cut(blocks, blocks')
    BY <1>1, RemoveChild, RemoveCuts
  <2>2. free_bitmap' \in SUBSET free_bitmap
    BY <1>1, <2>1
  <2> QED
    BY <2>1, <2>2, InvBlocks, CutNoNewLink, RankKept
<1>2. Volume \in Vol /\ Volume.blocks = blocks /\ Volume.free_bitmap = free_bitmap
      /\ TypeOK
  BY InvParts, VolumeTyped DEF Volume
<1>3. CASE file_delete(p)
  <2> DEFINE R(s) == IF meta[i].parent \in MetaIndex
                     THEN dir_remove_child(F(s), meta[i].parent, i)
                     ELSE {[ok |-> FALSE, vol |-> F(s)]}
  <2>0. PICK s \in Chains(blocks, meta[i].start_index) : \E r \in R(s) :
           free_bitmap' = r.vol.free_bitmap /\ blocks' = r.vol.blocks
    BY <1>3 DEF file_delete
  <2>1. PICK r \in R(s) : free_bitmap' = r.vol.free_bitmap /\ blocks' = r.vol.blocks
    BY <2>0
  <2>2. i \in MetaIndex
    BY <1>2, <1>3 DEF file_delete, TypeOK
  <2>3. /\ F(s) \in Vol /\ F(s).blocks = blocks
        /\ F(s).free_bitmap = free_bitmap \ BlocksOf(s)
    BY <1>2 DEF TypeOK, Vol, Volume
  <2> HIDE DEF F
  <2>4. CASE meta[i].parent \in MetaIndex
    BY <1>1, <2>1, <2>2, <2>3, <2>4
  <2>5. CASE meta[i].parent \notin MetaIndex
    <3>1. r.vol = F(s)
      BY <2>5
    <3>2. free_bitmap' \in SUBSET free_bitmap /\ Cut(blocks, blocks')
      BY <2>1, <2>3, <3>1 DEF Cut
    <3> QED
      BY <3>2, InvBlocks, CutNoNewLink, RankKept
  <2> QED
    BY <2>4, <2>5
<1>4. CASE dir_delete(p)
  <2>1. PICK r \in dir_remove_child(Volume, meta[i].parent, i) :
           /\ free_bitmap' = r.vol.free_bitmap \ {r.vol.meta[i].start_index}
           /\ blocks' = r.vol.blocks
    BY <1>4 DEF dir_delete
  <2>2. i \in MetaIndex /\ meta[i].parent \in MetaIndex
    BY <1>2, <1>4 DEF dir_delete, TypeOK
  <2> QED
    BY <1>1, <1>2, <2>1, <2>2
<1> QED
  BY <1>3, <1>4

\* The first two steps of file_rename: out of the old directory, renamed, and
\* into a directory.
LEMMA MoveNoNewLink ==
  ASSUME Inv, NEW p \in ClientPath, NEW q \in ClientPath, MayRename(p, q),
         NEW r \in dir_remove_child(Volume, meta[path_index[p]].parent, path_index[p]),
         NEW a \in dir_add_child(Moved(p, q, r), path_index[PrefixPath(q)], path_index[p])
  PROVE  NoNewLink(free_bitmap, blocks, a.vol.free_bitmap, a.vol.blocks)
<1> DEFINE i == path_index[p]
           to == path_index[PrefixPath(q)]
           v == Moved(p, q, r)
<1>1. /\ i \in MetaIndex /\ to \in MetaIndex /\ meta[i].parent \in MetaIndex /\ v \in Vol
  BY MovedLinked DEF Live
<1>2. Volume \in Vol /\ Volume.blocks = blocks /\ Volume.free_bitmap = free_bitmap
  BY InvParts, VolumeTyped DEF Volume
<1>3. r.vol \in Vol /\ r.vol.free_bitmap = free_bitmap /\ Cut(blocks, r.vol.blocks)
  BY <1>1, <1>2, RemoveChild, RemoveCuts
<1>4. v.free_bitmap = free_bitmap /\ v.blocks = r.vol.blocks
  BY <1>3 DEF Moved, Vol
<1> HIDE DEF v, i, to
<1>5. NoNewLink(free_bitmap, blocks, v.free_bitmap, v.blocks)
  BY <1>3, <1>4, InvBlocks, CutNoNewLink
<1>6. NoNewLink(v.free_bitmap, v.blocks, a.vol.free_bitmap, a.vol.blocks)
  <2>1. a \in dir_add_child(v, to, i)
    BY DEF v, to, i
  <2> QED
    BY <1>1, <2>1, AddNoNewLink
<1> QED
  BY <1>5, <1>6, NoNewLinkTrans

LEMMA RenameRanked ==
  ASSUME Inv, Ranked(free_bitmap, blocks), NEW p \in ClientPath, NEW q \in ClientPath,
         file_rename(p, q)
  PROVE  Ranked(free_bitmap', blocks')
<1> DEFINE i == path_index[p]
<1>0. PICK r \in dir_remove_child(Volume, meta[i].parent, i) :
           \E a \in dir_add_child(Moved(p, q, r), path_index[PrefixPath(q)], i) : Becomes(a.vol)
  BY DEF file_rename
<1>1. PICK a \in dir_add_child(Moved(p, q, r), path_index[PrefixPath(q)], i) : Becomes(a.vol)
  BY <1>0
<1>2. NoNewLink(free_bitmap, blocks, a.vol.free_bitmap, a.vol.blocks)
  BY MoveNoNewLink DEF file_rename
<1> QED
  BY <1>1, <1>2, RankKept DEF Becomes

LEMMA RenameFailsRanked ==
  ASSUME Inv, Ranked(free_bitmap, blocks), NEW p \in ClientPath, NEW q \in ClientPath,
         file_rename_fails(p, q)
  PROVE  Ranked(free_bitmap', blocks')
<1> DEFINE i == path_index[p]
           to == path_index[PrefixPath(q)]
           from == meta[i].parent
           Back(a) == [a.vol EXCEPT !.meta[i].parent = from]
<1>0. PICK r \in dir_remove_child(Volume, from, i) : \E a \in dir_add_child(Moved(p, q, r), to, i) :
           \E b \in dir_add_child(Back(a), from, i) : Becomes(b.vol)
  BY DEF file_rename_fails
<1>1. PICK a \in dir_add_child(Moved(p, q, r), to, i) :
           \E b \in dir_add_child(Back(a), from, i) : Becomes(b.vol)
  BY <1>0
<1>2. PICK b \in dir_add_child(Back(a), from, i) : Becomes(b.vol)
  BY <1>1
<1>3. MayRename(p, q)
  BY DEF file_rename_fails
<1>4. /\ i \in MetaIndex /\ to \in MetaIndex /\ from \in MetaIndex /\ Moved(p, q, r) \in Vol
  BY <1>3, MovedLinked DEF Live
<1>5. NoNewLink(free_bitmap, blocks, a.vol.free_bitmap, a.vol.blocks)
  BY <1>3, MoveNoNewLink
<1>6. a.vol \in Vol
  <2> DEFINE v == Moved(p, q, r)
  <2>1. a \in dir_add_child(v, to, i) /\ v \in Vol
    BY <1>4
  <2> HIDE DEF v, i, to, from
  <2> QED
    BY <1>4, <2>1, AddChild
<1> DEFINE u == Back(a)
<1>7. u \in Vol /\ u.free_bitmap = a.vol.free_bitmap /\ u.blocks = a.vol.blocks
  <2>1. from \in 0 .. NM
    BY <1>4, SizesAssumption DEF MetaIndex
  <2> QED
    BY <1>4, <1>6, <2>1, ParentUpdate DEF Vol
<1> HIDE DEF i, to, from
<1>8. b \in dir_add_child(u, from, i)
  BY <1>2
<1> HIDE DEF u, Back
<1>9. NoNewLink(u.free_bitmap, u.blocks, b.vol.free_bitmap, b.vol.blocks)
  BY <1>4, <1>7, <1>8, AddNoNewLink
<1>10. NoNewLink(free_bitmap, blocks, b.vol.free_bitmap, b.vol.blocks)
  BY <1>5, <1>7, <1>9, NoNewLinkTrans
<1> QED
  BY <1>2, <1>10, RankKept DEF Becomes

LEMMA EditRanked ==
  ASSUME Inv, Ranked(free_bitmap, blocks), NEW p \in ClientPath, NEW pos \in Size,
         file_edit(p, pos)
  PROVE  Ranked(free_bitmap', blocks')
<1> DEFINE k == pos \div BlockPayload + 1
<1>1. PICK s \in Chains(blocks, meta[path_index[p]].start_index), d \in Data :
           k \in DOMAIN s /\ blocks' = [blocks EXCEPT ![s[k]].items = d]
  BY DEF file_edit
<1>2. UNCHANGED free_bitmap
  BY DEF file_edit
<1> HIDE DEF k
<1>3. s[k] \in BlockIndex
  BY <1>1, BlockSeqType DEF Chains
<1>4. /\ blocks'[s[k]] = [blocks[s[k]] EXCEPT !.items = d] /\ blocks[s[k]] \in Block
      /\ \A b \in BlockIndex : b # s[k] => blocks'[b] = blocks[b]
  BY <1>1, <1>3, InvBlocks
<1>5. blocks'[s[k]].next = blocks[s[k]].next
  BY <1>4 DEF Block
<1>6. Cut(blocks, blocks') /\ free_bitmap' \in SUBSET free_bitmap
  BY <1>2, <1>4, <1>5 DEF Cut
<1> QED
  BY <1>6, InvBlocks, CutNoNewLink, RankKept

-----------------------------------------------------------------------------
(* The theorem. *)

LEMMA InitRanked == Init => Ranked(free_bitmap, blocks)
<1> SUFFICES ASSUME Init PROVE Ranked(free_bitmap, blocks)
  OBVIOUS
<1> DEFINE rank == [b \in BlockIndex |-> 0]
<1>1. rank \in [BlockIndex -> Nat] /\ Ranks(rank, free_bitmap, blocks)
  BY DEF Init, Ranks
<1> QED
  BY <1>1 DEF Ranked

LEMMA NextRanked ==
  Inv /\ Inv' /\ Ranked(free_bitmap, blocks) /\ [Next]_vars => Ranked(free_bitmap, blocks)'
<1> SUFFICES ASSUME Inv, Inv', Ranked(free_bitmap, blocks), [Next]_vars
             PROVE  Ranked(free_bitmap', blocks')
  OBVIOUS
<1>0. TypeOK'
  BY DEF Inv
<1>1. CASE UNCHANGED vars
  BY <1>1 DEF vars
<1>2. ASSUME NEW p \in ClientPath, NEW size \in Size, file_create(p, size)
      PROVE  Ranked(free_bitmap', blocks')
  BY <1>2, CreateRanked
<1>3. ASSUME NEW p \in ClientPath, NEW size \in Size, file_create_no_space(p, size)
      PROVE  Ranked(free_bitmap', blocks')
  BY <1>3 DEF file_create_no_space
<1>4. ASSUME NEW p \in ClientPath, file_delete(p) \/ dir_delete(p)
      PROVE  Ranked(free_bitmap', blocks')
  BY <1>4, DeleteRanked
<1>5. ASSUME NEW p \in ClientPath, NEW pos \in Size, file_edit(p, pos)
      PROVE  Ranked(free_bitmap', blocks')
  BY <1>5, EditRanked
<1>6. ASSUME NEW p \in ClientPath, NEW size \in Size, file_truncate(p, size)
      PROVE  Ranked(free_bitmap', blocks')
  BY <1>0, <1>6, TruncateRanked
<1>7. ASSUME NEW p \in ClientPath, dir_create(p)
      PROVE  Ranked(free_bitmap', blocks')
  BY <1>7, DirCreateRanked
<1>8. ASSUME NEW p \in ClientPath, NEW q \in ClientPath, file_rename(p, q)
      PROVE  Ranked(free_bitmap', blocks')
  BY <1>8, RenameRanked
<1>9. ASSUME NEW p \in ClientPath, NEW q \in ClientPath, file_rename_fails(p, q)
      PROVE  Ranked(free_bitmap', blocks')
  BY <1>9, RenameFailsRanked
<1> QED
  BY <1>1, <1>2, <1>3, <1>4, <1>5, <1>6, <1>7, <1>8, <1>9 DEF Next

\* No chain loops: the walks of get_block_chain, dir_block_read and the while
\* loops of file_delete and file_read end, however often blocks were freed,
\* handed out again, cut off and linked behind others.
THEOREM ChainsEndCorrect == Spec => []ChainsEnd
<1>1. Inv /\ Ranked(free_bitmap, blocks) => ChainsEnd
  <2> SUFFICES ASSUME Inv, Ranked(free_bitmap, blocks), NEW i \in Live(meta)
               PROVE  Chains(blocks, meta[i].start_index) # {}
    BY DEF ChainsEnd, ChainOfEntry
  <2>1. CASE meta[i].start_index = 0
    <3> DEFINE t == <<>>
    <3>1. 0 \in 0 .. NB /\ t \in [1 .. 0 -> BlockIndex] /\ DOMAIN t = {} /\ Len(t) = 0
      BY SizesAssumption
    <3>2. t \in Chains(blocks, meta[i].start_index)
      BY <2>1, <3>1 DEF Chains, BlockSeq, FirstOf
    <3> QED
      BY <3>2
  <2>2. CASE meta[i].start_index # 0
    <3>1. meta[i].start_index \in free_bitmap
      BY <2>2, InvBlocks DEF WellLinked
    <3>2. PICK rank \in [BlockIndex -> Nat] : Ranks(rank, free_bitmap, blocks)
      BY DEF Ranked
    <3> QED
      BY <3>1, <3>2, InvBlocks, WalkEnds
  <2> QED
    BY <2>1, <2>2
<1>2. Init => Ranked(free_bitmap, blocks)
  BY InitRanked
<1>3. Inv /\ Inv' /\ Ranked(free_bitmap, blocks) /\ [Next]_vars => Ranked(free_bitmap, blocks)'
  BY NextRanked
<1> QED
  BY <1>1, <1>2, <1>3, InvCorrect, PTL DEF Spec
=============================================================================
