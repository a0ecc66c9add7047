----------------------- MODULE OFSCoreTreeProofs -----------------------
(*************************************************************************)
(* What OFSCoreTree says of clients that stay inside the limits of the   *)
(* code: no block is lost, every file owns the blocks its size needs,    *)
(* table and path index are one tree, and the calls implement OFSTree.   *)
(*************************************************************************)
EXTENDS OFSCoreProofs, OFSCoreTree

-----------------------------------------------------------------------------
(* The blocks of a chain. *)

\* A chain is read off the next pointers: two chains from one block begin alike.
LEMMA ChainPrefix ==
  ASSUME NEW blk \in [BlockIndex -> Block], NEW x \in 0 .. NB,
         NEW s \in Chains(blk, x), NEW t \in Chains(blk, x)
  PROVE  \A k \in 1 .. Len(s) : k \in 1 .. Len(t) /\ t[k] = s[k]
<1>1. /\ s \in BlockSeq /\ (x = 0 => s = <<>>) /\ (x # 0 => Len(s) >= 1 /\ s[1] = x)
      /\ \A i \in 1 .. Len(s) : i < Len(s) => blk[s[i]].next = s[i + 1]
  BY ChainStep
<1>2. /\ t \in BlockSeq /\ (x # 0 => Len(t) >= 1 /\ t[1] = x)
      /\ \A i \in 1 .. Len(t) : i < Len(t) => blk[t[i]].next = t[i + 1]
      /\ Len(t) >= 1 => blk[t[Len(t)]].next = 0
  BY ChainStep
<1>3. /\ Len(s) \in Nat /\ Len(t) \in Nat
      /\ \A k \in 1 .. Len(s) : s[k] \in BlockIndex /\ s[k] # 0
  BY <1>1, <1>2, BlockSeqType, SizesAssumption DEF BlockIndex
<1> DEFINE Bad == {k \in 1 .. Len(s) : ~(k \in 1 .. Len(t) /\ t[k] = s[k])}
<1>4. SUFFICES ASSUME Bad # {} PROVE FALSE
  OBVIOUS
<1>5. Bad \in SUBSET Nat
  BY <1>3
<1> HIDE DEF Bad
<1>6. PICK k \in Bad : \A l \in Bad : k <= l
  BY <1>4, <1>5, LeastExists, Zenon
<1>7. k \in 1 .. Len(s) /\ ~(k \in 1 .. Len(t) /\ t[k] = s[k])
  BY <1>6 DEF Bad
<1>8. k # 1
  <2> SUFFICES ASSUME k = 1 PROVE FALSE
    OBVIOUS
  <2>1. x # 0
    BY <1>1, <1>3, <1>7
  <2> QED
    BY <1>1, <1>2, <1>3, <1>7, <2>1
<1>9. k - 1 \in 1 .. Len(s) /\ k - 1 \notin Bad /\ k - 1 < Len(s) /\ (k - 1) + 1 = k
  BY <1>3, <1>6, <1>7, <1>8
<1>10. k - 1 \in 1 .. Len(t) /\ t[k - 1] = s[k - 1]
  BY <1>9 DEF Bad
<1>11. blk[t[k - 1]].next = s[k] /\ s[k] # 0
  BY <1>1, <1>3, <1>7, <1>9, <1>10
<1>12. k - 1 # Len(t)
  BY <1>2, <1>3, <1>10, <1>11
<1>13. k \in 1 .. Len(t) /\ k - 1 < Len(t)
  BY <1>3, <1>7, <1>10, <1>12
<1>14. t[k] = s[k]
  BY <1>2, <1>9, <1>10, <1>11, <1>13
<1> QED
  BY <1>7, <1>13, <1>14

\* One start has one chain.
LEMMA ChainUnique ==
  ASSUME NEW blk \in [BlockIndex -> Block], NEW x \in 0 .. NB,
         NEW s \in Chains(blk, x), NEW t \in Chains(blk, x)
  PROVE  s = t
<1>1. /\ s \in Seq(BlockIndex) /\ t \in Seq(BlockIndex)
      /\ Len(s) \in Nat /\ Len(t) \in Nat
  BY BlockSeqType DEF Chains
<1>2. /\ \A k \in 1 .. Len(s) : k \in 1 .. Len(t) /\ t[k] = s[k]
      /\ \A k \in 1 .. Len(t) : k \in 1 .. Len(s)
  BY ChainPrefix
<1>3. Len(s) = Len(t)
  <2>1. Len(s) # 0 => Len(s) \in 1 .. Len(s)
    BY <1>1
  <2>2. Len(t) # 0 => Len(t) \in 1 .. Len(t)
    BY <1>1
  <2> QED
    BY <1>1, <1>2, <2>1, <2>2
<1> QED
  BY <1>1, <1>2, <1>3

\* A chain stays one while the next pointers of its blocks stay.
LEMMA ChainKept ==
  ASSUME NEW blk, NEW blk2, NEW x, NEW s \in Chains(blk, x),
         \A b \in BlocksOf(s) : blk2[b].next = blk[b].next
  PROVE  s \in Chains(blk2, x)
  BY DEF Chains, BlocksOf

\* The empty chain of an entry without blocks.
LEMMA NoChain ==
  ASSUME NEW blk
  PROVE  <<>> \in Chains(blk, 0) /\ BlocksOf(<<>>) = {} /\ Len(<<>>) = 0
<1> DEFINE t == <<>>
<1>1. 0 \in 0 .. NB /\ t \in [1 .. 0 -> BlockIndex] /\ DOMAIN t = {} /\ Len(t) = 0
  BY SizesAssumption
<1>2. t \in Chains(blk, 0)
  BY <1>1 DEF Chains, BlockSeq, FirstOf
<1> QED
  BY <1>1, <1>2 DEF BlocksOf

-----------------------------------------------------------------------------
(* The account of the blocks: every block in use is in a chain of an entry  *)
(* in use, and a file's chain has the length its size needs.               *)

Covered(m, used, blk) ==
  \A b \in used : \E i \in Live(m) : \E s \in Chains(blk, m[i].start_index) : b \in BlocksOf(s)

SizesFit(m, blk) ==
  \A i \in Live(m) : m[i].type = FILE =>
     \E s \in Chains(blk, m[i].start_index) : Len(s) = BlocksFor(m[i].total_size)

Accounted(m, used, blk) == Covered(m, used, blk) /\ SizesFit(m, blk)

\* The effect of a call on the account: entry i exchanges the chain o for the
\* chain c, or has none before or after; no other link of a used block and no
\* other entry changes.
SameAccount(m, m2, j) == SameLinks(m, m2, j) /\ m2[j].total_size = m[j].total_size

Exchanges(m, used, blk, m2, used2, blk2, i, o, c) ==
  /\ \A j \in MetaIndex \ {i} : SameAccount(m, m2, j)
  /\ IF i \in Live(m) THEN o \in Chains(blk, m[i].start_index) ELSE o = <<>>
  /\ IF i \in Live(m2)
     THEN /\ c \in Chains(blk2, m2[i].start_index)
          /\ m2[i].type = FILE => Len(c) = BlocksFor(m2[i].total_size)
     ELSE c = <<>>
  /\ \A b \in used : b \notin BlocksOf(o) => blk2[b].next = blk[b].next
  /\ \A b \in used2 : b \in BlocksOf(c) \/ (b \in used /\ b \notin BlocksOf(o))

LEMMA AccountStep ==
  ASSUME NEW m \in [MetaIndex -> MetaEntry], NEW used \in SUBSET BlockIndex,
         NEW blk \in [BlockIndex -> Block], WellLinked(m, used, blk), Accounted(m, used, blk),
         NEW m2 \in [MetaIndex -> MetaEntry], NEW used2, NEW blk2, NEW i \in MetaIndex,
         NEW o, NEW c, Exchanges(m, used, blk, m2, used2, blk2, i, o, c)
  PROVE  Accounted(m2, used2, blk2)
\* The chains of the other entries stay.
<1>1. ASSUME NEW j \in Live(m), j # i, NEW s \in Chains(blk, m[j].start_index)
      PROVE  /\ j \in Live(m2) /\ m2[j].start_index = m[j].start_index
             /\ m2[j].type = m[j].type /\ m2[j].total_size = m[j].total_size
             /\ s \in Chains(blk2, m2[j].start_index)
  <2>1. /\ j \in MetaIndex /\ j \in Live(m2) /\ m2[j].start_index = m[j].start_index
        /\ m2[j].type = m[j].type /\ m2[j].total_size = m[j].total_size
    BY <1>1 DEF Exchanges, SameAccount, SameLinks, Live
  <2>2. BlocksOf(s) \subseteq used
    <3>1. Owns(m, used, blk, j, s)
      BY <1>1, ChainOwned
    <3>2. DOMAIN s = 1 .. Len(s)
      BY BlockSeqType DEF Chains
    <3> QED
      BY <3>1, <3>2 DEF Owns, BlocksOf
  <2>3. BlocksOf(s) \cap BlocksOf(o) = {}
    <3>1. CASE i \in Live(m)
      <4>1. o \in Chains(blk, m[i].start_index)
        BY <3>1 DEF Exchanges
      <4>2. \A a \in Live(m) : j # a =>
               \A t \in Chains(blk, m[a].start_index) : BlocksOf(s) \cap BlocksOf(t) = {}
        BY <1>1, ChainsDisjoint
      <4> QED
        BY <1>1, <3>1, <4>1, <4>2
    <3>2. CASE i \notin Live(m)
      <4>1. o = <<>>
        BY <3>2 DEF Exchanges
      <4> QED
        BY <4>1, NoChain
    <3> QED
      BY <3>1, <3>2
  <2>4. \A b \in BlocksOf(s) : blk2[b].next = blk[b].next
    BY <2>2, <2>3 DEF Exchanges
  <2>5. s \in Chains(blk2, m[j].start_index)
    BY <2>4, ChainKept
  <2> QED
    BY <2>1, <2>5
<1>2. Covered(m2, used2, blk2)
  <2> SUFFICES ASSUME NEW b \in used2
               PROVE  \E j \in Live(m2) : \E s \in Chains(blk2, m2[j].start_index) : b \in BlocksOf(s)
    BY DEF Covered
  <2>1. CASE b \in BlocksOf(c)
    <3>1. i \in Live(m2)
      BY <2>1, NoChain DEF Exchanges
    <3>2. c \in Chains(blk2, m2[i].start_index)
      BY <3>1 DEF Exchanges
    <3> QED
      BY <2>1, <3>1, <3>2
  <2>2. CASE b \in used /\ b \notin BlocksOf(o)
    <3>1. PICK j \in Live(m) : \E s \in Chains(blk, m[j].start_index) : b \in BlocksOf(s)
      BY <2>2 DEF Accounted, Covered
    <3>2. PICK s \in Chains(blk, m[j].start_index) : b \in BlocksOf(s)
      BY <3>1
    <3>3. j # i
      <4> SUFFICES ASSUME j = i PROVE FALSE
        OBVIOUS
      <4>1. o \in Chains(blk, m[j].start_index)
        BY DEF Exchanges
      <4>2. m[j].start_index \in 0 .. NB
        BY DEF Live, MetaEntry
      <4>3. s = o
        BY <4>1, <4>2, ChainUnique
      <4> QED
        BY <2>2, <3>2, <4>3
    <3> QED
      BY <1>1, <3>2, <3>3
  <2> QED
    BY <2>1, <2>2 DEF Exchanges
<1>3. SizesFit(m2, blk2)
  <2> SUFFICES ASSUME NEW j \in Live(m2), m2[j].type = FILE
               PROVE  \E s \in Chains(blk2, m2[j].start_index) : Len(s) = BlocksFor(m2[j].total_size)
    BY DEF SizesFit
  <2>1. CASE j = i
    BY <2>1 DEF Exchanges
  <2>2. CASE j # i
    <3>1. j \in Live(m) /\ m[j].type = FILE
      BY <2>2 DEF Exchanges, SameAccount, SameLinks, Live
    <3>2. PICK s \in Chains(blk, m[j].start_index) : Len(s) = BlocksFor(m[j].total_size)
      BY <3>1 DEF Accounted, SizesFit
    <3> QED
      BY <1>1, <2>2, <3>1, <3>2
  <2> QED
    BY <2>1, <2>2
<1> QED
  BY <1>2, <1>3 DEF Accounted

\* A call that changes no link of a used block, no chain's start and no size.
LEMMA AccountSame ==
  ASSUME NEW m \in [MetaIndex -> MetaEntry], NEW used \in SUBSET BlockIndex,
         NEW blk \in [BlockIndex -> Block], WellLinked(m, used, blk), Accounted(m, used, blk),
         NEW m2, NEW blk2, Live(m2) = Live(m),
         \A j \in Live(m) : SameAccount(m, m2, j),
         \A b \in used : blk2[b].next = blk[b].next
  PROVE  Accounted(m2, used, blk2)
<1>1. ASSUME NEW j \in Live(m), NEW s \in Chains(blk, m[j].start_index)
      PROVE  s \in Chains(blk2, m2[j].start_index)
  <2>1. Owns(m, used, blk, j, s)
    BY ChainOwned
  <2>2. DOMAIN s = 1 .. Len(s)
    BY BlockSeqType DEF Chains
  <2>3. \A b \in BlocksOf(s) : blk2[b].next = blk[b].next
    BY <2>1, <2>2 DEF Owns, BlocksOf
  <2>4. s \in Chains(blk2, m[j].start_index)
    BY <2>3, ChainKept
  <2> QED
    BY <2>4 DEF SameAccount, SameLinks
<1>2. Covered(m2, used, blk2)
  <2> SUFFICES ASSUME NEW b \in used
               PROVE  \E j \in Live(m2) : \E s \in Chains(blk2, m2[j].start_index) : b \in BlocksOf(s)
    BY DEF Covered
  <2>1. PICK j \in Live(m) : \E s \in Chains(blk, m[j].start_index) : b \in BlocksOf(s)
    BY DEF Accounted, Covered
  <2> QED
    BY <1>1, <2>1
<1>3. SizesFit(m2, blk2)
  <2> SUFFICES ASSUME NEW j \in Live(m), m2[j].type = FILE
               PROVE  \E s \in Chains(blk2, m2[j].start_index) : Len(s) = BlocksFor(m2[j].total_size)
    BY DEF SizesFit
  <2>1. m[j].type = FILE /\ m2[j].total_size = m[j].total_size
    BY DEF SameAccount, SameLinks
  <2>2. PICK s \in Chains(blk, m[j].start_index) : Len(s) = BlocksFor(m[j].total_size)
    BY <2>1 DEF Accounted, SizesFit
  <2> QED
    BY <1>1, <2>1, <2>2
<1> QED
  BY <1>2, <1>3 DEF Accounted

\* A block that points nowhere is a chain of its own.
LEMMA OneBlock ==
  ASSUME NEW blk, NEW b \in BlockIndex, blk[b].next = 0
  PROVE  <<b>> \in Chains(blk, b) /\ BlocksOf(<<b>>) = {b} /\ Len(<<b>>) = 1
<1> DEFINE t == <<b>>
<1>1. Len(t) = 1 /\ DOMAIN t = {1} /\ t[1] = b /\ t \in [1 .. 1 -> BlockIndex] /\ 1 \in 0 .. NB
  BY SizesAssumption DEF BlockIndex
<1>2. t \in BlockSeq
  BY <1>1 DEF BlockSeq
<1>3. FirstOf(t) = b /\ NextIn(t, 1) = 0
  BY <1>1 DEF FirstOf, NextIn
<1>4. t \in Chains(blk, b)
  BY <1>1, <1>2, <1>3 DEF Chains
<1> QED
  BY <1>1, <1>4 DEF BlocksOf

-----------------------------------------------------------------------------
(* What directories list. *)

Lists(m, blk, d, c) ==
  IsDirWithBlock(m, d) /\ \E k \in DOMAIN Items(m, blk, d) : Items(m, blk, d)[k] = c

\* No directory lists more children than its block holds.
AllFit(m, blk) == \A d \in Live(m) : IsDirWithBlock(m, d) => Len(Items(m, blk, d)) <= ChildSlots

\* Directory d can list one more child.
HasRoom(m, used, blk, d) ==
  /\ m[d].start_index # 0 => Len(Items(m, blk, d)) < ChildSlots
  /\ m[d].start_index = 0 => 0 < ChildSlots /\ BlockIndex \ used # {}

\* What clients see of an entry: all fields but the place of its blocks.
SameNode(m, m2, j) ==
  /\ m2[j].valid = m[j].valid /\ m2[j].type = m[j].type /\ m2[j].parent = m[j].parent
  /\ m2[j].name = m[j].name /\ m2[j].total_size = m[j].total_size

\* A directory's block rewritten: never more children than it holds, and all of
\* them when they fit.
LEMMA WithChildrenFits ==
  ASSUME NEW blk \in [BlockIndex -> Block], NEW b \in BlockIndex, NEW c \in Seq(Word)
  PROVE  /\ Len(WithChildren(blk, b, c)[b].items) <= ChildSlots
         /\ Len(c) <= ChildSlots => WithChildren(blk, b, c)[b].items = c
<1> DEFINE n == IF Len(c) < ChildSlots THEN Len(c) ELSE ChildSlots
<1>1. ChildSlots \in Nat /\ Len(c) \in Nat
  BY SizesAssumption DEF ChildSlots
<1>2. n \in Nat /\ n <= Len(c) /\ n <= ChildSlots /\ (Len(c) <= ChildSlots => n = Len(c))
  BY <1>1
<1>3. WithChildren(blk, b, c)[b].items = SubSeq(c, 1, n)
  BY DEF WithChildren
<1> HIDE DEF n
<1>4. Len(SubSeq(c, 1, n)) = n
  <2>1. Len(SubSeq(c, 1, n)) = IF 1 <= n THEN n - 1 + 1 ELSE 0
    <3>1. \A i \in 1 .. n : i \in 1 .. Len(c)
      BY <1>1, <1>2
    <3> QED
      BY <1>1, <1>2, <3>1, SubSeqProperties
  <2> QED
    BY <1>2, <2>1
<1>5. n = Len(c) => SubSeq(c, 1, n) = c
  BY <1>1
<1> QED
  BY <1>1, <1>2, <1>3, <1>4, <1>5

\* Where a directory with a block has it.
LEMMA DirBlock ==
  ASSUME NEW m \in [MetaIndex -> MetaEntry]
  PROVE  \A e \in Live(m) : IsDirWithBlock(m, e) => m[e].start_index \in BlockIndex
<1> SUFFICES ASSUME NEW e \in Live(m), IsDirWithBlock(m, e)
             PROVE  m[e].start_index \in BlockIndex
  OBVIOUS
<1>1. m[e] \in MetaEntry
  BY DEF Live
<1>2. m[e].start_index \in 0 .. NB /\ m[e].start_index # 0
  BY <1>1 DEF IsDirWithBlock, MetaEntry
<1> QED
  BY <1>2, SizesAssumption DEF BlockIndex

\* dir_add_child with room: the child is listed, everything listed before still
\* is, and nothing a client sees of any entry changes.
LEMMA ChildListed ==
  ASSUME NEW v \in Vol, WellLinked(v.meta, v.free_bitmap, v.blocks),
         AllFit(v.meta, v.blocks),
         NEW d \in Live(v.meta), v.meta[d].type = DIR, NEW c \in MetaIndex,
         HasRoom(v.meta, v.free_bitmap, v.blocks, d), NEW r \in dir_add_child(v, d, c)
  PROVE  /\ r.ok /\ r.vol \in Vol
         /\ \A j \in MetaIndex : SameNode(v.meta, r.vol.meta, j)
         /\ Lists(r.vol.meta, r.vol.blocks, d, c)
         /\ \A e, x : Lists(v.meta, v.blocks, e, x) => Lists(r.vol.meta, r.vol.blocks, e, x)
         /\ AllFit(r.vol.meta, r.vol.blocks)
<1> DEFINE m == v.meta
           m2 == r.vol.meta
           blk2 == r.vol.blocks
           start == m[d].start_index
<1>1. /\ d \in MetaIndex /\ m \in [MetaIndex -> MetaEntry] /\ m[d] \in MetaEntry
      /\ v.blocks \in [BlockIndex -> Block] /\ v.free_bitmap \in SUBSET BlockIndex
  BY DEF Vol, Live
<1>2. c \in Word /\ ChildSlots \in Nat
  BY SizesAssumption DEF Word, MetaIndex, ChildSlots
<1>3. /\ r.vol \in Vol
      /\ AddFails(v, d, r) \/ AddLists(v, d, c, r) \/ AddAllocates(v, d, c, r)
  BY <1>1, AddChild
<1>4. r.ok
  BY DEF dir_add_child, HasRoom
<1>5. CASE AddLists(v, d, c, r)
  <2>1. start \in BlockIndex /\ start # 0 /\ m2 = m
    BY <1>5, SizesAssumption DEF AddLists, BlockIndex
  <2>2. PICK w \in dir_block_read(v, d) : blk2 = WithChildren(v.blocks, start, Append(w, c))
    BY <1>5 DEF AddLists
  <2>3. w \in Seq(Word) /\ w = Items(m, v.blocks, d) /\ Len(w) < ChildSlots /\ Len(w) \in Nat
    <3>1. w \in Seq(Word) /\ w = Items(m, v.blocks, d)
      BY <2>1, <2>2, DirRead
    <3> QED
      BY <2>1, <3>1 DEF HasRoom
  <2> DEFINE a == Append(w, c)
  <2>4. /\ a \in Seq(Word) /\ Len(a) = Len(w) + 1 /\ a[Len(w) + 1] = c
        /\ \A k \in 1 .. Len(w) : a[k] = w[k]
    BY <1>2, <2>3, AppendProperties
  <2> HIDE DEF a
  <2>5. /\ blk2[start].items = a
        /\ \A k \in BlockIndex : k # start => blk2[k] = v.blocks[k]
    <3>1. blk2 = WithChildren(v.blocks, start, a)
      BY <2>2 DEF a
    <3>2. Len(a) <= ChildSlots
      BY <1>2, <2>3, <2>4
    <3> QED
      BY <1>1, <2>1, <2>4, <3>1, <3>2, WithChildrenFits, WithChildrenType
  <2>6. Items(m, blk2, d) = a /\ IsDirWithBlock(m, d)
    BY <2>1, <2>5 DEF Items, IsDirWithBlock
  <2>7. \A e \in Live(m) : IsDirWithBlock(m, e) /\ e # d
           => Items(m, blk2, e) = Items(m, v.blocks, e)
    <3>1. \A e \in Live(m) : IsDirWithBlock(m, e) /\ e # d => m[e].start_index # start
      BY <2>1 DEF WellLinked, IsDirWithBlock
    <3>2. \A e \in Live(m) : IsDirWithBlock(m, e) /\ m[e].start_index # start
             => Items(m, blk2, e) = Items(m, v.blocks, e)
      BY <1>1, <2>5, DirBlock DEF Items
    <3> QED
      BY <3>1, <3>2
  <2>8. Lists(m, blk2, d, c)
    <3>1. Len(w) + 1 \in DOMAIN a
      BY <2>3, <2>4
    <3> QED
      BY <2>4, <2>6, <3>1 DEF Lists
  <2>9. ASSUME NEW e, NEW x, Lists(m, v.blocks, e, x)
        PROVE  Lists(m, blk2, e, x)
    <3>1. e \in Live(m) /\ IsDirWithBlock(m, e)
      BY <2>9 DEF Lists, IsDirWithBlock
    <3>2. CASE e = d
      <4>1. PICK k \in DOMAIN w : w[k] = x
        BY <2>3, <2>9, <3>2 DEF Lists
      <4>2. k \in DOMAIN a /\ a[k] = x
        BY <2>3, <2>4, <4>1
      <4> QED
        BY <2>6, <3>2, <4>2 DEF Lists
    <3>3. CASE e # d
      BY <2>7, <2>9, <3>1, <3>3 DEF Lists
    <3> QED
      BY <3>2, <3>3
  <2>10. AllFit(m, blk2)
    <3> SUFFICES ASSUME NEW e \in Live(m), IsDirWithBlock(m, e)
                 PROVE  Len(Items(m, blk2, e)) <= ChildSlots
      BY DEF AllFit
    <3>1. CASE e = d
      BY <1>2, <2>3, <2>4, <2>6, <3>1
    <3>2. CASE e # d
      BY <2>7, <3>2 DEF AllFit
    <3> QED
      BY <3>1, <3>2
  <2>11. \A j \in MetaIndex : SameNode(m, m2, j)
    BY <2>1 DEF SameNode
  <2> QED
    BY <1>3, <1>4, <2>1, <2>8, <2>9, <2>10, <2>11
<1>6. CASE AddAllocates(v, d, c, r)
  <2>1. PICK b \in BlockIndex \ v.free_bitmap :
           /\ m2 = [m EXCEPT ![d].start_index = b]
           /\ blk2 = WithChildren(v.blocks, b, <<c>>)
    BY <1>6 DEF AddAllocates
  <2>2. start = 0 /\ b # 0 /\ 0 < ChildSlots
    BY <1>6, SizesAssumption DEF AddAllocates, BlockIndex, HasRoom
  <2>3. m2[d] = [m[d] EXCEPT !.start_index = b] /\ \A j \in MetaIndex : j # d => m2[j] = m[j]
    BY <1>1, <2>1
  <2>4. SameNode(m, m2, d) /\ m2[d].start_index = b
    BY <1>1, <2>3 DEF MetaEntry, SameNode
  <2>5. \A j \in MetaIndex : SameNode(m, m2, j)
    BY <2>3, <2>4 DEF SameNode
  <2>6. Live(m2) = Live(m)
    BY <2>5 DEF SameNode, Live
  <2> DEFINE a == <<c>>
  <2>7. a \in Seq(Word) /\ Len(a) = 1 /\ a[1] = c /\ DOMAIN a = {1}
    BY <1>2
  <2> HIDE DEF a
  <2>8. blk2[b].items = a /\ \A k \in BlockIndex : k # b => blk2[k] = v.blocks[k]
    <3>1. blk2 = WithChildren(v.blocks, b, a)
      BY <2>1 DEF a
    <3>2. Len(a) <= ChildSlots /\ a \in Seq(Word)
      BY <1>2, <2>2, <2>7
    <3>3. b \in BlockIndex /\ v.blocks \in [BlockIndex -> Block]
      BY <1>1, <2>1
    <3>4. WithChildren(v.blocks, b, a)[b].items = a
      BY <3>2, <3>3, WithChildrenFits
    <3>5. \A k \in BlockIndex : k # b => WithChildren(v.blocks, b, a)[k] = v.blocks[k]
      BY <3>2, <3>3, WithChildrenType
    <3> QED
      BY <3>1, <3>4, <3>5
  <2>9. Items(m2, blk2, d) = a /\ IsDirWithBlock(m2, d)
    BY <2>2, <2>4, <2>6, <2>8 DEF Items, IsDirWithBlock, SameNode
  <2>10. \A e \in Live(m) : e # d => (IsDirWithBlock(m2, e) <=> IsDirWithBlock(m, e))
    BY <2>3, <2>6 DEF IsDirWithBlock, Live
  <2>11. \A e \in Live(m) : IsDirWithBlock(m, e) /\ e # d
           => Items(m2, blk2, e) = Items(m, v.blocks, e)
    <3>1. \A e \in Live(m) : IsDirWithBlock(m, e) => m[e].start_index # b
      BY <2>1 DEF WellLinked, IsDirWithBlock
    <3>2. \A e \in Live(m) : IsDirWithBlock(m, e) /\ m[e].start_index # b
             => Items(m, blk2, e) = Items(m, v.blocks, e)
      BY <1>1, <2>8, DirBlock DEF Items
    <3> QED
      BY <2>3, <3>1, <3>2 DEF Items, Live
  <2>12. Lists(m2, blk2, d, c)
    BY <2>7, <2>9 DEF Lists
  <2>13. ASSUME NEW e, NEW x, Lists(m, v.blocks, e, x)
         PROVE  Lists(m2, blk2, e, x)
    <3>1. e \in Live(m) /\ IsDirWithBlock(m, e) /\ e # d
      BY <2>2, <2>13 DEF Lists, IsDirWithBlock
    <3> QED
      BY <2>10, <2>11, <2>13, <3>1 DEF Lists
  <2>14. AllFit(m2, blk2)
    <3> SUFFICES ASSUME NEW e \in Live(m), IsDirWithBlock(m2, e)
                 PROVE  Len(Items(m2, blk2, e)) <= ChildSlots
      BY <2>6 DEF AllFit
    <3>1. CASE e = d
      <4>1. Items(m2, blk2, e) = a /\ Len(a) = 1 /\ 1 <= ChildSlots
        BY <1>2, <2>2, <2>7, <2>9, <3>1
      <4> QED
        BY <4>1
    <3>2. CASE e # d
      BY <2>10, <2>11, <3>2 DEF AllFit
    <3> QED
      BY <3>1, <3>2
  <2> QED
    BY <1>3, <1>4, <2>5, <2>12, <2>13, <2>14
<1> QED
  BY <1>3, <1>4, <1>5, <1>6 DEF AddFails

\* dir_add_child keeps the account: the block it may take becomes the chain of
\* the directory.
LEMMA AddChildAccounted ==
  ASSUME NEW v \in Vol, WellLinked(v.meta, v.free_bitmap, v.blocks),
         Accounted(v.meta, v.free_bitmap, v.blocks),
         NEW d \in Live(v.meta), v.meta[d].type = DIR, NEW c \in MetaIndex,
         NEW r \in dir_add_child(v, d, c)
  PROVE  Accounted(r.vol.meta, r.vol.free_bitmap, r.vol.blocks)
<1> DEFINE m == v.meta
           start == m[d].start_index
<1>1. /\ d \in MetaIndex /\ m \in [MetaIndex -> MetaEntry] /\ m[d] \in MetaEntry
      /\ v.blocks \in [BlockIndex -> Block] /\ v.free_bitmap \in SUBSET BlockIndex
  BY DEF Vol, Live
<1>2. c \in Word
  BY SizesAssumption DEF Word, MetaIndex
<1>3. /\ r.vol \in Vol
      /\ AddFails(v, d, r) \/ AddLists(v, d, c, r) \/ AddAllocates(v, d, c, r)
  BY <1>1, AddChild
<1>4. CASE AddFails(v, d, r)
  BY <1>4 DEF AddFails
<1>5. CASE AddLists(v, d, c, r)
  <2>1. start \in BlockIndex /\ start # 0 /\ v.blocks[start].next = 0
    BY <1>5, SizesAssumption DEF AddLists, BlockIndex, WellLinked
  <2>2. PICK w \in dir_block_read(v, d) :
           r.vol.blocks = WithChildren(v.blocks, start, Append(w, c))
    BY <1>5 DEF AddLists
  <2>3. Append(w, c) \in Seq(Word)
    <3>1. w \in Seq(Word)
      BY <2>2, DirRead
    <3> QED
      BY <1>2, <3>1, AppendProperties
  <2>4. \A b \in v.free_bitmap : r.vol.blocks[b].next = v.blocks[b].next
    <3> DEFINE a == Append(w, c)
    <3>1. a \in Seq(Word) /\ r.vol.blocks = WithChildren(v.blocks, start, a)
      BY <2>2, <2>3
    <3> HIDE DEF a
    <3>2. /\ r.vol.blocks[start].next = 0
          /\ \A k \in BlockIndex : k # start => r.vol.blocks[k] = v.blocks[k]
      BY <1>1, <2>1, <3>1, WithChildrenType
    <3> QED
      BY <1>1, <2>1, <3>2
  <2>5. r.vol.meta = m /\ r.vol.free_bitmap = v.free_bitmap
    BY <1>5 DEF AddLists
  <2>6. \A j \in Live(m) : SameAccount(m, m, j)
    BY DEF SameAccount, SameLinks
  <2> QED
    BY <1>1, <2>4, <2>5, <2>6, AccountSame
<1>6. CASE AddAllocates(v, d, c, r)
  <2>1. PICK b \in BlockIndex \ v.free_bitmap :
           /\ r.vol.meta = [m EXCEPT ![d].start_index = b]
           /\ r.vol.free_bitmap = v.free_bitmap \cup {b}
           /\ r.vol.blocks = WithChildren(v.blocks, b, <<c>>)
    BY <1>6 DEF AddAllocates
  <2> DEFINE m2 == r.vol.meta
             blk2 == r.vol.blocks
             o == <<>>
             n == <<b>>
  <2>2. start = 0
    BY <1>6 DEF AddAllocates
  <2>3. m2[d] = [m[d] EXCEPT !.start_index = b] /\ \A j \in MetaIndex : j # d => m2[j] = m[j]
    BY <1>1, <2>1
  <2>4. m2[d].valid = m[d].valid /\ m2[d].type = DIR /\ m2[d].start_index = b
    BY <1>1, <2>3 DEF MetaEntry
  <2>5. blk2[b].next = 0 /\ \A k \in BlockIndex : k # b => blk2[k] = v.blocks[k]
    <3> DEFINE a == <<c>>
    <3>1. a \in Seq(Word) /\ blk2 = WithChildren(v.blocks, b, a) /\ b \in BlockIndex
      BY <1>2, <2>1
    <3> HIDE DEF a
    <3> QED
      BY <1>1, <3>1, WithChildrenType
  <2>6. n \in Chains(blk2, b) /\ BlocksOf(n) = {b}
    BY <2>1, <2>5, OneBlock
  <2>7. o \in Chains(v.blocks, start) /\ BlocksOf(o) = {}
    BY <2>2, NoChain
  <2> HIDE DEF o, n, m2, blk2, m
  <2>8. d \in Live(m) /\ d \in Live(m2)
    BY <1>1, <2>4 DEF Live, m
  <2>9. \A j \in MetaIndex \ {d} : SameAccount(m, m2, j)
    BY <2>3 DEF SameAccount, SameLinks
  <2>10. Exchanges(m, v.free_bitmap, v.blocks, m2, r.vol.free_bitmap, blk2, d, o, n)
    BY <1>1, <2>1, <2>4, <2>5, <2>6, <2>7, <2>8, <2>9 DEF Exchanges, FILE, DIR
  <2>11. m2 \in [MetaIndex -> MetaEntry]
    BY <1>3 DEF Vol, m2
  <2>12. WellLinked(m, v.free_bitmap, v.blocks) /\ Accounted(m, v.free_bitmap, v.blocks)
    BY DEF m
  <2>13. Accounted(m2, r.vol.free_bitmap, blk2)
    BY <1>1, <2>10, <2>11, <2>12, AccountStep
  <2> QED
    BY <2>13 DEF m2, blk2
<1> QED
  BY <1>3, <1>4, <1>5, <1>6

\* dir_remove_child keeps what directories list besides the child, and no
\* directory lists more than before.
LEMMA ChildTakenOut ==
  ASSUME NEW v \in Vol, NEW used, WellLinked(v.meta, used, v.blocks),
         AllFit(v.meta, v.blocks),
         NEW d \in Live(v.meta), v.meta[d].type = DIR, NEW c \in MetaIndex,
         NEW r \in dir_remove_child(v, d, c)
  PROVE  /\ r.vol \in Vol /\ r.vol.meta = v.meta /\ r.vol.free_bitmap = v.free_bitmap
         /\ \A b \in BlockIndex : r.vol.blocks[b].next = v.blocks[b].next
         /\ \A e, x : Lists(v.meta, v.blocks, e, x) /\ x # c => Lists(v.meta, r.vol.blocks, e, x)
         /\ \A e \in Live(v.meta) : IsDirWithBlock(v.meta, e)
               => Len(Items(v.meta, r.vol.blocks, e)) <= Len(Items(v.meta, v.blocks, e))
         /\ AllFit(v.meta, r.vol.blocks)
<1> DEFINE m == v.meta
           blk2 == r.vol.blocks
           start == m[d].start_index
<1>1. /\ d \in MetaIndex /\ m \in [MetaIndex -> MetaEntry] /\ v.blocks \in [BlockIndex -> Block]
  BY DEF Vol, Live
<1>2. r.vol \in Vol /\ r.vol.meta = v.meta /\ r.vol.free_bitmap = v.free_bitmap
  BY <1>1, RemoveChild
<1>3. PICK w \in dir_block_read(v, d) : RemoveFails(v, d, c, r, w) \/ RemoveUnlists(v, d, c, r, w)
  BY <1>1, RemoveChild
<1>4. \A e \in Live(m) : IsDirWithBlock(m, e)
         => Items(m, v.blocks, e) \in Seq(Word) /\ Len(Items(m, v.blocks, e)) \in Nat
  <2> SUFFICES ASSUME NEW e \in Live(m), IsDirWithBlock(m, e)
               PROVE  Items(m, v.blocks, e) \in Seq(Word)
    OBVIOUS
  <2>1. m[e].start_index \in BlockIndex
    BY <1>1, DirBlock
  <2>2. v.blocks[m[e].start_index] \in Block
    BY <1>1, <2>1
  <2> QED
    BY <2>2 DEF Items, Block
<1>5. CASE RemoveFails(v, d, c, r, w)
  BY <1>2, <1>4, <1>5 DEF RemoveFails
<1>6. CASE RemoveUnlists(v, d, c, r, w)
  <2>1. start \in BlockIndex /\ start # 0 /\ v.blocks[start].next = 0
    BY <1>6, SizesAssumption DEF RemoveUnlists, BlockIndex, WellLinked
  <2>0. w \in Seq(Word)
    BY <1>3, DirRead
  <2>2. w = Items(m, v.blocks, d) /\ IsDirWithBlock(m, d)
    BY <1>3, <2>1, DirRead DEF IsDirWithBlock
  <2> DEFINE left == EraseFirst(w, c)
  <2>3. \E k \in 1 .. Len(w) : w[k] = c
    BY <1>6 DEF RemoveUnlists
  <2>4. /\ left \in Seq(Word) /\ Len(left) = Len(w) - 1
        /\ \E k \in 1 .. Len(w) :
             /\ w[k] = c
             /\ \A l \in 1 .. Len(w) - 1 : left[l] = IF l < k THEN w[l] ELSE w[l + 1]
    BY <2>0, <2>3, EraseFirstType
  <2> HIDE DEF left
  <2>5. blk2 = WithChildren(v.blocks, start, left)
    BY <1>6 DEF RemoveUnlists, left
  <2>6. Len(w) \in Nat /\ Len(left) \in Nat /\ Len(w) <= ChildSlots /\ ChildSlots \in Nat
    BY <2>0, <2>2, <2>4, SizesAssumption DEF AllFit, ChildSlots
  <2>7. /\ blk2[start].items = left /\ blk2[start].next = 0
        /\ \A k \in BlockIndex : k # start => blk2[k] = v.blocks[k]
    <3>1. Len(left) <= ChildSlots /\ left \in Seq(Word)
      BY <2>4, <2>6
    <3>2. WithChildren(v.blocks, start, left)[start].items = left
      BY <1>1, <2>1, <3>1, WithChildrenFits
    <3>3. /\ WithChildren(v.blocks, start, left)[start].next = 0
          /\ \A k \in BlockIndex : k # start => WithChildren(v.blocks, start, left)[k] = v.blocks[k]
      BY <1>1, <2>1, <3>1, WithChildrenType
    <3> QED
      BY <2>5, <3>2, <3>3
  <2>8. \A b \in BlockIndex : blk2[b].next = v.blocks[b].next
    BY <2>1, <2>7
  <2>9. Items(m, blk2, d) = left
    BY <2>7 DEF Items
  <2>10. \A e \in Live(m) : IsDirWithBlock(m, e) /\ e # d
           => Items(m, blk2, e) = Items(m, v.blocks, e)
    <3>1. \A e \in Live(m) : IsDirWithBlock(m, e) /\ e # d => m[e].start_index # start
      BY <2>1 DEF WellLinked, IsDirWithBlock
    <3>2. \A e \in Live(m) : IsDirWithBlock(m, e) /\ m[e].start_index # start
             => Items(m, blk2, e) = Items(m, v.blocks, e)
      BY <1>1, <2>7, DirBlock DEF Items
    <3> QED
      BY <3>1, <3>2
  <2>11. ASSUME NEW e, NEW x, Lists(m, v.blocks, e, x), x # c
         PROVE  Lists(m, blk2, e, x)
    <3>1. e \in Live(m) /\ IsDirWithBlock(m, e)
      BY <2>11 DEF Lists, IsDirWithBlock
    <3>2. CASE e = d
      <4>1. PICK k \in 1 .. Len(w) : w[k] = x
        BY <2>0, <2>2, <2>11, <3>2 DEF Lists
      <4>2. PICK h \in 1 .. Len(w) :
               /\ w[h] = c
               /\ \A l \in 1 .. Len(w) - 1 : left[l] = IF l < h THEN w[l] ELSE w[l + 1]
        BY <2>4
      <4>3. k # h
        BY <2>11, <4>1, <4>2
      <4>4. DOMAIN left = 1 .. Len(w) - 1
        BY <2>4, <2>6
      <4>5. CASE k < h
        <5>1. k \in 1 .. Len(w) - 1 /\ left[k] = x
          BY <2>6, <4>1, <4>2, <4>5
        <5> QED
          BY <2>9, <3>1, <3>2, <4>4, <5>1 DEF Lists
      <4>6. CASE k > h
        <5>1. k - 1 \in 1 .. Len(w) - 1 /\ ~(k - 1 < h) /\ (k - 1) + 1 = k
          BY <2>6, <4>1, <4>2, <4>6
        <5>2. left[k - 1] = x
          BY <4>1, <4>2, <5>1
        <5> QED
          BY <2>9, <3>1, <3>2, <4>4, <5>1, <5>2 DEF Lists
      <4> QED
        BY <2>6, <4>1, <4>2, <4>3, <4>5, <4>6
    <3>3. CASE e # d
      BY <2>10, <2>11, <3>1, <3>3 DEF Lists
    <3> QED
      BY <3>2, <3>3
  <2>12. ASSUME NEW e \in Live(m), IsDirWithBlock(m, e)
         PROVE  /\ Len(Items(m, blk2, e)) <= Len(Items(m, v.blocks, e))
                /\ Len(Items(m, blk2, e)) <= ChildSlots
    <3>1. CASE e = d
      BY <2>2, <2>4, <2>6, <2>9, <3>1
    <3>2. CASE e # d
      BY <1>4, <2>10, <2>12, <3>2 DEF AllFit
    <3> QED
      BY <3>1, <3>2
  <2> QED
    BY <1>2, <2>8, <2>11, <2>12 DEF AllFit
<1> QED
  BY <1>3, <1>5, <1>6

\* Distinct elements are as many as their numbers.
LEMMA DistinctCount ==
  ASSUME NEW n \in Nat, NEW T, NEW f \in [1 .. n -> T],
         \A k, l \in 1 .. n : f[k] = f[l] => k = l,
         \A x \in T : \E k \in 1 .. n : f[k] = x
  PROVE  IsFiniteSet(T) /\ Cardinality(T) = n
<1>1. IsFiniteSet(1 .. n) /\ Cardinality(1 .. n) = n
  <2>1. 1 \in Int /\ n \in Int
    OBVIOUS
  <2>2. IsFiniteSet(1 .. n) /\ Cardinality(1 .. n) = IF 1 > n THEN 0 ELSE n - 1 + 1
    BY <2>1, FS_Interval
  <2> QED
    BY <2>2
<1>2. f \in Surjection(1 .. n, T) /\ f \in Injection(1 .. n, T)
  BY DEF Surjection, Injection, IsInjective
<1> QED
  BY <1>1, <1>2, FS_Surjection

\* What a directory reads in a volume of the current state is its block.
LEMMA ListedItems ==
  ASSUME Inv, NEW d \in Live(meta), meta[d].type = DIR, NEW c \in dir_block_read(Volume, d)
  PROVE  /\ c \in Seq(Word)
         /\ meta[d].start_index = 0 => c = <<>>
         /\ meta[d].start_index # 0 => c = Items(meta, blocks, d)
<1>1. Volume \in Vol /\ Volume.meta = meta /\ Volume.blocks = blocks
  BY InvParts, VolumeTyped DEF Volume
<1>2. WellLinked(Volume.meta, free_bitmap, Volume.blocks)
  BY <1>1 DEF Inv
<1> QED
  BY <1>1, <1>2, DirRead

\* Some list is read from every directory.
LEMMA ReadSome ==
  ASSUME Inv, NEW d \in Live(meta), meta[d].type = DIR
  PROVE  /\ meta[d].start_index = 0 => <<>> \in dir_block_read(Volume, d)
         /\ meta[d].start_index # 0 => Items(meta, blocks, d) \in dir_block_read(Volume, d)
<1>1. /\ Volume.meta = meta /\ Volume.blocks = blocks /\ meta[d] \in MetaEntry
      /\ meta \in [MetaIndex -> MetaEntry]
  BY InvParts DEF Volume, TypeOK, Live
<1>2. ASSUME meta[d].start_index = 0 PROVE <<>> \in dir_block_read(Volume, d)
  <2> DEFINE s == <<>>
  <2>1. s \in Chains(blocks, 0) /\ Len(s) = 0
    BY NoChain
  <2>2. Words(blocks, s) = <<>>
    BY <2>1 DEF Words
  <2> HIDE DEF s
  <2> QED
    BY <1>1, <1>2, <2>1, <2>2 DEF dir_block_read
<1>3. ASSUME meta[d].start_index # 0 PROVE Items(meta, blocks, d) \in dir_block_read(Volume, d)
  <2> DEFINE b == meta[d].start_index
             s == <<b>>
  <2>1. b \in BlockIndex
    BY <1>1, <1>3, DirBlock DEF IsDirWithBlock
  <2>2. blocks[b].next = 0
    BY <1>3 DEF Inv, WellLinked
  <2>3. s \in Chains(blocks, b) /\ Len(s) = 1 /\ s[1] = b
    BY <2>1, <2>2, OneBlock
  <2>4. Words(blocks, s) = blocks[b].items
    BY <2>3 DEF Words
  <2> HIDE DEF s
  <2> QED
    BY <1>1, <2>3, <2>4 DEF dir_block_read, Items
<1> QED
  BY <1>2, <1>3

\* A directory lists as many entries as its block has words.
LEMMA ListedCount ==
  ASSUME Inv, NEW d \in Live(meta), meta[d].type = DIR, meta[d].start_index # 0
  PROVE  Cardinality(ListedIn(d)) = Len(Items(meta, blocks, d))
<1> DEFINE c == Items(meta, blocks, d)
<1>1. c \in dir_block_read(Volume, d)
  BY ReadSome
<1>2. c \in Seq(Word) /\ \A w \in dir_block_read(Volume, d) : w = c
  BY <1>1, ListedItems
<1>3. \A k, l \in DOMAIN c : c[k] = c[l] => k = l
  <2>1. ListsOwn(meta, blocks, d)
    BY DEF Inv
  <2> QED
    BY <2>1 DEF ListsOwn, Items
<1> HIDE DEF c
<1> DEFINE n == Len(c)
           T == ListedIn(d)
<1>4. T = {c[k] : k \in DOMAIN c} /\ DOMAIN c = 1 .. n /\ n \in Nat
  BY <1>1, <1>2 DEF ListedIn
<1>5. /\ c \in [1 .. n -> T] /\ \A x \in T : \E k \in 1 .. n : c[k] = x
      /\ \A k, l \in 1 .. n : c[k] = c[l] => k = l
  BY <1>2, <1>3, <1>4
<1> HIDE DEF n, T
<1>6. Cardinality(T) = n
  BY <1>4, <1>5, DistinctCount
<1> QED
  BY <1>6 DEF c, n, T

\* The room CanList promises is left after the extra blocks were taken.
LEMMA RoomLeft ==
  ASSUME Inv, NEW d, NEW extra \in Nat, d \in MetaIndex, CanList(d, extra),
         NEW s \in allocate_blocks(free_bitmap, extra)
  PROVE  /\ d \in Live(meta) /\ meta[d].type = DIR
         /\ HasRoom(meta, free_bitmap \cup BlocksOf(s), blocks, d)
<1>1. d \in Live(meta) /\ meta[d].type = DIR
  BY DEF CanList, IsDir, Live
<1>2. meta[d].start_index # 0 => Len(Items(meta, blocks, d)) < ChildSlots
  BY <1>1, ListedCount DEF CanList
<1>3. ASSUME meta[d].start_index = 0
      PROVE  0 < ChildSlots /\ BlockIndex \ (free_bitmap \cup BlocksOf(s)) # {}
  <2>1. ListedIn(d) = {}
    <3>1. \A c \in dir_block_read(Volume, d) : DOMAIN c = {}
      <4> SUFFICES ASSUME NEW c \in dir_block_read(Volume, d) PROVE DOMAIN c = {}
        OBVIOUS
      <4>1. c = <<>>
        BY <1>1, <1>3, ListedItems
      <4> QED
        BY <4>1
    <3> QED
      BY <3>1 DEF ListedIn
  <2>2. 0 < ChildSlots
    BY <2>1, FS_EmptySet DEF CanList
  <2> DEFINE F == BlockIndex \ free_bitmap
             B == {s[k] : k \in 1 .. Len(s)}
  <2>3. Cardinality(F) > extra
    BY <1>3 DEF CanList
  <2>4. /\ Len(s) = extra /\ s \in [1 .. Len(s) -> BlockIndex]
        /\ \A k, l \in 1 .. Len(s) : s[k] = s[l] => k = l
        /\ BlocksOf(s) = B
    <3>1. s \in BlockSeq /\ Len(s) = extra
      BY Allocated
    <3> QED
      BY <3>1, BlockSeqType DEF BlocksOf
  <2>5. IsFiniteSet(B) /\ Cardinality(B) = extra
    <3>1. /\ s \in [1 .. extra -> B] /\ \A x \in B : \E k \in 1 .. extra : s[k] = x
          /\ \A k, l \in 1 .. extra : s[k] = s[l] => k = l
      BY <2>4
    <3> HIDE DEF B
    <3> QED
      BY <3>1, DistinctCount
  <2>6. ~(F \subseteq B)
    <3> SUFFICES ASSUME F \subseteq B PROVE FALSE
      OBVIOUS
    <3> HIDE DEF F, B
    <3>1. IsFiniteSet(F) /\ Cardinality(F) <= Cardinality(B)
      BY <2>5, FS_Subset
    <3>2. Cardinality(F) \in Nat
      BY <3>1, FS_CardinalityType
    <3> QED
      BY <2>3, <2>5, <3>1, <3>2
  <2> QED
    BY <2>2, <2>4, <2>6
<1> QED
  BY <1>1, <1>2, <1>3 DEF HasRoom

-----------------------------------------------------------------------------
(* The shape every call keeps: the account, no directory with too many      *)
(* children, and every entry besides the root listed by its parent.        *)

AllHang(m, blk) == \A j \in Live(m) \ {Root} : Lists(m, blk, m[j].parent, j)

Shape == /\ Accounted(meta, free_bitmap, blocks)
         /\ AllFit(meta, blocks)
         /\ AllHang(meta, blocks)

\* The parent of an entry that hangs in the tree is a directory in use.
LEMMA ParentsLive ==
  ASSUME NEW m, NEW blk, AllHang(m, blk)
  PROVE  \A j \in Live(m) \ {Root} : m[j].parent \in Live(m) /\ m[m[j].parent].type = DIR
  BY DEF AllHang, Lists, IsDirWithBlock

\* A change of the table and of blocks that leaves every directory's list alone.
LEMMA DirsSame ==
  ASSUME NEW m, NEW blk, NEW m2, NEW blk2,
         \A e : IsDirWithBlock(m2, e) <=> IsDirWithBlock(m, e),
         \A e : IsDirWithBlock(m, e) => Items(m2, blk2, e) = Items(m, blk, e)
  PROVE  /\ \A e, x : Lists(m, blk, e, x) => Lists(m2, blk2, e, x)
         /\ AllFit(m, blk) => AllFit(m2, blk2)
<1>1. ASSUME NEW e, NEW x, Lists(m, blk, e, x) PROVE Lists(m2, blk2, e, x)
  <2>1. IsDirWithBlock(m, e)
    BY <1>1 DEF Lists
  <2>2. Items(m2, blk2, e) = Items(m, blk, e)
    BY <2>1
  <2> QED
    BY <1>1, <2>1, <2>2 DEF Lists
<1>2. ASSUME AllFit(m, blk) PROVE AllFit(m2, blk2)
  <2> SUFFICES ASSUME NEW e \in Live(m2), IsDirWithBlock(m2, e)
               PROVE  Len(Items(m2, blk2, e)) <= ChildSlots
    BY DEF AllFit
  <2>1. IsDirWithBlock(m, e) /\ e \in Live(m)
    BY DEF IsDirWithBlock
  <2> QED
    BY <1>2, <2>1 DEF AllFit
<1> QED
  BY <1>1, <1>2

\* A directory's block is in use, so a call that keeps the words of the blocks in
\* use keeps every list.
LEMMA UsedItems ==
  ASSUME NEW m, NEW used, NEW blk, WellLinked(m, used, blk), NEW m2, NEW blk2,
         \A e : IsDirWithBlock(m, e) => m2[e].start_index = m[e].start_index,
         \A b \in used : blk2[b].items = blk[b].items
  PROVE  \A e : IsDirWithBlock(m, e) => Items(m2, blk2, e) = Items(m, blk, e)
<1> SUFFICES ASSUME NEW e, IsDirWithBlock(m, e)
             PROVE  Items(m2, blk2, e) = Items(m, blk, e)
  OBVIOUS
<1>1. m[e].start_index \in used
  BY DEF WellLinked, IsDirWithBlock
<1> QED
  BY <1>1 DEF Items

\* dir_add_child of the one entry that does not hang yet completes the shape.
LEMMA ChildHung ==
  ASSUME NEW v \in Vol, WellLinked(v.meta, v.free_bitmap, v.blocks),
         Accounted(v.meta, v.free_bitmap, v.blocks), AllFit(v.meta, v.blocks),
         NEW c \in MetaIndex, NEW d \in Live(v.meta), v.meta[d].type = DIR, v.meta[c].parent = d,
         \A j \in Live(v.meta) \ {Root, c} : Lists(v.meta, v.blocks, v.meta[j].parent, j),
         HasRoom(v.meta, v.free_bitmap, v.blocks, d), NEW r \in dir_add_child(v, d, c)
  PROVE  /\ r.ok
         /\ Accounted(r.vol.meta, r.vol.free_bitmap, r.vol.blocks)
         /\ AllFit(r.vol.meta, r.vol.blocks) /\ AllHang(r.vol.meta, r.vol.blocks)
         /\ Live(r.vol.meta) = Live(v.meta)
         /\ \A j \in MetaIndex : SameNode(v.meta, r.vol.meta, j)
<1> DEFINE m == v.meta
           m2 == r.vol.meta
<1>1. /\ r.ok /\ AllFit(m2, r.vol.blocks)
      /\ \A j \in MetaIndex : SameNode(m, m2, j)
      /\ Lists(m2, r.vol.blocks, d, c)
      /\ \A e, x : Lists(m, v.blocks, e, x) => Lists(m2, r.vol.blocks, e, x)
  BY ChildListed
<1>2. Accounted(r.vol.meta, r.vol.free_bitmap, r.vol.blocks)
  BY AddChildAccounted
<1>3. Live(m2) = Live(m)
  BY <1>1 DEF SameNode, Live
<1>4. AllHang(m2, r.vol.blocks)
  <2> SUFFICES ASSUME NEW j \in Live(m) \ {Root}
               PROVE  Lists(m2, r.vol.blocks, m2[j].parent, j)
    BY <1>3 DEF AllHang
  <2>1. m2[j].parent = m[j].parent
    BY <1>1 DEF SameNode, Live
  <2> QED
    BY <1>1, <2>1
<1> QED
  BY <1>1, <1>2, <1>3, <1>4

\* A new entry of the tree: entry i, of the name and below the parent of p.
Grows(p, type, size, i) ==
  /\ MayCreate(p) /\ Canonical(p)
  /\ path_index[ParentPath(p)] \in Live(meta) /\ meta[path_index[ParentPath(p)]].type = DIR
  /\ i \in MetaIndex \ Live(meta) /\ Live(meta') = Live(meta) \cup {i}
  /\ \A j \in Live(meta) : SameNode(meta, meta', j)
  /\ meta'[i].type = type /\ meta'[i].parent = path_index[ParentPath(p)]
  /\ meta'[i].name = Basename(p) /\ meta'[i].total_size = size

LEMMA CanonicalBasename ==
  ASSUME NEW p \in ClientPath, Canonical(p), p.toks # <<>>
  PROVE  Trunc[Basename(p)] = Basename(p) /\ Basename(p) \in Name
<1>1. p.toks \in Seq(Name)
  BY ClientAssumption DEF Path
<1>2. Len(p.toks) \in DOMAIN p.toks
  BY <1>1
<1> QED
  BY <1>1, <1>2 DEF Canonical, Basename

LEMMA CreateShape ==
  ASSUME Inv, Shape, NEW p \in ClientPath, NEW size \in Size, CreateInside(p, size)
  PROVE  Shape' /\ \E i \in MetaIndex : Grows(p, FILE, size, i) /\ path_index' = Inserted(p, i)
<1> DEFINE d == path_index[ParentPath(p)]
<1>1. file_create(p, size) /\ Canonical(p) /\ RoomUnder(ParentPath(p), BlocksFor(size))
  BY DEF CreateInside
<1>2. PICK i \in MetaIndex : \E s \in BlockSeq : \E v \in Vol :
         /\ Creates(p, size, i, s, v)
         /\ \E r \in dir_add_child(v, d, i) : Becomes(r.vol)
         /\ path_index' = Inserted(p, i)
  BY <1>1, CreateParts
<1>3. PICK s \in BlockSeq : \E v \in Vol :
         /\ Creates(p, size, i, s, v)
         /\ \E r \in dir_add_child(v, d, i) : Becomes(r.vol)
         /\ path_index' = Inserted(p, i)
  BY <1>2
<1>4. PICK v \in Vol :
         /\ Creates(p, size, i, s, v)
         /\ \E r \in dir_add_child(v, d, i) : Becomes(r.vol)
         /\ path_index' = Inserted(p, i)
  BY <1>3
<1> DEFINE e == NewEntry(FILE, p, FirstOf(s), size)
<1>5. /\ MayCreate(p) /\ d \in Live(meta) /\ i \notin Live(meta) /\ i # Root
      /\ v.free_bitmap = free_bitmap \cup BlocksOf(s)
      /\ \A b \in free_bitmap : v.blocks[b] = blocks[b]
      /\ \A k \in 1 .. Len(s) : v.blocks[s[k]].next = NextIn(s, k)
      /\ WellLinked(v.meta, v.free_bitmap, v.blocks)
      /\ Live(v.meta) = Live(meta) \cup {i}
      /\ v.meta[i] = e /\ \A j \in MetaIndex \ {i} : v.meta[j] = meta[j]
      /\ s \in allocate_blocks(free_bitmap, BlocksFor(size)) /\ size \in Nat
  BY <1>4 DEF Creates
<1>6. PICK r \in dir_add_child(v, d, i) : Becomes(r.vol)
  BY <1>4
<1>7. /\ e.type = FILE /\ e.parent = d /\ e.name = Basename(p) /\ e.total_size = size
      /\ e.start_index = FirstOf(s) /\ e.valid = 0
  <2>1. Trunc[Basename(p)] = Basename(p)
    BY <1>1, <1>5, CanonicalBasename DEF MayCreate
  <2> QED
    BY <2>1 DEF NewEntry
<1> HIDE DEF e
<1>8. d \in MetaIndex /\ d # i /\ v.meta[d] = meta[d] /\ BlocksFor(size) \in Nat
  BY <1>5, BlocksForType DEF Live
<1>9. CanList(d, BlocksFor(size))
  BY <1>1, <1>5 DEF RoomUnder, MayCreate
<1> HIDE DEF d
<1>10. /\ meta[d].type = DIR
       /\ HasRoom(meta, free_bitmap \cup BlocksOf(s), blocks, d)
  BY <1>5, <1>8, <1>9, RoomLeft
<1>11. /\ meta \in [MetaIndex -> MetaEntry] /\ v.meta \in [MetaIndex -> MetaEntry]
       /\ free_bitmap \in SUBSET BlockIndex /\ blocks \in [BlockIndex -> Block]
       /\ WellLinked(meta, free_bitmap, blocks)
       /\ Accounted(meta, free_bitmap, blocks) /\ AllFit(meta, blocks) /\ AllHang(meta, blocks)
  BY InvBlocks DEF Vol, Shape
<1>12. /\ \A x : IsDirWithBlock(v.meta, x) <=> IsDirWithBlock(meta, x)
       /\ \A x : IsDirWithBlock(meta, x) => v.meta[x].start_index = meta[x].start_index
       /\ \A b \in free_bitmap : v.blocks[b].items = blocks[b].items
  <2>1. ~IsDirWithBlock(v.meta, i) /\ ~IsDirWithBlock(meta, i)
    BY <1>5, <1>7 DEF IsDirWithBlock, FILE, DIR
  <2>2. \A x : x # i => (IsDirWithBlock(v.meta, x) <=> IsDirWithBlock(meta, x))
    BY <1>5 DEF IsDirWithBlock, Live
  <2>3. \A x : IsDirWithBlock(meta, x) => x \in MetaIndex \ {i}
    BY <2>1 DEF IsDirWithBlock, Live
  <2> QED
    BY <1>5, <2>1, <2>2, <2>3
<1>13. /\ \A x : IsDirWithBlock(meta, x) => Items(v.meta, v.blocks, x) = Items(meta, blocks, x)
       /\ \A x, y : Lists(meta, blocks, x, y) => Lists(v.meta, v.blocks, x, y)
       /\ AllFit(v.meta, v.blocks)
  <2>1. \A x : IsDirWithBlock(meta, x) => Items(v.meta, v.blocks, x) = Items(meta, blocks, x)
    BY <1>11, <1>12, UsedItems
  <2> QED
    BY <1>11, <1>12, <2>1, DirsSame
<1>14. HasRoom(v.meta, v.free_bitmap, v.blocks, d)
  <2>1. meta[d].start_index # 0 => Items(v.meta, v.blocks, d) = Items(meta, blocks, d)
    BY <1>5, <1>10, <1>13 DEF IsDirWithBlock
  <2> QED
    BY <1>5, <1>8, <1>10, <2>1 DEF HasRoom
<1>15. Accounted(v.meta, v.free_bitmap, v.blocks)
  <2> DEFINE o == <<>>
  <2>1. BlocksOf(o) = {}
    BY NoChain
  <2> HIDE DEF o
  <2>2. s \in Chains(v.blocks, FirstOf(s)) /\ Len(s) = BlocksFor(size)
    <3>1. DOMAIN s = 1 .. Len(s)
      BY BlockSeqType
    <3> QED
      BY <1>5, <1>8, <3>1, Allocated DEF Chains
  <2>3. \A j \in MetaIndex \ {i} : SameAccount(meta, v.meta, j)
    BY <1>5 DEF SameAccount, SameLinks
  <2>4. i \in Live(v.meta) /\ v.meta[i].start_index = FirstOf(s) /\ v.meta[i].total_size = size
    BY <1>5, <1>7
  <2>5. Exchanges(meta, free_bitmap, blocks, v.meta, v.free_bitmap, v.blocks, i, o, s)
    BY <1>5, <2>1, <2>2, <2>3, <2>4 DEF Exchanges, o
  <2> QED
    BY <1>11, <2>5, AccountStep
<1>16. \A j \in Live(v.meta) \ {Root, i} : Lists(v.meta, v.blocks, v.meta[j].parent, j)
  <2>1. \A j \in Live(v.meta) \ {Root, i} : j \in Live(meta) \ {Root} /\ v.meta[j] = meta[j]
    BY <1>5 DEF Live
  <2> QED
    BY <1>11, <1>13, <2>1 DEF AllHang
<1>17. /\ Accounted(r.vol.meta, r.vol.free_bitmap, r.vol.blocks)
       /\ AllFit(r.vol.meta, r.vol.blocks) /\ AllHang(r.vol.meta, r.vol.blocks)
       /\ Live(r.vol.meta) = Live(v.meta)
       /\ \A j \in MetaIndex : SameNode(v.meta, r.vol.meta, j)
  <2>1. d \in Live(v.meta) /\ v.meta[d].type = DIR /\ v.meta[i].parent = d
    BY <1>5, <1>7, <1>8, <1>10
  <2>2. WellLinked(v.meta, v.free_bitmap, v.blocks) /\ AllFit(v.meta, v.blocks)
    BY <1>5, <1>13
  <2>3. r \in dir_add_child(v, d, i) /\ i \in MetaIndex /\ v \in Vol
    BY <1>6
  <2> QED
    BY <1>14, <1>15, <1>16, <2>1, <2>2, <2>3, ChildHung
<1>18. Shape'
  BY <1>6, <1>17 DEF Shape, Becomes
<1>19. Grows(p, FILE, size, i)
  <2>1. Live(meta') = Live(meta) \cup {i} /\ \A j \in MetaIndex : SameNode(v.meta, meta', j)
    BY <1>5, <1>6, <1>17 DEF Becomes
  <2>2. \A j \in Live(meta) : SameNode(meta, meta', j)
    BY <1>5, <2>1 DEF SameNode, Live
  <2>3. /\ meta'[i].type = FILE /\ meta'[i].parent = d
        /\ meta'[i].name = Basename(p) /\ meta'[i].total_size = size
    BY <1>5, <1>7, <2>1 DEF SameNode
  <2> QED
    BY <1>1, <1>5, <1>10, <2>1, <2>2, <2>3 DEF Grows, d
<1> QED
  BY <1>4, <1>18, <1>19

\* Without extra blocks.
LEMMA RoomNow ==
  ASSUME Inv, NEW d \in MetaIndex, CanList(d, 0)
  PROVE  /\ d \in Live(meta) /\ meta[d].type = DIR
         /\ HasRoom(meta, free_bitmap, blocks, d)
<1> DEFINE s == <<>>
<1>1. 0 \in Nat /\ 0 \in 0 .. NB /\ s \in [1 .. 0 -> BlockIndex] /\ DOMAIN s = {} /\ Len(s) = 0
  BY SizesAssumption
<1>2. s \in allocate_blocks(free_bitmap, 0) /\ BlocksOf(s) = {}
  BY <1>1 DEF allocate_blocks, BlockSeq, BlocksOf
<1> HIDE DEF s
<1>3. free_bitmap \cup BlocksOf(s) = free_bitmap
  BY <1>2
<1> QED
  BY <1>1, <1>2, <1>3, RoomLeft

LEMMA MakeDirShape ==
  ASSUME Inv, Shape, NEW p \in ClientPath, MakeDirInside(p)
  PROVE  Shape' /\ \E i \in MetaIndex : Grows(p, DIR, 0, i) /\ path_index' = rebuild_path_index(meta')
<1> DEFINE d == path_index[ParentPath(p)]
<1>1. dir_create(p) /\ Canonical(p) /\ RoomUnder(ParentPath(p), 0)
  BY DEF MakeDirInside
<1>2. PICK i \in MetaIndex : \E v \in Vol :
         DirCreates(p, i, v) /\ \E r \in dir_add_child(v, d, i) : DirCreated(i, r)
  BY <1>1, DirCreateParts
<1>3. PICK v \in Vol :
         DirCreates(p, i, v) /\ \E r \in dir_add_child(v, d, i) : DirCreated(i, r)
  BY <1>2
<1>4. PICK r \in dir_add_child(v, d, i) : DirCreated(i, r)
  BY <1>3
<1> DEFINE e == NewEntry(DIR, p, 0, 0)
<1>5. /\ MayCreate(p) /\ d \in Live(meta) /\ i \notin Live(meta) /\ i # Root
      /\ v.free_bitmap = free_bitmap /\ v.blocks = blocks
      /\ WellLinked(v.meta, v.free_bitmap, v.blocks)
      /\ Live(v.meta) = Live(meta) \cup {i}
      /\ v.meta[i] = e /\ \A j \in MetaIndex \ {i} : v.meta[j] = meta[j]
  BY <1>3 DEF DirCreates
<1>6. /\ e.type = DIR /\ e.parent = d /\ e.name = Basename(p) /\ e.total_size = 0
      /\ e.start_index = 0 /\ e.valid = 0
  <2>1. Trunc[Basename(p)] = Basename(p)
    BY <1>1, <1>5, CanonicalBasename DEF MayCreate
  <2> QED
    BY <2>1 DEF NewEntry
<1> HIDE DEF e
<1>7. d \in MetaIndex /\ d # i /\ v.meta[d] = meta[d]
  BY <1>5 DEF Live
<1>8. CanList(d, 0)
  BY <1>1, <1>5 DEF RoomUnder, MayCreate
<1> HIDE DEF d
<1>9. meta[d].type = DIR /\ HasRoom(meta, free_bitmap, blocks, d)
  BY <1>7, <1>8, RoomNow
<1>10. /\ meta \in [MetaIndex -> MetaEntry] /\ v.meta \in [MetaIndex -> MetaEntry]
       /\ free_bitmap \in SUBSET BlockIndex /\ blocks \in [BlockIndex -> Block]
       /\ WellLinked(meta, free_bitmap, blocks)
       /\ Accounted(meta, free_bitmap, blocks) /\ AllFit(meta, blocks) /\ AllHang(meta, blocks)
  BY InvBlocks DEF Vol, Shape
<1>11. /\ \A x : IsDirWithBlock(v.meta, x) <=> IsDirWithBlock(meta, x)
       /\ \A x : IsDirWithBlock(meta, x) => Items(v.meta, v.blocks, x) = Items(meta, blocks, x)
  <2>1. ~IsDirWithBlock(v.meta, i) /\ ~IsDirWithBlock(meta, i)
    BY <1>5, <1>6 DEF IsDirWithBlock
  <2>2. \A x : x # i => (IsDirWithBlock(v.meta, x) <=> IsDirWithBlock(meta, x))
    BY <1>5 DEF IsDirWithBlock, Live
  <2>3. \A x : IsDirWithBlock(meta, x) => x \in MetaIndex \ {i}
    BY <2>1 DEF IsDirWithBlock, Live
  <2> QED
    BY <1>5, <2>1, <2>2, <2>3 DEF Items
<1>12. /\ \A x, y : Lists(meta, blocks, x, y) => Lists(v.meta, v.blocks, x, y)
       /\ AllFit(v.meta, v.blocks)
  BY <1>10, <1>11, DirsSame
<1>13. HasRoom(v.meta, v.free_bitmap, v.blocks, d)
  BY <1>5, <1>7, <1>9 DEF HasRoom, Items
<1>14. Accounted(v.meta, v.free_bitmap, v.blocks)
  <2> DEFINE o == <<>>
  <2>1. BlocksOf(o) = {} /\ o \in Chains(v.blocks, 0)
    BY NoChain
  <2> HIDE DEF o
  <2>2. \A j \in MetaIndex \ {i} : SameAccount(meta, v.meta, j)
    BY <1>5 DEF SameAccount, SameLinks
  <2>3. i \in Live(v.meta) /\ v.meta[i].start_index = 0 /\ v.meta[i].type # FILE
    BY <1>5, <1>6 DEF FILE, DIR
  <2>4. Exchanges(meta, free_bitmap, blocks, v.meta, v.free_bitmap, v.blocks, i, o, o)
    BY <1>5, <2>1, <2>2, <2>3 DEF Exchanges, o
  <2> QED
    BY <1>10, <2>4, AccountStep
<1>15. \A j \in Live(v.meta) \ {Root, i} : Lists(v.meta, v.blocks, v.meta[j].parent, j)
  <2>1. \A j \in Live(v.meta) \ {Root, i} : j \in Live(meta) \ {Root} /\ v.meta[j] = meta[j]
    BY <1>5 DEF Live
  <2> QED
    BY <1>10, <1>12, <2>1 DEF AllHang
<1>16. /\ r.ok
       /\ Accounted(r.vol.meta, r.vol.free_bitmap, r.vol.blocks)
       /\ AllFit(r.vol.meta, r.vol.blocks) /\ AllHang(r.vol.meta, r.vol.blocks)
       /\ Live(r.vol.meta) = Live(v.meta)
       /\ \A j \in MetaIndex : SameNode(v.meta, r.vol.meta, j)
  <2>1. d \in Live(v.meta) /\ v.meta[d].type = DIR /\ v.meta[i].parent = d
    BY <1>5, <1>6, <1>7, <1>9
  <2>2. WellLinked(v.meta, v.free_bitmap, v.blocks) /\ AllFit(v.meta, v.blocks)
    BY <1>5, <1>12
  <2>3. r \in dir_add_child(v, d, i) /\ i \in MetaIndex /\ v \in Vol
    BY <1>4
  <2> QED
    BY <1>13, <1>14, <1>15, <2>1, <2>2, <2>3, ChildHung
<1>17. Becomes(r.vol) /\ path_index' = rebuild_path_index(meta')
  BY <1>4, <1>16 DEF DirCreated
<1>18. Shape'
  BY <1>16, <1>17 DEF Shape, Becomes
<1>19. Grows(p, DIR, 0, i)
  <2>1. Live(meta') = Live(meta) \cup {i} /\ \A j \in MetaIndex : SameNode(v.meta, meta', j)
    BY <1>5, <1>16, <1>17 DEF Becomes
  <2>2. \A j \in Live(meta) : SameNode(meta, meta', j)
    BY <1>5, <2>1 DEF SameNode, Live
  <2>3. /\ meta'[i].type = DIR /\ meta'[i].parent = d
        /\ meta'[i].name = Basename(p) /\ meta'[i].total_size = 0
    BY <1>5, <1>6, <2>1 DEF SameNode
  <2> QED
    BY <1>1, <1>5, <1>9, <2>1, <2>2, <2>3 DEF Grows, d
<1> QED
  BY <1>17, <1>18, <1>19

\* The entry of p, which has nothing below it, leaves the tree.
Shrinks(p) ==
  LET i == path_index[p]
  IN  /\ p \in DOMAIN path_index /\ i \in Live(meta) \ {Root}
      /\ \A j \in Live(meta) : meta[j].parent # i
      /\ Live(meta') = Live(meta) \ {i}
      /\ \A j \in Live(meta') : SameNode(meta, meta', j)

\* Entry i, with nothing below it, is taken out of its parent's block, and its slot
\* and its blocks, the chain o, are freed.
LEMMA RemovedShape ==
  ASSUME Inv, Shape, TypeOK', NEW i \in Live(meta) \ {Root},
         \A j \in Live(meta) : meta[j].parent # i,
         NEW o \in Chains(blocks, meta[i].start_index),
         free_bitmap' = free_bitmap \ BlocksOf(o),
         NEW f \in Vol, f.meta = meta, f.blocks = blocks,
         NEW r \in dir_remove_child(f, meta[i].parent, i), blocks' = r.vol.blocks,
         meta'[i].valid = 1, \A j \in MetaIndex \ {i} : meta'[j] = meta[j]
  PROVE  Shape' /\ Live(meta') = Live(meta) \ {i} /\ \A j \in Live(meta') : SameNode(meta, meta', j)
<1> DEFINE d == meta[i].parent
<1>1. /\ meta \in [MetaIndex -> MetaEntry] /\ meta' \in [MetaIndex -> MetaEntry]
      /\ free_bitmap \in SUBSET BlockIndex /\ blocks \in [BlockIndex -> Block]
      /\ WellLinked(meta, free_bitmap, blocks)
      /\ Accounted(meta, free_bitmap, blocks) /\ AllFit(meta, blocks) /\ AllHang(meta, blocks)
  BY InvBlocks DEF TypeOK, Shape
<1>2. d \in Live(meta) /\ meta[d].type = DIR /\ i \in MetaIndex
  BY <1>1, ParentsLive DEF Live
<1>3. /\ \A b \in BlockIndex : blocks'[b].next = blocks[b].next
      /\ \A e, x : Lists(meta, blocks, e, x) /\ x # i => Lists(meta, blocks', e, x)
      /\ AllFit(meta, blocks')
  <2>1. /\ WellLinked(f.meta, free_bitmap, f.blocks) /\ AllFit(f.meta, f.blocks)
        /\ d \in Live(f.meta) /\ f.meta[d].type = DIR
    BY <1>1, <1>2
  <2>2. /\ \A b \in BlockIndex : r.vol.blocks[b].next = f.blocks[b].next
        /\ \A e, x : Lists(f.meta, f.blocks, e, x) /\ x # i => Lists(f.meta, r.vol.blocks, e, x)
        /\ AllFit(f.meta, r.vol.blocks)
    BY <1>2, <2>1, ChildTakenOut
  <2> QED
    BY <2>2
<1>4. Live(meta') = Live(meta) \ {i}
  BY <1>2 DEF Live
<1>5. \A j \in Live(meta') : j \in Live(meta) /\ j # i /\ meta'[j] = meta[j]
  BY <1>4 DEF Live
<1>6. Accounted(meta', free_bitmap', blocks')
  <2> DEFINE c == <<>>
  <2>1. BlocksOf(c) = {}
    BY NoChain
  <2> HIDE DEF c
  <2>2. \A j \in MetaIndex \ {i} : SameAccount(meta, meta', j)
    BY DEF SameAccount, SameLinks
  <2>3. Exchanges(meta, free_bitmap, blocks, meta', free_bitmap', blocks', i, o, c)
    BY <1>1, <1>3, <1>4, <2>1, <2>2 DEF Exchanges, c
  <2> QED
    BY <1>1, <1>2, <2>3, AccountStep
<1>7. \A e : IsDirWithBlock(meta', e) => /\ IsDirWithBlock(meta, e)
                                         /\ Items(meta', blocks', e) = Items(meta, blocks', e)
  BY <1>5 DEF IsDirWithBlock, Items
<1>8. AllFit(meta', blocks')
  BY <1>3, <1>5, <1>7 DEF AllFit
<1>9. AllHang(meta', blocks')
  <2> SUFFICES ASSUME NEW j \in Live(meta') \ {Root}
               PROVE  Lists(meta', blocks', meta'[j].parent, j)
    BY DEF AllHang
  <2> DEFINE e == meta[j].parent
  <2>1. j \in Live(meta) \ {Root} /\ j # i /\ meta'[j].parent = e /\ e # i
    BY <1>5
  <2>2. Lists(meta, blocks, e, j)
    BY <1>1, <2>1 DEF AllHang
  <2>3. Lists(meta, blocks', e, j)
    BY <1>3, <2>1, <2>2
  <2>4. IsDirWithBlock(meta', e)
    BY <1>4, <1>5, <2>1, <2>3 DEF Lists, IsDirWithBlock
  <2> QED
    BY <1>7, <2>1, <2>3, <2>4 DEF Lists
<1> QED
  BY <1>4, <1>5, <1>6, <1>8, <1>9 DEF Shape, SameNode

LEMMA DeleteShape ==
  ASSUME Inv, Shape, TypeOK', NEW p \in ClientPath, file_delete(p)
  PROVE  Shape' /\ Shrinks(p) /\ path_index' = rebuild_path_index(meta')
<1> DEFINE i == path_index[p]
<1>1. i \in MetaIndex /\ i \in Live(meta) /\ meta[i].type = FILE /\ i # Root
      /\ p \in DOMAIN path_index
  BY DeleteParts DEF file_delete
<1>2. PICK s \in Chains(blocks, meta[i].start_index) : \E f \in Vol : \E v \in Vol :
         DeleteEffect(i, s, f, v)
  BY DeleteParts
<1> HIDE DEF i
<1>3. PICK f \in Vol : \E v \in Vol : DeleteEffect(i, s, f, v)
  BY <1>2
<1>4. PICK v \in Vol : DeleteEffect(i, s, f, v)
  BY <1>3
<1>5. /\ AllHang(meta, blocks) /\ meta[Root].parent = 0 /\ 0 \notin MetaIndex
  BY SizesAssumption DEF Shape, Inv, RootAlive, MetaIndex
<1>6. \A j \in Live(meta) : meta[j].parent # i
  <2>1. \A j \in Live(meta) \ {Root} : meta[meta[j].parent].type = DIR
    BY <1>5, ParentsLive
  <2> QED
    BY <1>1, <1>5, <2>1 DEF FILE, DIR
<1>7. meta[i].parent \in MetaIndex
  BY <1>1, <1>5, ParentsLive DEF Live
<1>8. PICK r \in dir_remove_child(f, meta[i].parent, i) : v = r.vol
  BY <1>4, <1>7 DEF DeleteEffect
<1>9. /\ f.meta = meta /\ f.blocks = blocks /\ free_bitmap' = free_bitmap \ BlocksOf(s)
      /\ blocks' = r.vol.blocks /\ path_index' = rebuild_path_index(meta')
      /\ meta'[i].valid = 1 /\ \A j \in MetaIndex \ {i} : meta'[j] = meta[j]
  BY <1>4, <1>8 DEF DeleteEffect
<1>10. /\ Shape' /\ Live(meta') = Live(meta) \ {i}
       /\ \A j \in Live(meta') : SameNode(meta, meta', j)
  <2>1. i \in Live(meta) \ {Root}
    BY <1>1
  <2> QED
    BY <1>6, <1>8, <1>9, <2>1, RemovedShape
<1> QED
  BY <1>1, <1>6, <1>9, <1>10 DEF Shrinks, i

LEMMA DirDeleteShape ==
  ASSUME Inv, Shape, TypeOK', NEW p \in ClientPath, dir_delete(p)
  PROVE  Shape' /\ Shrinks(p) /\ path_index' = rebuild_path_index(meta')
<1> DEFINE i == path_index[p]
           start == meta[i].start_index
<1>1. /\ i \in MetaIndex /\ i \in Live(meta) /\ meta[i].type = DIR /\ i # Root
      /\ p \in DOMAIN path_index /\ <<>> \in dir_block_read(Volume, i)
  BY DirDeleteParts DEF dir_delete
<1>2. PICK v \in Vol : DirDeleteEffect(i, v)
  BY DirDeleteParts
<1> HIDE DEF i
<1>3. /\ AllHang(meta, blocks) /\ meta[Root].parent = 0 /\ 0 \notin MetaIndex
  BY SizesAssumption DEF Shape, Inv, RootAlive, MetaIndex
<1>4. \A j \in Live(meta) : meta[j].parent # i
  <2> SUFFICES ASSUME NEW j \in Live(meta), meta[j].parent = i PROVE FALSE
    OBVIOUS
  <2>1. j # Root
    BY <1>1, <1>3
  <2>2. Lists(meta, blocks, i, j)
    BY <1>3, <2>1 DEF AllHang
  <2>3. start # 0
    BY <2>2 DEF Lists, IsDirWithBlock
  <2>4. <<>> = Items(meta, blocks, i)
    BY <1>1, <2>3, ListedItems
  <2> QED
    BY <2>2, <2>4 DEF Lists
<1>5. PICK r \in dir_remove_child(Volume, meta[i].parent, i) : v = r.vol
  BY <1>2 DEF DirDeleteEffect
<1>6. /\ free_bitmap' = free_bitmap \ {start} /\ blocks' = r.vol.blocks
      /\ path_index' = rebuild_path_index(meta')
      /\ meta'[i].valid = 1 /\ \A j \in MetaIndex \ {i} : meta'[j] = meta[j]
  BY <1>2, <1>5 DEF DirDeleteEffect
<1>7. \E o \in Chains(blocks, start) : free_bitmap' = free_bitmap \ BlocksOf(o)
  <2>1. CASE start = 0
    <3>1. 0 \notin free_bitmap
      BY InvBlocks, SizesAssumption DEF BlockIndex
    <3> QED
      BY <1>6, <2>1, <3>1, NoChain
  <2>2. CASE start # 0
    <3>1. start \in BlockIndex
      BY <1>1, <2>2, InvBlocks, DirBlock DEF IsDirWithBlock
    <3>2. blocks[start].next = 0
      BY <1>1, <2>2 DEF Inv, WellLinked
    <3> QED
      BY <1>6, <3>1, <3>2, OneBlock
  <2> QED
    BY <2>1, <2>2
<1>8. PICK o \in Chains(blocks, start) : free_bitmap' = free_bitmap \ BlocksOf(o)
  BY <1>7
<1>9. Volume \in Vol /\ Volume.meta = meta /\ Volume.blocks = blocks
  BY InvParts, VolumeTyped DEF Volume
<1>10. /\ Shape' /\ Live(meta') = Live(meta) \ {i}
       /\ \A j \in Live(meta') : SameNode(meta, meta', j)
  <2>1. i \in Live(meta) \ {Root}
    BY <1>1
  <2> QED
    BY <1>4, <1>5, <1>6, <1>8, <1>9, <2>1, RemovedShape
<1> QED
  BY <1>1, <1>4, <1>6, <1>10 DEF Shrinks, i

\* The file of p gets the name and the parent q spells.
Moves(p, q) ==
  LET i == path_index[p]
      to == path_index[PrefixPath(q)]
  IN  /\ MayRename(p, q) /\ Canonical(q)
      /\ i \in Live(meta) \ {Root} /\ meta[i].type = FILE
      /\ to \in Live(meta) /\ meta[to].type = DIR
      /\ Live(meta') = Live(meta)
      /\ \A j \in Live(meta) \ {i} : SameNode(meta, meta', j)
      /\ meta'[i].type = FILE /\ meta'[i].total_size = meta[i].total_size
      /\ meta'[i].parent = to /\ meta'[i].name = Basename(q)

LEMMA RenameShape ==
  ASSUME Inv, Shape, NEW p \in ClientPath, NEW q \in ClientPath, RenameInside(p, q)
  PROVE  Shape' /\ Moves(p, q) /\ path_index' = rebuild_path_index(meta')
<1> DEFINE i == path_index[p]
           to == path_index[PrefixPath(q)]
           d == meta[i].parent
<1>1. /\ file_rename(p, q) /\ Canonical(q) /\ RoomUnder(PrefixPath(q), 0)
      /\ MayRename(p, q) /\ meta[i].type = FILE
  BY DEF RenameInside, file_rename
<1>2. PICK r \in dir_remove_child(Volume, d, i) :
        \E a \in dir_add_child(Moved(p, q, r), to, i) :
           Becomes(a.vol) /\ path_index' = rebuild_path_index(meta')
  BY <1>1 DEF file_rename
<1>3. PICK a \in dir_add_child(Moved(p, q, r), to, i) :
           Becomes(a.vol) /\ path_index' = rebuild_path_index(meta')
  BY <1>2
<1> DEFINE v == Moved(p, q, r)
<1>4. /\ i \in Live(meta) /\ i # Root /\ to \in Live(meta)
      /\ v \in Vol
      /\ WellLinked(v.meta, v.free_bitmap, v.blocks)
      /\ Live(v.meta) = Live(meta) /\ v.meta[i].parent = to
      /\ \A j \in MetaIndex : v.meta[j].type = meta[j].type
      /\ \A j \in MetaIndex \ {i} : v.meta[j] = meta[j]
      /\ v.meta[i].name = Basename(q) /\ v.meta[i].total_size = meta[i].total_size
      /\ v.meta[i].start_index = meta[i].start_index
      /\ v.free_bitmap = free_bitmap /\ v.blocks = r.vol.blocks
  BY <1>1, MovedLinked
<1>5. CanList(to, 0)
  BY <1>1 DEF RoomUnder, MayRename
<1> HIDE DEF v, to, i
<1>6. a \in dir_add_child(v, to, i) /\ i \in MetaIndex /\ to \in MetaIndex
  BY <1>3, <1>4 DEF v, Live
<1>7. meta[to].type = DIR /\ HasRoom(meta, free_bitmap, blocks, to)
  BY <1>5, <1>6, RoomNow
<1>8. /\ meta \in [MetaIndex -> MetaEntry] /\ v.meta \in [MetaIndex -> MetaEntry]
      /\ free_bitmap \in SUBSET BlockIndex /\ blocks \in [BlockIndex -> Block]
      /\ WellLinked(meta, free_bitmap, blocks)
      /\ Accounted(meta, free_bitmap, blocks) /\ AllFit(meta, blocks) /\ AllHang(meta, blocks)
  BY <1>4, InvBlocks DEF Vol, Shape
<1>9. d \in Live(meta) /\ meta[d].type = DIR
  BY <1>4, <1>8, ParentsLive
<1>10. /\ \A b \in BlockIndex : v.blocks[b].next = blocks[b].next
       /\ \A e, x : Lists(meta, blocks, e, x) /\ x # i => Lists(meta, v.blocks, e, x)
       /\ \A e \in Live(meta) : IsDirWithBlock(meta, e)
             => Len(Items(meta, v.blocks, e)) <= Len(Items(meta, blocks, e))
       /\ AllFit(meta, v.blocks)
  <2>1. Volume \in Vol /\ Volume.meta = meta /\ Volume.blocks = blocks
    BY InvParts, VolumeTyped DEF Volume
  <2>2. /\ WellLinked(Volume.meta, free_bitmap, Volume.blocks)
        /\ AllFit(Volume.meta, Volume.blocks)
        /\ d \in Live(Volume.meta) /\ Volume.meta[d].type = DIR
    BY <1>8, <1>9, <2>1
  <2>3. /\ \A b \in BlockIndex : r.vol.blocks[b].next = Volume.blocks[b].next
        /\ \A e, x : Lists(Volume.meta, Volume.blocks, e, x) /\ x # i
              => Lists(Volume.meta, r.vol.blocks, e, x)
        /\ \A e \in Live(Volume.meta) : IsDirWithBlock(Volume.meta, e)
              => Len(Items(Volume.meta, r.vol.blocks, e)) <= Len(Items(Volume.meta, Volume.blocks, e))
        /\ AllFit(Volume.meta, r.vol.blocks)
    BY <1>2, <1>6, <2>1, <2>2, ChildTakenOut
  <2> QED
    BY <1>4, <2>1, <2>3
<1>11. \A j \in MetaIndex : /\ v.meta[j].type = meta[j].type
                            /\ v.meta[j].start_index = meta[j].start_index
                            /\ v.meta[j].total_size = meta[j].total_size
                            /\ v.meta[j].valid = meta[j].valid
  <2>1. v.meta[i].valid = meta[i].valid
    BY <1>4, <1>6 DEF Live
  <2> QED
    BY <1>4, <2>1
<1>12. /\ \A x : IsDirWithBlock(v.meta, x) <=> IsDirWithBlock(meta, x)
       /\ \A x : IsDirWithBlock(meta, x) => Items(v.meta, v.blocks, x) = Items(meta, v.blocks, x)
  BY <1>4, <1>11 DEF IsDirWithBlock, Items, Live
<1>13. /\ \A x, y : Lists(meta, v.blocks, x, y) => Lists(v.meta, v.blocks, x, y)
       /\ AllFit(v.meta, v.blocks)
  BY <1>10, <1>12, DirsSame
<1>14. HasRoom(v.meta, v.free_bitmap, v.blocks, to)
  <2>1. v.meta[to].start_index = meta[to].start_index
    BY <1>6, <1>11
  <2>2. CASE meta[to].start_index # 0
    <3>1. IsDirWithBlock(meta, to)
      BY <1>4, <1>7, <2>2 DEF IsDirWithBlock
    <3>2. /\ Len(Items(meta, blocks, to)) < ChildSlots
          /\ Items(v.meta, v.blocks, to) = Items(meta, v.blocks, to)
          /\ Len(Items(meta, v.blocks, to)) <= Len(Items(meta, blocks, to))
      BY <1>4, <1>7, <1>10, <1>12, <2>2, <3>1 DEF HasRoom
    <3>3. /\ Len(Items(meta, v.blocks, to)) \in Nat /\ Len(Items(meta, blocks, to)) \in Nat
          /\ ChildSlots \in Nat
      <4>1. meta[to].start_index \in BlockIndex
        BY <1>4, <1>8, <3>1, DirBlock
      <4>2. v.blocks[meta[to].start_index] \in Block /\ blocks[meta[to].start_index] \in Block
        BY <1>4, <1>8, <4>1 DEF Vol
      <4>3. Items(meta, v.blocks, to) \in Seq(Word) /\ Items(meta, blocks, to) \in Seq(Word)
        BY <4>2 DEF Items, Block
      <4> QED
        BY <4>3, SizesAssumption DEF ChildSlots
    <3> QED
      BY <2>1, <2>2, <3>2, <3>3 DEF HasRoom
  <2>3. CASE meta[to].start_index = 0
    BY <1>4, <1>7, <2>1, <2>3 DEF HasRoom
  <2> QED
    BY <2>2, <2>3
<1>15. Accounted(v.meta, v.free_bitmap, v.blocks)
  <2>1. \A j \in Live(meta) : SameAccount(meta, v.meta, j)
    BY <1>11 DEF SameAccount, SameLinks, Live
  <2>2. \A b \in free_bitmap : v.blocks[b].next = blocks[b].next
    BY <1>8, <1>10
  <2>3. Accounted(v.meta, free_bitmap, v.blocks)
    BY <1>4, <1>8, <2>1, <2>2, AccountSame
  <2> QED
    BY <1>4, <2>3
<1>16. \A j \in Live(v.meta) \ {Root, i} : Lists(v.meta, v.blocks, v.meta[j].parent, j)
  <2>1. \A j \in Live(v.meta) \ {Root, i} : j \in Live(meta) \ {Root} /\ j # i /\ v.meta[j] = meta[j]
    BY <1>4 DEF Live
  <2> QED
    BY <1>8, <1>10, <1>13, <2>1 DEF AllHang
<1>17. /\ Accounted(a.vol.meta, a.vol.free_bitmap, a.vol.blocks)
       /\ AllFit(a.vol.meta, a.vol.blocks) /\ AllHang(a.vol.meta, a.vol.blocks)
       /\ Live(a.vol.meta) = Live(v.meta)
       /\ \A j \in MetaIndex : SameNode(v.meta, a.vol.meta, j)
  <2>1. to \in Live(v.meta) /\ v.meta[to].type = DIR /\ v.meta[i].parent = to
    BY <1>4, <1>6, <1>7
  <2>2. WellLinked(v.meta, v.free_bitmap, v.blocks) /\ AllFit(v.meta, v.blocks) /\ v \in Vol
    BY <1>4, <1>13
  <2> QED
    BY <1>6, <1>14, <1>15, <1>16, <2>1, <2>2, ChildHung
<1>18. Shape'
  BY <1>3, <1>17 DEF Shape, Becomes
<1>19. Moves(p, q)
  <2>1. Live(meta') = Live(meta) /\ \A j \in MetaIndex : SameNode(v.meta, meta', j)
    BY <1>3, <1>4, <1>17 DEF Becomes
  <2>2. \A j \in Live(meta) \ {i} : SameNode(meta, meta', j)
    BY <1>4, <2>1 DEF SameNode, Live
  <2>3. /\ meta'[i].type = FILE /\ meta'[i].parent = to
        /\ meta'[i].name = Basename(q) /\ meta'[i].total_size = meta[i].total_size
    BY <1>1, <1>4, <1>6, <2>1 DEF SameNode, i
  <2> QED
    BY <1>1, <1>4, <1>7, <2>1, <2>2, <2>3 DEF Moves, i, to
<1> QED
  BY <1>3, <1>18, <1>19

\* A call that leaves what clients see of every entry.
Stays == /\ Live(meta') = Live(meta) /\ \A j \in Live(meta) : SameNode(meta, meta', j)
         /\ UNCHANGED path_index

LEMMA EditShape ==
  ASSUME Inv, Shape, NEW p \in ClientPath, NEW pos \in Size, file_edit(p, pos)
  PROVE  Shape' /\ Stays
<1>1. /\ UNCHANGED <<meta, free_bitmap, path_index>>
      /\ \A b \in BlockIndex : blocks'[b].next = blocks[b].next
      /\ \A e \in Live(meta) : IsDirWithBlock(meta, e)
               => Items(meta, blocks', e) = Items(meta, blocks, e)
  BY EditParts
<1>2. /\ meta \in [MetaIndex -> MetaEntry]
      /\ free_bitmap \in SUBSET BlockIndex /\ blocks \in [BlockIndex -> Block]
      /\ WellLinked(meta, free_bitmap, blocks)
      /\ Accounted(meta, free_bitmap, blocks) /\ AllFit(meta, blocks) /\ AllHang(meta, blocks)
  BY InvBlocks DEF Shape
<1>3. Accounted(meta, free_bitmap, blocks')
  <2>1. \A j \in Live(meta) : SameAccount(meta, meta, j)
    BY DEF SameAccount, SameLinks
  <2>2. \A b \in free_bitmap : blocks'[b].next = blocks[b].next
    BY <1>1, <1>2
  <2> QED
    BY <1>2, <2>1, <2>2, AccountSame
<1>4. /\ \A x, y : Lists(meta, blocks, x, y) => Lists(meta, blocks', x, y)
      /\ AllFit(meta, blocks')
  <2>1. \A e : IsDirWithBlock(meta, e) => Items(meta, blocks', e) = Items(meta, blocks, e)
    BY <1>1 DEF IsDirWithBlock
  <2> QED
    BY <1>2, <2>1, DirsSame
<1>5. Shape'
  BY <1>1, <1>2, <1>3, <1>4 DEF Shape, AllHang
<1> QED
  BY <1>1, <1>5 DEF Stays, SameNode

LEMMA CreateNoSpaceShape ==
  ASSUME Inv, Shape, NEW p \in ClientPath, NEW size \in Size, CreateNoSpaceInside(p, size)
  PROVE  Shape' /\ Stays
<1>1. file_create_no_space(p, size)
  BY DEF CreateNoSpaceInside
<1>2. PICK i \in find_free_meta_index(meta) :
        meta' = [meta EXCEPT ![i] =
                   [NewEntry(FILE, p, meta[i].start_index, size) EXCEPT !.valid = 1]]
  BY <1>1 DEF file_create_no_space
<1>3. MayCreate(p) /\ UNCHANGED <<free_bitmap, blocks, path_index>>
  BY <1>1 DEF file_create_no_space
<1>4. i \in MetaIndex /\ i \notin Live(meta)
  BY <1>2, <1>3, CreatePlace, InvParts
<1>5. /\ meta \in [MetaIndex -> MetaEntry]
      /\ free_bitmap \in SUBSET BlockIndex /\ blocks \in [BlockIndex -> Block]
      /\ WellLinked(meta, free_bitmap, blocks)
      /\ Accounted(meta, free_bitmap, blocks) /\ AllFit(meta, blocks) /\ AllHang(meta, blocks)
  BY InvBlocks DEF Shape
<1>6. meta'[i].valid = 1 /\ \A j \in MetaIndex \ {i} : meta'[j] = meta[j]
  BY <1>2, <1>4, <1>5 DEF NewEntry
<1>7. Live(meta') = Live(meta) /\ \A j \in Live(meta) : meta'[j] = meta[j]
  BY <1>4, <1>6 DEF Live
<1>8. Accounted(meta', free_bitmap, blocks)
  <2>1. \A j \in Live(meta) : SameAccount(meta, meta', j)
    BY <1>7 DEF SameAccount, SameLinks
  <2> QED
    BY <1>5, <1>7, <2>1, AccountSame
<1>9. /\ \A x, y : Lists(meta, blocks, x, y) => Lists(meta', blocks, x, y)
      /\ AllFit(meta', blocks)
  <2>1. /\ \A e : IsDirWithBlock(meta', e) <=> IsDirWithBlock(meta, e)
        /\ \A e : IsDirWithBlock(meta, e) => Items(meta', blocks, e) = Items(meta, blocks, e)
    BY <1>7 DEF IsDirWithBlock, Items
  <2> QED
    BY <1>5, <2>1, DirsSame
<1>10. Shape'
  BY <1>3, <1>5, <1>7, <1>8, <1>9 DEF Shape, AllHang
<1> QED
  BY <1>3, <1>7, <1>10 DEF Stays, SameNode

-----------------------------------------------------------------------------
(* The chain of a file whose size changes. *)

\* A list of distinct blocks is never too long to be a chain.
LEMMA DistinctBlocks ==
  ASSUME NEW s \in Seq(BlockIndex), \A k, l \in 1 .. Len(s) : s[k] = s[l] => k = l
  PROVE  s \in BlockSeq
<1> DEFINE n == Len(s)
<1>1. n \in Nat /\ s \in [1 .. n -> BlockIndex] /\ DOMAIN s = 1 .. n
  BY LenProperties
<1>2. n <= NB
  BY <1>1, DistinctFit
<1>3. n \in 0 .. NB
  BY <1>1, <1>2, SizesAssumption
<1> QED
  BY <1>1, <1>3 DEF BlockSeq

\* Block n of the list s gets the next pointer x; the other blocks of s keep theirs.
PointsTo(blk, blk2, s, n, x) ==
  /\ n \in 1 .. Len(s) /\ blk2[s[n]].next = x
  /\ \A k \in 1 .. Len(s) : k # n => blk2[s[k]].next = blk[s[k]].next

\* Some chain from x has the first n blocks of s, or all blocks of s and new.
HasHead(blk, x, s, n) ==
  \E c \in Chains(blk, x) :
     Len(c) = n /\ \A b : b \in BlocksOf(c) <=> \E k \in 1 .. n : b = s[k]
HasBoth(blk, x, s, new) ==
  \E c \in Chains(blk, x) :
     /\ Len(c) = Len(s) + Len(new) /\ BlocksOf(s) \cup BlocksOf(new) \subseteq BlocksOf(c)
     /\ \A k \in 1 .. Len(s) : c[k] = s[k]
     /\ \A k \in 1 .. Len(new) : c[Len(s) + k] = new[k]

\* The first n blocks of a chain, cut behind the last of them.
LEMMA ChainHead ==
  ASSUME NEW blk, NEW blk2, NEW x \in 0 .. NB, NEW s \in Chains(blk, x), NEW n,
         PointsTo(blk, blk2, s, n, 0)
  PROVE  HasHead(blk2, x, s, n)
<1> DEFINE c == SubSeq(s, 1, n)
<1>0. /\ n \in 1 .. Len(s) /\ blk2[s[n]].next = 0
      /\ \A k \in 1 .. Len(s) : k # n => blk2[s[k]].next = blk[s[k]].next
  BY DEF PointsTo
<1>1. /\ s \in BlockSeq /\ x # 0
      /\ s[1] = x
      /\ \A i \in 1 .. Len(s) : i < Len(s) => blk[s[i]].next = s[i + 1]
  BY <1>0, ChainStep
<1>2. /\ s \in Seq(BlockIndex) /\ Len(s) \in Nat /\ n \in Nat
      /\ \A i \in 1 .. Len(s) : s[i] \in BlockIndex
      /\ \A i, j \in 1 .. Len(s) : s[i] = s[j] => i = j
  BY <1>0, <1>1, BlockSeqType
<1>3. c \in Seq(BlockIndex) /\ Len(c) = n /\ \A i \in 1 .. n : c[i] = s[i]
  <2>1. \A i \in 1 .. n : s[i] \in BlockIndex
    BY <1>0, <1>2
  <2>2. /\ c \in Seq(BlockIndex)
        /\ Len(c) = IF 1 <= n THEN n - 1 + 1 ELSE 0
        /\ \A i \in 1 .. n - 1 + 1 : c[i] = s[1 + i - 1]
    BY <1>2, <2>1, SubSeqProperties
  <2> QED
    BY <1>2, <2>2
<1> HIDE DEF c
<1>4. c \in BlockSeq /\ DOMAIN c = 1 .. n
  <2>1. \A i, j \in 1 .. Len(c) : c[i] = c[j] => i = j
    BY <1>0, <1>2, <1>3
  <2>2. c \in BlockSeq
    BY <1>3, <2>1, DistinctBlocks
  <2> QED
    BY <1>3, <2>2, BlockSeqType
<1>5. FirstOf(c) = x
  BY <1>0, <1>1, <1>2, <1>3 DEF FirstOf
<1>6. \A i \in DOMAIN c : blk2[c[i]].next = NextIn(c, i)
  <2> SUFFICES ASSUME NEW i \in 1 .. n PROVE blk2[c[i]].next = NextIn(c, i)
    BY <1>4
  <2>1. CASE i = n
    BY <1>0, <1>3, <2>1 DEF NextIn
  <2>2. CASE i # n
    <3>1. i < n /\ i + 1 \in 1 .. n /\ i \in 1 .. Len(s) /\ i < Len(s)
      BY <1>0, <1>2, <2>2
    <3>2. blk2[s[i]].next = s[i + 1]
      BY <1>0, <1>1, <2>2, <3>1
    <3> QED
      BY <1>3, <3>1, <3>2 DEF NextIn
  <2> QED
    BY <2>1, <2>2
<1>7. \A b : b \in BlocksOf(c) <=> \E k \in 1 .. n : b = s[k]
  BY <1>3, <1>4 DEF BlocksOf
<1> QED
  BY <1>3, <1>4, <1>5, <1>6, <1>7 DEF Chains, HasHead

\* A chain of other blocks linked behind the last block.
LEMMA ChainJoined ==
  ASSUME NEW blk, NEW blk2, NEW x \in 0 .. NB, NEW s \in Chains(blk, x), Len(s) # 0,
         NEW new \in BlockSeq, Len(new) # 0, BlocksOf(new) \cap BlocksOf(s) = {},
         PointsTo(blk, blk2, s, Len(s), new[1]),
         \A k \in 1 .. Len(new) : blk2[new[k]].next = NextIn(new, k)
  PROVE  HasBoth(blk2, x, s, new)
<1> DEFINE c == s \o new
           m == Len(s)
           n == Len(new)
<1>0. /\ blk2[s[m]].next = new[1]
      /\ \A k \in 1 .. m : k # m => blk2[s[k]].next = blk[s[k]].next
  BY DEF PointsTo
<1>1. /\ s \in BlockSeq /\ s[1] = x
      /\ \A i \in 1 .. m : i < m => blk[s[i]].next = s[i + 1]
  BY ChainStep
<1>2. /\ s \in Seq(BlockIndex) /\ m \in Nat /\ m # 0 /\ DOMAIN s = 1 .. m
      /\ \A i, j \in 1 .. m : s[i] = s[j] => i = j
  BY <1>1, BlockSeqType
<1>3. /\ new \in Seq(BlockIndex) /\ n \in Nat /\ n # 0 /\ DOMAIN new = 1 .. n
      /\ \A i, j \in 1 .. n : new[i] = new[j] => i = j
  BY BlockSeqType
<1>4. c \in Seq(BlockIndex) /\ Len(c) = m + n
      /\ \A i \in 1 .. m + n : c[i] = IF i <= m THEN s[i] ELSE new[i - m]
  <2>1. s \in Seq(BlockIndex) /\ new \in Seq(BlockIndex)
    BY <1>2, <1>3
  <2> QED
    BY <2>1, ConcatProperties
<1>5. \A i \in 1 .. m, j \in 1 .. n : s[i] # new[j]
  <2>1. \A i \in 1 .. m : s[i] \in BlocksOf(s)
    BY <1>2 DEF BlocksOf
  <2>2. \A j \in 1 .. n : new[j] \in BlocksOf(new)
    BY <1>3 DEF BlocksOf
  <2> QED
    BY <2>1, <2>2
<1> HIDE DEF c, m, n
<1>6. \A i \in 1 .. m + n : \/ i \in 1 .. m /\ c[i] = s[i]
                            \/ i - m \in 1 .. n /\ i > m /\ c[i] = new[i - m]
  BY <1>2, <1>3, <1>4
<1>7. c \in BlockSeq /\ DOMAIN c = 1 .. m + n
  <2>1. \A i, j \in 1 .. m + n : c[i] = c[j] => i = j
    <3> SUFFICES ASSUME NEW i \in 1 .. m + n, NEW j \in 1 .. m + n, c[i] = c[j]
                 PROVE  i = j
      OBVIOUS
    <3>1. CASE i \in 1 .. m /\ c[i] = s[i]
      <4>1. j \in 1 .. m /\ c[j] = s[j]
        BY <1>5, <1>6, <3>1
      <4> QED
        BY <1>2, <3>1, <4>1
    <3>2. CASE i - m \in 1 .. n /\ i > m /\ c[i] = new[i - m]
      <4>1. j - m \in 1 .. n /\ c[j] = new[j - m]
        BY <1>5, <1>6, <3>2
      <4>2. i - m = j - m
        BY <1>3, <3>2, <4>1
      <4> QED
        BY <1>2, <1>3, <4>2
    <3> QED
      BY <1>6, <3>1, <3>2
  <2> QED
    BY <1>2, <1>3, <1>4, <2>1, DistinctBlocks
<1>8. FirstOf(c) = x
  BY <1>1, <1>2, <1>3, <1>4 DEF FirstOf
<1>9. \A i \in DOMAIN c : blk2[c[i]].next = NextIn(c, i)
  <2> SUFFICES ASSUME NEW i \in 1 .. m + n PROVE blk2[c[i]].next = NextIn(c, i)
    BY <1>7
  <2>1. CASE i \in 1 .. m /\ i # m
    <3>1. i + 1 \in 1 .. m /\ i < m /\ i < m + n /\ i + 1 \in 1 .. m + n
      BY <1>2, <1>3, <2>1
    <3>2. c[i] = s[i] /\ c[i + 1] = s[i + 1]
      BY <1>4, <2>1, <3>1
    <3>3. blk2[s[i]].next = s[i + 1]
      BY <1>0, <1>1, <2>1, <3>1
    <3> QED
      BY <1>4, <3>1, <3>2, <3>3 DEF NextIn
  <2>2. CASE i = m
    <3>1. m + 1 \in 1 .. m + n /\ m < m + n /\ (m + 1) - m = 1 /\ ~(m + 1 <= m) /\ m <= m
      BY <1>2, <1>3
    <3>2. c[m] = s[m] /\ c[m + 1] = new[1]
      BY <1>4, <2>2, <3>1
    <3> QED
      BY <1>0, <1>4, <2>2, <3>1, <3>2 DEF NextIn
  <2>3. CASE i > m
    <3> DEFINE k == i - m
    <3>0. m \in Nat /\ n \in Nat /\ i \in Nat /\ i <= m + n /\ i > m
      BY <1>2, <1>3, <2>3
    <3>1. k \in 1 .. n /\ c[i] = new[k]
      BY <1>2, <1>3, <1>4, <2>3
    <3>2. blk2[new[k]].next = NextIn(new, k)
      BY <3>1 DEF n
    <3>3. CASE i = m + n
      <4>1. ~(k < n) /\ ~(i < m + n)
        BY <1>2, <1>3, <3>3
      <4> QED
        BY <1>4, <3>1, <3>2, <4>1 DEF NextIn, n
    <3>4. CASE i # m + n
      <4>1. k < n /\ i < m + n /\ i + 1 \in 1 .. m + n /\ ~(i + 1 <= m) /\ (i + 1) - m = k + 1
        BY <3>0, <3>4
      <4>2. c[i + 1] = new[k + 1]
        BY <1>4, <4>1
      <4> QED
        BY <1>4, <3>1, <3>2, <4>1, <4>2 DEF NextIn, n
    <3> QED
      BY <3>3, <3>4
  <2> QED
    BY <1>2, <1>3, <2>1, <2>2, <2>3
<1>10. \A i \in 1 .. m : i \in 1 .. m + n /\ c[i] = s[i]
  BY <1>2, <1>3, <1>4
<1>11. \A j \in 1 .. n : m + j \in 1 .. m + n /\ c[m + j] = new[j]
  <2> TAKE j \in 1 .. n
  <2>1. m + j \in 1 .. m + n /\ ~(m + j <= m) /\ (m + j) - m = j
    BY <1>2, <1>3
  <2> QED
    BY <1>4, <2>1
<1>12. BlocksOf(s) \cup BlocksOf(new) \subseteq BlocksOf(c)
  <2>1. \A b \in BlocksOf(s) : \E i \in 1 .. m : b = s[i]
    BY <1>2 DEF BlocksOf
  <2>2. \A b \in BlocksOf(new) : \E j \in 1 .. n : b = new[j]
    BY <1>3 DEF BlocksOf
  <2>3. \A k \in 1 .. m + n : c[k] \in BlocksOf(c)
    BY <1>7 DEF BlocksOf
  <2>4. BlocksOf(s) \subseteq BlocksOf(c)
    BY <1>10, <2>1, <2>3
  <2>5. BlocksOf(new) \subseteq BlocksOf(c)
    BY <1>11, <2>2, <2>3
  <2> QED
    BY <2>4, <2>5
<1>13. c \in Chains(blk2, x)
  BY <1>7, <1>8, <1>9 DEF Chains
<1> QED
  BY <1>4, <1>12, <1>10, <1>11, <1>13 DEF HasBoth, m, n

\* The file of p has another size.
Resizes(p, size) ==
  LET i == path_index[p]
  IN  /\ p \in DOMAIN path_index /\ i \in Live(meta) /\ meta[i].type = FILE
      /\ Live(meta') = Live(meta) /\ UNCHANGED path_index
      /\ \A j \in Live(meta) \ {i} : SameNode(meta, meta', j)
      /\ meta'[i].type = FILE /\ meta'[i].parent = meta[i].parent
      /\ meta'[i].name = meta[i].name /\ meta'[i].total_size = size

LEMMA TruncateShape ==
  ASSUME Inv, Shape, TypeOK', NEW p \in ClientPath, NEW size \in Size, file_truncate(p, size)
  PROVE  Shape' /\ Resizes(p, size)
<1> DEFINE i == path_index[p]
           need == BlocksFor(size)
<1>1. /\ i \in MetaIndex /\ i \in Live(meta) /\ meta[i].type = FILE
      /\ need \in Nat /\ UNCHANGED path_index
      /\ \A j \in MetaIndex \ {i} : meta'[j] = meta[j]
      /\ meta'[i].valid = meta[i].valid /\ meta'[i].type = meta[i].type
      /\ meta'[i].parent = meta[i].parent /\ meta'[i].name = meta[i].name
      /\ meta'[i].total_size = size
  BY TruncateParts
<1>2. PICK s \in Chains(blocks, meta[i].start_index) :
         \/ SameBlocks(i, s, need)
         \/ FewerBlocks(i, s, need)
         \/ \E new \in BlockSeq : MoreBlocks(i, s, need, new)
  BY TruncateParts
<1> HIDE DEF i
<1>3. /\ meta \in [MetaIndex -> MetaEntry] /\ meta' \in [MetaIndex -> MetaEntry]
      /\ free_bitmap \in SUBSET BlockIndex /\ blocks \in [BlockIndex -> Block]
      /\ WellLinked(meta, free_bitmap, blocks)
      /\ Accounted(meta, free_bitmap, blocks) /\ AllFit(meta, blocks) /\ AllHang(meta, blocks)
  BY InvBlocks DEF Shape, TypeOK
<1>4. /\ s \in BlockSeq /\ Len(s) \in Nat /\ DOMAIN s = 1 .. Len(s)
      /\ \A k \in 1 .. Len(s) : s[k] \in free_bitmap
      /\ \A k, l \in 1 .. Len(s) : s[k] = s[l] => k = l
      /\ \A b : b \in BlocksOf(s) <=> \E k \in 1 .. Len(s) : b = s[k]
  <2>1. s \in BlockSeq /\ Owns(meta, free_bitmap, blocks, i, s)
    BY <1>1, <1>3, ChainOwned DEF Chains
  <2>2. Len(s) \in Nat /\ DOMAIN s = 1 .. Len(s)
        /\ \A k, l \in 1 .. Len(s) : s[k] = s[l] => k = l
    BY <2>1, BlockSeqType
  <2> QED
    BY <2>1, <2>2 DEF Owns, BlocksOf
<1>5. meta[i].start_index \in 0 .. NB
  BY <1>1, <1>3 DEF MetaEntry
<1>6. Live(meta') = Live(meta)
  BY <1>1 DEF Live
<1> DEFINE Ends(c) == /\ c \in Chains(blocks', meta'[i].start_index) /\ Len(c) = need
                      /\ \A b \in free_bitmap : b \notin BlocksOf(s) => blocks'[b].next = blocks[b].next
                      /\ \A b \in free_bitmap' : b \in BlocksOf(c) \/ (b \in free_bitmap /\ b \notin BlocksOf(s))
                      /\ \A b \in free_bitmap : blocks'[b].items = blocks[b].items
<1>7. ASSUME SameBlocks(i, s, need) PROVE \E c : Ends(c)
  <2>1. Ends(s)
    BY <1>7 DEF SameBlocks, SameLinks
  <2> QED
    BY <2>1
<1>8. ASSUME FewerBlocks(i, s, need) PROVE \E c : Ends(c)
  <2>1. /\ need < Len(s) /\ free_bitmap' = free_bitmap \ Behind(s, need)
        /\ \A b \in free_bitmap : blocks'[b].items = blocks[b].items
        /\ need = 0 => meta'[i].start_index = 0 /\ blocks' = blocks
        /\ need # 0 => /\ blocks'[s[need]].next = 0
                       /\ meta'[i].start_index = meta[i].start_index
                       /\ \A b \in BlockIndex : b # s[need] => blocks'[b] = blocks[b]
    BY <1>3, <1>8 DEF FewerBlocks, SameLinks
  <2>2. CASE need = 0
    <3> DEFINE c == <<>>
    <3>1. c \in Chains(blocks', 0) /\ Len(c) = 0
      BY NoChain
    <3>2. Behind(s, need) = BlocksOf(s)
      BY <1>4, <2>2 DEF Behind
    <3> HIDE DEF c
    <3>3. Ends(c)
      BY <2>1, <2>2, <3>1, <3>2
    <3> QED
      BY <3>3
  <2>3. CASE need # 0
    <3>1. need \in 1 .. Len(s)
      BY <1>1, <1>4, <2>1, <2>3
    <3>2. \A k \in 1 .. Len(s) : k # need => blocks'[s[k]].next = blocks[s[k]].next
      BY <1>3, <1>4, <2>1, <2>3, <3>1
    <3>3. blocks'[s[need]].next = 0
      BY <2>1, <2>3
    <3>4. PICK c \in Chains(blocks', meta[i].start_index) :
             Len(c) = need /\ \A b : b \in BlocksOf(c) <=> \E k \in 1 .. need : b = s[k]
      <4>1. PointsTo(blocks, blocks', s, need, 0)
        BY <3>1, <3>2, <3>3 DEF PointsTo
      <4>2. HasHead(blocks', meta[i].start_index, s, need)
        BY <1>5, <4>1, ChainHead
      <4> QED
        BY <4>2 DEF HasHead
    <3>5. \A b \in free_bitmap' : b \in BlocksOf(c) \/ (b \in free_bitmap /\ b \notin BlocksOf(s))
      <4> SUFFICES ASSUME NEW b \in free_bitmap', b \in BlocksOf(s) PROVE b \in BlocksOf(c)
        BY <2>1
      <4>1. PICK k \in 1 .. Len(s) : b = s[k]
        BY <1>4
      <4>2. k \notin need + 1 .. Len(s)
        BY <2>1, <4>1 DEF Behind
      <4>3. k \in 1 .. need
        BY <1>1, <1>4, <4>2
      <4> QED
        BY <3>4, <4>1, <4>3
    <3>6. \A b \in free_bitmap : b \notin BlocksOf(s) => blocks'[b].next = blocks[b].next
      <4>1. s[need] \in BlocksOf(s)
        BY <1>4, <3>1
      <4> QED
        BY <1>3, <2>1, <2>3, <4>1
    <3>7. Ends(c)
      BY <2>1, <2>3, <3>4, <3>5, <3>6
    <3> QED
      BY <3>7
  <2> QED
    BY <2>2, <2>3
<1>9. ASSUME NEW new \in BlockSeq, MoreBlocks(i, s, need, new) PROVE \E c : Ends(c)
  <2>1. /\ Len(new) = need - Len(s) /\ Len(new) # 0 /\ Len(s) + Len(new) = need
        /\ DOMAIN new = 1 .. Len(new)
    <3>1. need \in Nat /\ Len(s) \in Nat /\ need > Len(s) /\ Len(new) = need - Len(s)
      BY <1>1, <1>4, <1>9 DEF MoreBlocks
    <3> HIDE DEF need
    <3>2. Len(new) # 0 /\ Len(s) + Len(new) = need
      BY <3>1
    <3> QED
      BY <3>1, <3>2, BlockSeqType
  <2>2. /\ \A k \in 1 .. Len(new) : new[k] \notin free_bitmap /\ blocks'[new[k]].next = NextIn(new, k)
        /\ free_bitmap' = free_bitmap \cup BlocksOf(new)
        /\ \A b \in free_bitmap : /\ blocks'[b].items = blocks[b].items
                                  /\ Len(s) = 0 \/ b # s[Len(s)] => blocks'[b].next = blocks[b].next
        /\ Len(s) = 0 => meta'[i].start_index = new[1]
        /\ Len(s) # 0 => /\ meta'[i].start_index = meta[i].start_index
                         /\ blocks'[s[Len(s)]].next = new[1]
    BY <1>9 DEF MoreBlocks, SameLinks
  <2>3. CASE Len(s) = 0
    <3>1. new \in Chains(blocks', meta'[i].start_index)
      BY <2>1, <2>2, <2>3 DEF Chains, FirstOf
    <3>2. \A b : b \notin BlocksOf(s)
      BY <1>4, <2>3
    <3>3. Len(new) = need
      BY <1>1, <2>1, <2>3
    <3>4. Ends(new)
      BY <2>2, <2>3, <3>1, <3>2, <3>3
    <3> QED
      BY <3>4
  <2>4. CASE Len(s) # 0
    <3>1. Len(s) \in 1 .. Len(s)
      BY <1>4, <2>4
    <3>2. \A k \in 1 .. Len(s) : k # Len(s) => blocks'[s[k]].next = blocks[s[k]].next
      BY <1>4, <2>2, <3>1
    <3>3. BlocksOf(new) \cap BlocksOf(s) = {}
      BY <1>4, <2>1, <2>2 DEF BlocksOf
    <3>4. blocks'[s[Len(s)]].next = new[1]
      BY <2>2, <2>4
    <3>5. PICK c \in Chains(blocks', meta[i].start_index) :
             Len(c) = Len(s) + Len(new) /\ BlocksOf(s) \cup BlocksOf(new) \subseteq BlocksOf(c)
      <4>1. PointsTo(blocks, blocks', s, Len(s), new[1])
        BY <3>1, <3>2, <3>4 DEF PointsTo
      <4>2. \A k \in 1 .. Len(new) : blocks'[new[k]].next = NextIn(new, k)
        BY <2>2
      <4>3. HasBoth(blocks', meta[i].start_index, s, new)
        BY <1>5, <2>1, <2>4, <3>3, <4>1, <4>2, ChainJoined
      <4> QED
        BY <4>3 DEF HasBoth
    <3>6. \A b \in free_bitmap : b \notin BlocksOf(s) => blocks'[b].next = blocks[b].next
      <4>1. s[Len(s)] \in BlocksOf(s)
        BY <1>4, <3>1
      <4> QED
        BY <2>2, <4>1
    <3>7. Ends(c)
      BY <2>1, <2>2, <2>4, <3>5, <3>6
    <3> QED
      BY <3>7
  <2> QED
    BY <2>3, <2>4
<1>10. PICK c : Ends(c)
  BY <1>2, <1>7, <1>8, <1>9
<1>11. Accounted(meta', free_bitmap', blocks')
  <2>1. \A j \in MetaIndex \ {i} : SameAccount(meta, meta', j)
    BY <1>1 DEF SameAccount, SameLinks
  <2>2. Exchanges(meta, free_bitmap, blocks, meta', free_bitmap', blocks', i, s, c)
    BY <1>1, <1>6, <1>10, <2>1 DEF Exchanges
  <2> QED
    BY <1>1, <1>3, <2>2, AccountStep
<1> HIDE DEF Ends, need
<1>12. /\ \A e : IsDirWithBlock(meta', e) <=> IsDirWithBlock(meta, e)
       /\ \A e : IsDirWithBlock(meta, e) => meta'[e].start_index = meta[e].start_index
  <2>1. ~IsDirWithBlock(meta', i) /\ ~IsDirWithBlock(meta, i)
    BY <1>1 DEF IsDirWithBlock, FILE, DIR
  <2>2. \A e : e # i => (IsDirWithBlock(meta', e) <=> IsDirWithBlock(meta, e))
    BY <1>1, <1>6 DEF IsDirWithBlock, Live
  <2>3. \A e : IsDirWithBlock(meta, e) => e \in MetaIndex \ {i}
    BY <2>1 DEF IsDirWithBlock, Live
  <2> QED
    BY <1>1, <2>1, <2>2, <2>3
<1>13. /\ \A x, y : Lists(meta, blocks, x, y) => Lists(meta', blocks', x, y)
       /\ AllFit(meta', blocks')
  <2>1. \A b \in free_bitmap : blocks'[b].items = blocks[b].items
    BY <1>10 DEF Ends
  <2>2. \A e : IsDirWithBlock(meta, e) => Items(meta', blocks', e) = Items(meta, blocks, e)
    BY <1>3, <1>12, <2>1, UsedItems
  <2> QED
    BY <1>3, <1>12, <2>2, DirsSame
<1>14. AllHang(meta', blocks')
  <2>1. \A j \in Live(meta) : meta'[j].parent = meta[j].parent
    BY <1>1 DEF Live
  <2> QED
    BY <1>3, <1>6, <1>13, <2>1 DEF AllHang
<1>15. Resizes(p, size)
  <2>1. \A j \in Live(meta) \ {i} : SameNode(meta, meta', j)
    BY <1>1 DEF SameNode, Live
  <2>2. p \in DOMAIN path_index
    BY DEF file_truncate
  <2> QED
    BY <1>1, <1>6, <2>1, <2>2 DEF Resizes, i
<1> QED
  BY <1>11, <1>13, <1>14, <1>15 DEF Shape

-----------------------------------------------------------------------------
(* The shape holds of every state. *)

LEMMA InitShape == Init => Shape
<1> SUFFICES ASSUME Init PROVE Shape
  OBVIOUS
<1>1. /\ Live(meta) = {Root} /\ meta[Root].start_index = 0 /\ meta[Root].type = DIR
      /\ free_bitmap = {}
  <2>1. Root \in MetaIndex
    BY SizesAssumption DEF MetaIndex, Root
  <2>2. /\ meta[Root] = [FreshEntry EXCEPT !.valid = 0, !.type = DIR, !.name = "root"]
        /\ \A i \in MetaIndex : i # Root => meta[i] = FreshEntry
        /\ free_bitmap = {}
    BY <2>1 DEF Init
  <2>3. meta[Root].valid = 0 /\ meta[Root].start_index = 0 /\ meta[Root].type = DIR
    BY <2>2 DEF FreshEntry
  <2>4. \A i \in MetaIndex : i # Root => meta[i].valid = 1
    <3>1. FreshEntry.valid = 1
      BY DEF FreshEntry
    <3> QED
      BY <2>2, <3>1
  <2>5. Live(meta) = {Root}
    BY <2>1, <2>3, <2>4 DEF Live
  <2> QED
    BY <2>2, <2>3, <2>5
<1>2. Accounted(meta, free_bitmap, blocks)
  BY <1>1 DEF Accounted, Covered, SizesFit, FILE, DIR
<1>3. AllFit(meta, blocks) /\ AllHang(meta, blocks)
  BY <1>1 DEF AllFit, AllHang, IsDirWithBlock
<1> QED
  BY <1>2, <1>3 DEF Shape

\* A call of a client inside the limits is one of the calls of OFSCore.
LEMMA TreeNextIsNext == [TreeNext]_vars => [Next]_vars
  BY DEF TreeNext, Next, CreateInside, CreateNoSpaceInside, MakeDirInside, RenameInside

LEMMA NextShape == Inv /\ Shape /\ [TreeNext]_vars => Shape'
<1> SUFFICES ASSUME Inv, Shape, [TreeNext]_vars PROVE Shape'
  OBVIOUS
<1>1. TypeOK'
  BY TreeNextIsNext, NextTyped DEF Inv
<1>2. ASSUME NEW p \in ClientPath, NEW size \in Size, CreateInside(p, size) PROVE Shape'
  BY <1>2, CreateShape
<1>3. ASSUME NEW p \in ClientPath, NEW size \in Size, CreateNoSpaceInside(p, size) PROVE Shape'
  BY <1>3, CreateNoSpaceShape
<1>4. ASSUME NEW p \in ClientPath, file_delete(p) PROVE Shape'
  BY <1>1, <1>4, DeleteShape
<1>5. ASSUME NEW p \in ClientPath, NEW pos \in Size, file_edit(p, pos) PROVE Shape'
  BY <1>5, EditShape
<1>6. ASSUME NEW p \in ClientPath, NEW size \in Size, file_truncate(p, size) PROVE Shape'
  BY <1>1, <1>6, TruncateShape
<1>7. ASSUME NEW p \in ClientPath, MakeDirInside(p) PROVE Shape'
  BY <1>7, MakeDirShape
<1>8. ASSUME NEW p \in ClientPath, dir_delete(p) PROVE Shape'
  BY <1>1, <1>8, DirDeleteShape
<1>9. ASSUME NEW p \in ClientPath, NEW q \in ClientPath, RenameInside(p, q) PROVE Shape'
  BY <1>9, RenameShape
<1>10. ASSUME UNCHANGED vars PROVE Shape'
  BY <1>10 DEF vars, Shape
<1> QED
  BY <1>2, <1>3, <1>4, <1>5, <1>6, <1>7, <1>8, <1>9, <1>10 DEF TreeNext

LEMMA ShapeHolds == TreeSpec => [](Inv /\ Shape)
<1>1. Init => Inv /\ Shape
  BY InitInv, InitShape
<1>2. Inv /\ Shape /\ [TreeNext]_vars => (Inv /\ Shape)'
  BY TreeNextIsNext, NextInv, NextShape
<1> QED
  BY <1>1, <1>2, PTL DEF TreeSpec

\* No call of a client inside the limits loses a block: whatever the bitmap marks
\* is in the chain of an entry in use.
THEOREM NoBlockLeakedCorrect == TreeSpec => []NoBlockLeaked
<1>1. Inv /\ Shape => NoBlockLeaked
  <2> SUFFICES ASSUME Inv, Shape PROVE NoBlockLeaked
    OBVIOUS
  <2>1. \A b \in free_bitmap : \E i \in Live(meta) : \E s \in ChainOfEntry(i) : b \in BlocksOf(s)
    BY DEF Shape, Accounted, Covered, ChainOfEntry
  <2>2. ASSUME NEW i \in Live(meta), NEW s \in ChainOfEntry(i), NEW b \in BlocksOf(s)
        PROVE  b \in free_bitmap
    <3>1. s \in Chains(blocks, meta[i].start_index)
      BY DEF ChainOfEntry
    <3>2. Owns(meta, free_bitmap, blocks, i, s)
      BY <3>1, ChainOwned, InvBlocks
    <3>3. DOMAIN s = 1 .. Len(s)
      BY <3>1, BlockSeqType DEF Chains
    <3> QED
      BY <3>2, <3>3 DEF Owns, BlocksOf
  <2> QED
    BY <2>1, <2>2 DEF NoBlockLeaked
<1> QED
  BY <1>1, ShapeHolds, PTL

\* Through any sequence of calls a file owns exactly the blocks its size needs, and
\* a directory one block at most.
THEOREM ChainFitsSizeCorrect == TreeSpec => []ChainFitsSize
<1>1. Inv /\ Shape => ChainFitsSize
  <2> SUFFICES ASSUME Inv, Shape, NEW i \in Live(meta), NEW s \in ChainOfEntry(i)
               PROVE  IF meta[i].type = FILE THEN Len(s) = BlocksFor(meta[i].total_size)
                      ELSE Len(s) <= 1
    BY DEF ChainFitsSize
  <2>1. /\ s \in Chains(blocks, meta[i].start_index) /\ blocks \in [BlockIndex -> Block]
        /\ meta[i] \in MetaEntry
    BY InvBlocks DEF ChainOfEntry, Live
  <2>2. meta[i].start_index \in 0 .. NB /\ meta[i].type \in {FILE, DIR}
    BY <2>1 DEF MetaEntry
  <2>3. CASE meta[i].type = FILE
    <3>1. PICK t \in Chains(blocks, meta[i].start_index) : Len(t) = BlocksFor(meta[i].total_size)
      BY <2>3 DEF Shape, Accounted, SizesFit
    <3>2. t = s
      BY <2>1, <2>2, <3>1, ChainUnique
    <3> QED
      BY <2>3, <3>1, <3>2
  <2>4. CASE meta[i].type = DIR
    <3>1. CASE meta[i].start_index = 0
      <4>1. s = <<>>
        BY <2>1, <2>2, <3>1, ChainStep
      <4> QED
        BY <2>4, <4>1 DEF FILE, DIR
    <3>2. CASE meta[i].start_index # 0
      <4> DEFINE t == <<meta[i].start_index>>
      <4>1. meta[i].start_index \in BlockIndex
        BY <2>2, <3>2, SizesAssumption DEF BlockIndex
      <4>2. blocks[meta[i].start_index].next = 0
        BY <2>4, <3>2 DEF Inv, WellLinked
      <4>3. t \in Chains(blocks, meta[i].start_index) /\ Len(t) = 1
        BY <4>1, <4>2, OneBlock
      <4> HIDE DEF t
      <4>4. s = t
        BY <2>1, <2>2, <4>3, ChainUnique
      <4>5. Len(s) = 1 /\ meta[i].type # FILE
        BY <2>4, <4>3, <4>4 DEF FILE, DIR
      <4> QED
        BY <4>5
    <3> QED
      BY <3>1, <3>2
  <2> QED
    BY <2>2, <2>3, <2>4
<1> QED
  BY <1>1, ShapeHolds, PTL

-----------------------------------------------------------------------------
(* The path index and the table tell the same tree: the index g leads from  *)
(* every path to an entry in use, from the path of the parent to the parent. *)

PathsMatch(m, g) ==
  /\ g = [p \in DOMAIN g |-> g[p]]
  /\ \A p \in DOMAIN g : p \in Path /\ ~p.dbl /\ g[p] \in Live(m)
  /\ RootPath \in DOMAIN g /\ g[RootPath] = Root
  /\ \A p \in DOMAIN g : p # RootPath =>
        /\ g[p] # Root /\ ParentPath(p) \in DOMAIN g
        /\ m[g[p]].parent = g[ParentPath(p)] /\ m[g[p]].name = Basename(p)
  /\ \A p, q \in DOMAIN g : g[p] = g[q] => p = q
  /\ \A i \in Live(m) : \E p \in DOMAIN g : g[p] = i

\* A path besides the root's is its parent's path and one name.
LEMMA PathParts ==
  ASSUME NEW p \in Path, ~p.dbl
  PROVE  /\ p.toks \in Seq(Name) /\ Len(p.toks) \in Nat
         /\ p = [dbl |-> FALSE, toks |-> p.toks]
         /\ p = RootPath <=> p.toks = <<>>
         /\ p # RootPath => /\ Len(p.toks) # 0 /\ Basename(p) \in Name
                            /\ ParentPath(p) \in Path /\ ~ParentPath(p).dbl
                            /\ ParentPath(p).toks = SubSeq(p.toks, 1, Len(p.toks) - 1)
                            /\ Len(ParentPath(p).toks) = Len(p.toks) - 1
                            /\ p.toks = Append(ParentPath(p).toks, Basename(p))
<1>1. /\ p.toks \in Seq(Name) /\ p.dbl \in BOOLEAN /\ Len(p.toks) \in Nat
      /\ p = [dbl |-> FALSE, toks |-> p.toks]
  BY DEF Path
<1>2. p = RootPath <=> p.toks = <<>>
  BY <1>1 DEF RootPath
<1>3. ASSUME p.toks # <<>>
      PROVE  /\ Len(p.toks) # 0 /\ Basename(p) \in Name
             /\ ParentPath(p) \in Path /\ ~ParentPath(p).dbl
             /\ ParentPath(p).toks = SubSeq(p.toks, 1, Len(p.toks) - 1)
             /\ Len(ParentPath(p).toks) = Len(p.toks) - 1
             /\ p.toks = Append(ParentPath(p).toks, Basename(p))
  <2> DEFINE t == p.toks
             n == Len(t)
             h == SubSeq(t, 1, n - 1)
  <2>1. t \in Seq(Name) /\ n \in Nat /\ n # 0
    BY <1>1, <1>3, EmptySeq
  <2>2. h \in Seq(Name) /\ Len(h) = n - 1 /\ \A k \in 1 .. n - 1 : h[k] = t[k]
    <3>1. 1 \in Int /\ n - 1 \in Int /\ \A k \in 1 .. n - 1 : t[k] \in Name
      BY <2>1
    <3>2. /\ h \in Seq(Name)
          /\ Len(h) = IF 1 <= n - 1 THEN n - 1 - 1 + 1 ELSE 0
          /\ \A k \in 1 .. n - 1 - 1 + 1 : h[k] = t[1 + k - 1]
      BY <3>1, SubSeqProperties
    <3> QED
      BY <2>1, <3>2
  <2>3. t[n] \in Name
    BY <2>1
  <2>4. t = Append(h, t[n])
    <3> DEFINE a == Append(h, t[n])
    <3>1. a \in Seq(Name) /\ Len(a) = n - 1 + 1 /\ a[n - 1 + 1] = t[n]
          /\ \A k \in 1 .. n - 1 : a[k] = h[k]
      BY <2>2, <2>3, AppendProperties
    <3> HIDE DEF a, h
    <3>2. Len(a) = n /\ \A k \in 1 .. n : a[k] = t[k]
      BY <2>1, <2>2, <3>1
    <3>3. a = t
      BY <2>1, <3>1, <3>2
    <3> QED
      BY <3>3 DEF a
  <2>5. ParentPath(p).toks = h /\ ~ParentPath(p).dbl
    BY DEF ParentPath
  <2>6. ParentPath(p) \in Path
    BY <2>2 DEF ParentPath, Path
  <2> QED
    BY <2>1, <2>2, <2>3, <2>4, <2>5, <2>6 DEF Basename
<1> QED
  BY <1>1, <1>2, <1>3

\* Distinct entries are not more than the table has slots.
LEMMA DistinctEntries ==
  ASSUME NEW n \in Nat, NEW f \in [1 .. n -> MetaIndex],
         \A k, l \in 1 .. n : f[k] = f[l] => k = l
  PROVE  n <= NM
<1>1. NM \in Nat
  BY SizesAssumption
<1>2. /\ IsFiniteSet(1 .. n) /\ Cardinality(1 .. n) = n
      /\ IsFiniteSet(MetaIndex) /\ Cardinality(MetaIndex) = NM
  <2>1. 1 \in Int /\ n \in Int /\ NM \in Int
    BY <1>1
  <2>2. /\ IsFiniteSet(1 .. n) /\ Cardinality(1 .. n) = IF 1 > n THEN 0 ELSE n - 1 + 1
        /\ IsFiniteSet(1 .. NM) /\ Cardinality(1 .. NM) = IF 1 > NM THEN 0 ELSE NM - 1 + 1
    BY <2>1, FS_Interval
  <2> QED
    BY <1>1, <2>2 DEF MetaIndex
<1>3. f \in Injection(1 .. n, MetaIndex)
  BY DEF Injection, IsInjective
<1>4. Cardinality(1 .. n) <= Cardinality(MetaIndex)
  BY <1>2, <1>3, FS_Injection
<1> QED
  BY <1>2, <1>4

\* No path is longer than the table, so the NM steps of a climb reach the root.
LEMMA PathsShort ==
  ASSUME NEW m, NEW g, PathsMatch(m, g), NEW p \in DOMAIN g
  PROVE  Len(p.toks) \in 0 .. NM
<1> DEFINE L == Len(p.toks)
           Has(k) == \E q \in DOMAIN g : Len(q.toks) = k
           Bad == {k \in 0 .. L : ~Has(k)}
<1>1. /\ \A q \in DOMAIN g : q \in Path /\ ~q.dbl /\ g[q] \in MetaIndex
      /\ \A q \in DOMAIN g : q # RootPath => ParentPath(q) \in DOMAIN g
      /\ \A q, r \in DOMAIN g : g[q] = g[r] => q = r
  BY DEF PathsMatch, Live
<1>2. L \in Nat
  BY <1>1, PathParts
<1>3. Bad = {}
  <2> SUFFICES ASSUME Bad # {} PROVE FALSE
    OBVIOUS
  <2> DEFINE S == {k \in 0 .. L : ~Has(L - k)}
  <2>1. S # {}
    <3>1. PICK k \in Bad : TRUE
      OBVIOUS
    <3>2. L - k \in 0 .. L /\ L - (L - k) = k
      BY <1>2, <3>1
    <3> HIDE DEF Has
    <3>3. L - k \in S
      BY <3>1, <3>2
    <3> QED
      BY <3>3
  <2>2. S \in SUBSET Nat
    BY <1>2
  <2> HIDE DEF S
  <2>3. PICK k \in S : \A l \in S : k <= l
    BY <2>1, <2>2, LeastExists, Zenon
  <2>4. k \in 0 .. L /\ ~Has(L - k)
    BY <2>3 DEF S
  <2>5. k # 0
    <3> SUFFICES ASSUME k = 0 PROVE FALSE
      OBVIOUS
    <3>1. L - k = L
      BY <1>2
    <3> QED
      BY <2>4, <3>1
  <2>6. k - 1 \in 0 .. L /\ ~(k <= k - 1) /\ L - (k - 1) = (L - k) + 1 /\ L - k \in Nat
    BY <1>2, <2>4, <2>5
  <2>7. Has(L - (k - 1))
    <3>1. k - 1 \notin S
      BY <2>3, <2>6
    <3> HIDE DEF Has
    <3> QED
      BY <2>6, <3>1 DEF S
  <2>8. PICK q \in DOMAIN g : Len(q.toks) = (L - k) + 1
    BY <2>6, <2>7
  <2>9. q # RootPath
    <3> SUFFICES ASSUME q = RootPath PROVE FALSE
      OBVIOUS
    <3>1. Len(q.toks) = 0
      BY DEF RootPath
    <3> QED
      BY <2>6, <2>8, <3>1
  <2>10. ParentPath(q) \in DOMAIN g /\ Len(ParentPath(q).toks) = Len(q.toks) - 1
    BY <1>1, <2>9, PathParts
  <2>11. Len(ParentPath(q).toks) = L - k
    BY <2>6, <2>8, <2>10
  <2> QED
    BY <2>4, <2>10, <2>11
<1> DEFINE Some(k) == CHOOSE q \in DOMAIN g : Len(q.toks) = k
           f == [k \in 1 .. L |-> g[Some(k)]]
<1>4. ASSUME NEW k \in 1 .. L PROVE Some(k) \in DOMAIN g /\ Len(Some(k).toks) = k
  <2>1. k \in 0 .. L
    BY <1>2
  <2>2. \E q \in DOMAIN g : Len(q.toks) = k
    BY <1>3, <2>1
  <2> QED
    BY <2>2
<1> HIDE DEF Some, Bad, L
<1>5. f \in [1 .. L -> MetaIndex]
  BY <1>1, <1>4
<1>6. \A k, l \in 1 .. L : f[k] = f[l] => k = l
  <2> SUFFICES ASSUME NEW k \in 1 .. L, NEW l \in 1 .. L, g[Some(k)] = g[Some(l)]
               PROVE  k = l
    OBVIOUS
  <2>1. Some(k) = Some(l)
    BY <1>1, <1>4
  <2> QED
    BY <1>4, <2>1
<1> HIDE DEF f
<1>7. L <= NM
  BY <1>2, <1>5, <1>6, DistinctEntries
<1>8. L \in 0 .. NM
  BY <1>2, <1>7, SizesAssumption
<1> QED
  BY <1>8 DEF L

\* The climb from the entry of a path gives that path.
LEMMA FullPathIs ==
  ASSUME NEW m \in [MetaIndex -> MetaEntry], NEW g, PathsMatch(m, g), NEW p \in DOMAIN g
  PROVE  build_full_path_from_meta(m, g[p]) = p
<1> DEFINE up == CHOOSE up : up = [steps \in 0 .. NM |->
                   [c \in 0 .. NM |->
                      IF steps = 0 \/ c \in {0, Root} THEN <<>>
                      ELSE IF m[c].valid = 1 THEN <<>>
                      ELSE Append(up[steps - 1][m[c].parent], m[c].name)]]
<1>1. \A i : build_full_path_from_meta(m, i) = [dbl |-> FALSE, toks |-> up[NM][i]]
  BY Zenon DEF build_full_path_from_meta
<1>2. up = [steps \in 0 .. NM |-> Climb(m, steps, up[steps - 1])]
  BY ClimbExists, Zenon DEF Climb
<1> HIDE DEF up
<1>3. \A n \in 0 .. NM : up[n] = Climb(m, n, up[n - 1])
  BY <1>2
<1>4. /\ \A q \in DOMAIN g : q \in Path /\ ~q.dbl /\ g[q] \in Live(m) /\ Len(q.toks) \in 0 .. NM
      /\ g[RootPath] = Root
      /\ \A q \in DOMAIN g : q # RootPath =>
            /\ g[q] # Root /\ ParentPath(q) \in DOMAIN g
            /\ m[g[q]].parent = g[ParentPath(q)] /\ m[g[q]].name = Basename(q)
  BY PathsShort DEF PathsMatch
<1> DEFINE Right(n) == \A q \in DOMAIN g : Len(q.toks) <= n => up[n][g[q]] = q.toks
           Bad == {n \in 0 .. NM : ~Right(n)}
<1>5. Bad = {}
  <2> SUFFICES ASSUME Bad # {} PROVE FALSE
    OBVIOUS
  <2>1. Bad \in SUBSET Nat
    BY SizesAssumption
  <2> HIDE DEF Bad
  <2>2. PICK n \in Bad : \A k \in Bad : n <= k
    BY <2>1, LeastExists, Zenon
  <2>3. n \in 0 .. NM /\ ~Right(n)
    BY <2>2 DEF Bad
  <2>4. PICK q \in DOMAIN g : Len(q.toks) <= n /\ up[n][g[q]] # q.toks
    BY <2>3
  <2>5. /\ g[q] \in 0 .. NM /\ g[q] # 0 /\ m[g[q]].valid # 1 /\ up[n] = Climb(m, n, up[n - 1])
    <3>1. g[q] \in Live(m)
      BY <1>4
    <3>2. g[q] \in MetaIndex /\ m[g[q]].valid = 0
      BY <3>1 DEF Live
    <3> QED
      BY <1>3, <2>3, <3>2, SizesAssumption DEF MetaIndex
  <2>6. q # RootPath
    <3> SUFFICES ASSUME q = RootPath PROVE FALSE
      OBVIOUS
    <3>1. up[n][g[q]] = <<>>
      BY <1>4, <2>5 DEF Climb
    <3> QED
      BY <2>4, <3>1 DEF RootPath
  <2>7. /\ Len(q.toks) # 0 /\ Len(q.toks) \in Nat /\ n \in Nat
        /\ ParentPath(q) \in DOMAIN g /\ Len(ParentPath(q).toks) = Len(q.toks) - 1
        /\ q.toks = Append(ParentPath(q).toks, Basename(q))
    BY <1>4, <2>3, <2>6, PathParts, SizesAssumption
  <2>8. n # 0 /\ n - 1 \in 0 .. NM /\ Len(ParentPath(q).toks) <= n - 1 /\ ~(n <= n - 1)
    <3> DEFINE L == Len(q.toks)
    <3>1. L \in Nat /\ L # 0 /\ L <= n /\ Len(ParentPath(q).toks) = L - 1
      BY <2>4, <2>7
    <3>2. n \in Nat /\ n <= NM /\ NM \in Nat
      BY <2>3, SizesAssumption
    <3> HIDE DEF L
    <3> QED
      BY <3>1, <3>2
  <2>9. up[n - 1][g[ParentPath(q)]] = ParentPath(q).toks
    <3>1. n - 1 \notin Bad
      BY <2>2, <2>8
    <3>2. Right(n - 1)
      BY <2>8, <3>1 DEF Bad
    <3> QED
      BY <2>7, <2>8, <3>2
  <2>10. up[n][g[q]] = Append(up[n - 1][m[g[q]].parent], m[g[q]].name)
    BY <1>4, <2>5, <2>6, <2>8 DEF Climb
  <2> QED
    BY <1>4, <2>4, <2>6, <2>7, <2>9, <2>10
<1>6. NM \in 0 .. NM
  BY SizesAssumption
<1>7. Right(NM)
  BY <1>5, <1>6
<1>8. up[NM][g[p]] = p.toks
  BY <1>4, <1>6, <1>7
<1>9. p = [dbl |-> FALSE, toks |-> p.toks]
  BY <1>4, PathParts
<1> QED
  BY <1>1, <1>8, <1>9

\* So a rebuild finds the same index.
LEMMA RebuildIs ==
  ASSUME NEW m \in [MetaIndex -> MetaEntry], NEW g, PathsMatch(m, g)
  PROVE  rebuild_path_index(m) = g
<1> DEFINE path == [i \in Live(m) |-> build_full_path_from_meta(m, i)]
           index == rebuild_path_index(m)
           Winner(p) == CHOOSE i \in Live(m) : /\ path[i] = p
                                               /\ \A j \in Live(m) : path[j] = p => j <= i
<1>1. index = [p \in {path[i] : i \in Live(m)} |-> Winner(p)]
  BY DEF rebuild_path_index
<1> HIDE DEF Winner
<1>2. DOMAIN index = {path[i] : i \in Live(m)} /\ index = [p \in DOMAIN index |-> index[p]]
  BY <1>1
<1>3. \A p \in DOMAIN index : index[p] \in Live(m) /\ build_full_path_from_meta(m, index[p]) = p
  BY Rebuild
<1>4. /\ g = [p \in DOMAIN g |-> g[p]] /\ \A p \in DOMAIN g : g[p] \in Live(m)
      /\ \A i \in Live(m) : \E p \in DOMAIN g : g[p] = i
  BY DEF PathsMatch
<1>5. \A p \in DOMAIN g : build_full_path_from_meta(m, g[p]) = p
  BY FullPathIs
<1> HIDE DEF index
<1>6. ASSUME NEW p \in DOMAIN index PROVE p \in DOMAIN g /\ index[p] = g[p]
  <2>1. PICK q \in DOMAIN g : g[q] = index[p]
    BY <1>3, <1>4
  <2>2. q = p
    BY <1>3, <1>5, <2>1
  <2> QED
    BY <2>1, <2>2
<1>7. ASSUME NEW p \in DOMAIN g PROVE p \in DOMAIN index
  <2>1. path[g[p]] = p
    BY <1>4, <1>5
  <2> QED
    BY <1>2, <1>4, <2>1
<1>8. DOMAIN index = DOMAIN g
  BY <1>6, <1>7
<1>9. index = g
  BY <1>2, <1>4, <1>6, <1>8
<1> QED
  BY <1>9 DEF index

-----------------------------------------------------------------------------
(* What each call leaves of the match, and the index it leaves. *)

LEMMA GrowsKeeps ==
  ASSUME NEW p \in ClientPath, NEW type, NEW size, NEW i, PathsMatch(meta, path_index),
         Grows(p, type, size, i)
  PROVE  PathsMatch(meta', Inserted(p, i))
<1> DEFINE g == path_index
           h == Inserted(p, i)
<1>1. /\ \A q \in DOMAIN g : q \in Path /\ ~q.dbl /\ g[q] \in Live(meta)
      /\ RootPath \in DOMAIN g /\ g[RootPath] = Root
      /\ \A q \in DOMAIN g : q # RootPath =>
            /\ g[q] # Root /\ ParentPath(q) \in DOMAIN g
            /\ meta[g[q]].parent = g[ParentPath(q)] /\ meta[g[q]].name = Basename(q)
      /\ \A q, r \in DOMAIN g : g[q] = g[r] => q = r
      /\ \A j \in Live(meta) : \E q \in DOMAIN g : g[q] = j
  BY DEF PathsMatch
<1>2. /\ p \in Path /\ ~p.dbl /\ p.toks # <<>> /\ p \notin DOMAIN g /\ ParentPath(p) \in DOMAIN g
      /\ i \notin Live(meta) /\ Live(meta') = Live(meta) \cup {i}
      /\ \A j \in Live(meta) : meta'[j].parent = meta[j].parent /\ meta'[j].name = meta[j].name
      /\ meta'[i].parent = g[ParentPath(p)] /\ meta'[i].name = Basename(p)
  BY ClientAssumption DEF Grows, MayCreate, Canonical, SameNode
<1> HIDE DEF g
<1>3. /\ h = [q \in DOMAIN h |-> h[q]] /\ DOMAIN h = DOMAIN g \cup {p} /\ h[p] = i
      /\ \A q \in DOMAIN g : h[q] = g[q]
  BY <1>2 DEF Inserted, g
<1> HIDE DEF h
<1>4. i # Root /\ RootPath # p
  BY <1>1, <1>2
<1>5. \A q \in DOMAIN h : q \in Path /\ ~q.dbl /\ h[q] \in Live(meta')
  BY <1>1, <1>2, <1>3
<1>6. RootPath \in DOMAIN h /\ h[RootPath] = Root
  BY <1>1, <1>3
<1>7. \A q \in DOMAIN h : q # RootPath =>
         /\ h[q] # Root /\ ParentPath(q) \in DOMAIN h
         /\ meta'[h[q]].parent = h[ParentPath(q)] /\ meta'[h[q]].name = Basename(q)
  BY <1>1, <1>2, <1>3, <1>4
<1>8. \A q, r \in DOMAIN h : h[q] = h[r] => q = r
  BY <1>1, <1>2, <1>3
<1>9. \A j \in Live(meta') : \E q \in DOMAIN h : h[q] = j
  BY <1>1, <1>2, <1>3
<1> QED
  BY <1>3, <1>5, <1>6, <1>7, <1>8, <1>9 DEF PathsMatch, h

\* The index without p, and the index with q for p.
Dropped(p)    == [q \in DOMAIN path_index \ {p} |-> path_index[q]]
Renamed(p, q) == [x \in (DOMAIN path_index \ {p}) \cup {q} |->
                    IF x = q THEN path_index[p] ELSE path_index[x]]

LEMMA ShrinksKeeps ==
  ASSUME NEW p, PathsMatch(meta, path_index), Shrinks(p)
  PROVE  PathsMatch(meta', Dropped(p))
<1> DEFINE g == path_index
           h == Dropped(p)
           i == g[p]
<1>1. /\ \A q \in DOMAIN g : q \in Path /\ ~q.dbl /\ g[q] \in Live(meta)
      /\ RootPath \in DOMAIN g /\ g[RootPath] = Root
      /\ \A q \in DOMAIN g : q # RootPath =>
            /\ g[q] # Root /\ ParentPath(q) \in DOMAIN g
            /\ meta[g[q]].parent = g[ParentPath(q)] /\ meta[g[q]].name = Basename(q)
      /\ \A q, r \in DOMAIN g : g[q] = g[r] => q = r
      /\ \A j \in Live(meta) : \E q \in DOMAIN g : g[q] = j
  BY DEF PathsMatch
<1>2. /\ p \in DOMAIN g /\ i # Root /\ \A j \in Live(meta) : meta[j].parent # i
      /\ Live(meta') = Live(meta) \ {i}
      /\ \A j \in Live(meta') : meta'[j].parent = meta[j].parent /\ meta'[j].name = meta[j].name
  BY DEF Shrinks, SameNode
<1> HIDE DEF g
<1>3. /\ h = [q \in DOMAIN h |-> h[q]] /\ DOMAIN h = DOMAIN g \ {p}
      /\ \A q \in DOMAIN h : h[q] = g[q]
  BY DEF Dropped, g
<1> HIDE DEF h
<1>4. RootPath # p
  BY <1>1, <1>2
<1>5. \A q \in DOMAIN h : h[q] # i /\ h[q] \in Live(meta')
  BY <1>1, <1>2, <1>3
<1>6. \A q \in DOMAIN h : q # RootPath => ParentPath(q) # p
  BY <1>1, <1>2, <1>3
<1>7. \A q \in DOMAIN h : q # RootPath =>
         /\ h[q] # Root /\ ParentPath(q) \in DOMAIN h
         /\ meta'[h[q]].parent = h[ParentPath(q)] /\ meta'[h[q]].name = Basename(q)
  BY <1>1, <1>2, <1>3, <1>5, <1>6
<1>8. \A j \in Live(meta') : \E q \in DOMAIN h : h[q] = j
  <2> SUFFICES ASSUME NEW j \in Live(meta') PROVE \E q \in DOMAIN h : h[q] = j
    OBVIOUS
  <2>1. PICK q \in DOMAIN g : g[q] = j
    BY <1>1, <1>2
  <2>2. q # p
    BY <1>2, <2>1
  <2> QED
    BY <1>3, <2>1, <2>2
<1>9. /\ \A q \in DOMAIN h : q \in Path /\ ~q.dbl
      /\ \A q, r \in DOMAIN h : h[q] = h[r] => q = r
      /\ RootPath \in DOMAIN h /\ h[RootPath] = Root
  BY <1>1, <1>3, <1>4
<1> QED
  BY <1>3, <1>5, <1>7, <1>8, <1>9 DEF PathsMatch, h

\* The parent of a path in canonical spelling is the same for file_create and
\* for file_rename.
LEMMA OneParent ==
  ASSUME NEW q \in Path, ~q.dbl, q.toks # <<>>
  PROVE  PrefixPath(q) = ParentPath(q)
<1>1. q.toks \in Seq(Name) /\ q = [dbl |-> FALSE, toks |-> q.toks]
  BY PathParts
<1>2. CASE Len(q.toks) = 1
  <2>1. SubSeq(q.toks, 1, 1 - 1) = <<>>
    BY SubSeqEmpty
  <2> QED
    BY <1>2, <2>1 DEF PrefixPath, ParentPath, RootPath
<1>3. CASE Len(q.toks) # 1
  <2> DEFINE t == SubSeq(q.toks, 1, Len(q.toks) - 1)
  <2>1. PrefixPath(q) = [q EXCEPT !.toks = t]
    BY <1>3 DEF PrefixPath
  <2>2. ParentPath(q) = [dbl |-> FALSE, toks |-> t]
    BY DEF ParentPath
  <2> HIDE DEF t
  <2>3. [q EXCEPT !.toks = t] = [dbl |-> FALSE, toks |-> t]
    <3> DEFINE r == [q EXCEPT !.toks = t]
    <3>1. t \in Seq(Name)
      <4>1. ParentPath(q) \in Path /\ ParentPath(q).toks = t
        BY <1>1, PathParts DEF t
      <4> QED
        BY <4>1 DEF Path
    <3>2. r \in Path /\ r.dbl = q.dbl /\ r.toks = t
      BY <3>1 DEF Path
    <3> HIDE DEF r
    <3>3. r = [dbl |-> FALSE, toks |-> r.toks]
      BY <3>2, PathParts
    <3> QED
      BY <3>2, <3>3 DEF r
  <2> QED
    BY <2>1, <2>2, <2>3
<1> QED
  BY <1>2, <1>3

LEMMA MovesKeeps ==
  ASSUME NEW p, NEW q \in ClientPath, PathsMatch(meta, path_index), Moves(p, q),
         \A j \in Live(meta) \ {Root} : meta[meta[j].parent].type = DIR
  PROVE  PathsMatch(meta', Renamed(p, q))
<1> DEFINE g == path_index
           h == Renamed(p, q)
           i == g[p]
<1>1. /\ \A x \in DOMAIN g : x \in Path /\ ~x.dbl /\ g[x] \in Live(meta)
      /\ RootPath \in DOMAIN g /\ g[RootPath] = Root
      /\ \A x \in DOMAIN g : x # RootPath =>
            /\ g[x] # Root /\ ParentPath(x) \in DOMAIN g
            /\ meta[g[x]].parent = g[ParentPath(x)] /\ meta[g[x]].name = Basename(x)
      /\ \A x, y \in DOMAIN g : g[x] = g[y] => x = y
      /\ \A j \in Live(meta) : \E x \in DOMAIN g : g[x] = j
  BY DEF PathsMatch
<1>2. /\ q \in Path /\ ~q.dbl /\ q.toks # <<>> /\ q \notin DOMAIN g /\ p \in DOMAIN g
      /\ PrefixPath(q) \in DOMAIN g
      /\ i \in Live(meta) /\ i # Root /\ meta[i].type = FILE
      /\ meta[g[PrefixPath(q)]].type = DIR
      /\ Live(meta') = Live(meta)
      /\ \A j \in Live(meta) \ {i} : meta'[j].parent = meta[j].parent /\ meta'[j].name = meta[j].name
      /\ meta'[i].parent = g[PrefixPath(q)] /\ meta'[i].name = Basename(q)
  BY ClientAssumption DEF Moves, MayRename, Canonical, SameNode
<1>3. PrefixPath(q) = ParentPath(q)
  BY <1>2, OneParent
<1> HIDE DEF g
<1>4. /\ h = [x \in DOMAIN h |-> h[x]] /\ DOMAIN h = (DOMAIN g \ {p}) \cup {q} /\ h[q] = i
      /\ \A x \in DOMAIN g : x # p => h[x] = g[x]
  BY <1>2 DEF Renamed, g
<1> HIDE DEF h
<1>5. RootPath # p /\ RootPath # q /\ FILE # DIR
  BY <1>1, <1>2 DEF FILE, DIR
<1>6. ParentPath(q) # p
  BY <1>2, <1>3, <1>5
<1>7. \A x \in DOMAIN g : x # RootPath => ParentPath(x) # p
  <2> SUFFICES ASSUME NEW x \in DOMAIN g, x # RootPath, ParentPath(x) = p PROVE FALSE
    OBVIOUS
  <2>1. g[x] \in Live(meta) \ {Root} /\ meta[g[x]].parent = i
    BY <1>1
  <2> QED
    BY <1>2, <1>5, <2>1
<1>8. \A x \in DOMAIN g : x # p => g[x] # i
  BY <1>1, <1>2
<1>9. \A x \in DOMAIN h : x \in Path /\ ~x.dbl /\ h[x] \in Live(meta')
  BY <1>1, <1>2, <1>4
<1>10. RootPath \in DOMAIN h /\ h[RootPath] = Root
  BY <1>1, <1>4, <1>5
<1>11. \A x \in DOMAIN h : x # RootPath =>
         /\ h[x] # Root /\ ParentPath(x) \in DOMAIN h
         /\ meta'[h[x]].parent = h[ParentPath(x)] /\ meta'[h[x]].name = Basename(x)
  <2> SUFFICES ASSUME NEW x \in DOMAIN h, x # RootPath
               PROVE  /\ h[x] # Root /\ ParentPath(x) \in DOMAIN h
                      /\ meta'[h[x]].parent = h[ParentPath(x)] /\ meta'[h[x]].name = Basename(x)
    OBVIOUS
  <2>1. CASE x = q
    BY <1>2, <1>3, <1>4, <1>6, <2>1
  <2>2. CASE x # q
    <3>1. x \in DOMAIN g /\ x # p /\ h[x] = g[x] /\ g[x] # i
      BY <1>4, <1>8, <2>2
    <3>2. /\ g[x] \in Live(meta) \ {i} /\ g[x] # Root /\ ParentPath(x) \in DOMAIN g
          /\ meta[g[x]].parent = g[ParentPath(x)] /\ meta[g[x]].name = Basename(x)
      BY <1>1, <3>1
    <3>3. ParentPath(x) # p /\ h[ParentPath(x)] = g[ParentPath(x)]
      BY <1>4, <1>7, <3>1, <3>2
    <3> QED
      BY <1>2, <1>4, <3>1, <3>2, <3>3
  <2> QED
    BY <2>1, <2>2
<1>12. \A x, y \in DOMAIN h : h[x] = h[y] => x = y
  <2>1. \A x \in DOMAIN h : x = q \/ (x \in DOMAIN g /\ x # p /\ h[x] = g[x] /\ g[x] # i)
    BY <1>4, <1>8
  <2> QED
    BY <1>1, <1>4, <2>1
<1>13. \A j \in Live(meta') : \E x \in DOMAIN h : h[x] = j
  <2> SUFFICES ASSUME NEW j \in Live(meta) PROVE \E x \in DOMAIN h : h[x] = j
    BY <1>2
  <2>1. PICK x \in DOMAIN g : g[x] = j
    BY <1>1
  <2>2. CASE x = p
    BY <1>4, <2>1, <2>2
  <2>3. CASE x # p
    BY <1>4, <2>1, <2>3
  <2> QED
    BY <2>2, <2>3
<1> QED
  BY <1>4, <1>9, <1>10, <1>11, <1>12, <1>13 DEF PathsMatch, h

\* The same entries under the same names: the same index.
LEMMA SameKeeps ==
  ASSUME PathsMatch(meta, path_index), Live(meta') = Live(meta), UNCHANGED path_index,
         \A j \in Live(meta) : meta'[j].parent = meta[j].parent /\ meta'[j].name = meta[j].name
  PROVE  PathsMatch(meta', path_index')
<1> DEFINE g == path_index
<1>1. /\ \A q \in DOMAIN g : g[q] \in Live(meta)
      /\ \A q \in DOMAIN g : q # RootPath =>
            meta[g[q]].parent = g[ParentPath(q)] /\ meta[g[q]].name = Basename(q)
  BY DEF PathsMatch
<1>2. \A q \in DOMAIN g : q # RootPath =>
            meta'[g[q]].parent = g[ParentPath(q)] /\ meta'[g[q]].name = Basename(q)
  BY <1>1
<1>3. PathsMatch(meta', g)
  BY <1>2 DEF PathsMatch
<1> QED
  BY <1>3

-----------------------------------------------------------------------------
(* The match holds of every state. *)

\* No directory has a size.
FoldersSizeless(m) == \A i \in Live(m) : m[i].type = DIR => m[i].total_size = 0

TreeInv == /\ Inv /\ Shape
           /\ PathsMatch(meta, path_index)
           /\ FoldersSizeless(meta)

\* What the calls do to the tree, the index they leave included.
FileMade   == \E p \in ClientPath, size \in Size, i \in MetaIndex :
                 Grows(p, FILE, size, i) /\ path_index' = Inserted(p, i)
FolderMade == \E p \in ClientPath, i \in MetaIndex :
                 Grows(p, DIR, 0, i) /\ path_index' = Inserted(p, i)
Removed    == \E p \in ClientPath : Shrinks(p) /\ path_index' = Dropped(p)
FileMoved  == \E p, q \in ClientPath : Moves(p, q) /\ path_index' = Renamed(p, q)
FileSized  == \E p \in ClientPath, size \in Size : Resizes(p, size)

LEMMA CreateEffect ==
  ASSUME TreeInv, NEW p \in ClientPath, NEW size \in Size, CreateInside(p, size)
  PROVE  FileMade
  BY CreateShape DEF TreeInv, FileMade

LEMMA MakeDirEffect ==
  ASSUME TreeInv, TypeOK', NEW p \in ClientPath, MakeDirInside(p)
  PROVE  FolderMade
<1>1. PICK i \in MetaIndex : Grows(p, DIR, 0, i) /\ path_index' = rebuild_path_index(meta')
  BY MakeDirShape DEF TreeInv
<1>2. PathsMatch(meta', Inserted(p, i))
  BY <1>1, GrowsKeeps DEF TreeInv
<1>3. path_index' = Inserted(p, i)
  BY <1>1, <1>2, RebuildIs DEF TypeOK
<1> QED
  BY <1>1, <1>3 DEF FolderMade

LEMMA RemoveEffect ==
  ASSUME TreeInv, TypeOK', NEW p \in ClientPath, file_delete(p) \/ dir_delete(p)
  PROVE  Removed
<1>1. Shrinks(p) /\ path_index' = rebuild_path_index(meta')
  BY DeleteShape, DirDeleteShape DEF TreeInv
<1>2. PathsMatch(meta', Dropped(p))
  BY <1>1, ShrinksKeeps DEF TreeInv
<1>3. path_index' = Dropped(p)
  BY <1>1, <1>2, RebuildIs DEF TypeOK
<1> QED
  BY <1>1, <1>3 DEF Removed

LEMMA MoveEffect ==
  ASSUME TreeInv, TypeOK', NEW p \in ClientPath, NEW q \in ClientPath, RenameInside(p, q)
  PROVE  FileMoved
<1>1. Moves(p, q) /\ path_index' = rebuild_path_index(meta')
  BY RenameShape DEF TreeInv
<1>2. \A j \in Live(meta) \ {Root} : meta[meta[j].parent].type = DIR
  BY ParentsLive DEF TreeInv, Shape
<1>3. PathsMatch(meta', Renamed(p, q))
  BY <1>1, <1>2, MovesKeeps DEF TreeInv
<1>4. path_index' = Renamed(p, q)
  BY <1>1, <1>3, RebuildIs DEF TypeOK
<1> QED
  BY <1>1, <1>4 DEF FileMoved

\* Every step has one of these effects, or none that a client sees.
LEMMA TreeEffect ==
  ASSUME TreeInv, [TreeNext]_vars
  PROVE  \/ FileMade \/ FolderMade \/ Removed \/ FileMoved \/ FileSized \/ Stays
<1> DEFINE E == FileMade \/ FolderMade \/ Removed \/ FileMoved \/ FileSized \/ Stays
<1> SUFFICES E
  OBVIOUS
<1>1. Inv /\ Shape /\ TypeOK'
  BY TreeNextIsNext, NextTyped DEF TreeInv, Inv
<1>2. ASSUME NEW p \in ClientPath, NEW size \in Size, CreateInside(p, size) PROVE FileMade
  BY <1>2, CreateEffect
<1>3. ASSUME NEW p \in ClientPath, NEW size \in Size, CreateNoSpaceInside(p, size) PROVE Stays
  BY <1>1, <1>3, CreateNoSpaceShape
<1>4. ASSUME NEW p \in ClientPath, file_delete(p) \/ dir_delete(p) PROVE Removed
  BY <1>1, <1>4, RemoveEffect
<1>5. ASSUME NEW p \in ClientPath, NEW pos \in Size, file_edit(p, pos) PROVE Stays
  BY <1>1, <1>5, EditShape
<1>6. ASSUME NEW p \in ClientPath, NEW size \in Size, file_truncate(p, size) PROVE FileSized
  BY <1>1, <1>6, TruncateShape DEF FileSized
<1>7. ASSUME NEW p \in ClientPath, MakeDirInside(p) PROVE FolderMade
  BY <1>1, <1>7, MakeDirEffect
<1>8. ASSUME NEW p \in ClientPath, NEW q \in ClientPath, RenameInside(p, q) PROVE FileMoved
  BY <1>1, <1>8, MoveEffect
<1>9. ASSUME UNCHANGED vars PROVE Stays
  BY <1>9 DEF vars, Stays, SameNode
<1> QED
  BY <1>2, <1>3, <1>4, <1>5, <1>6, <1>7, <1>8, <1>9 DEF TreeNext

LEMMA NextMatch == TreeInv /\ [TreeNext]_vars => (PathsMatch(meta, path_index) /\ FoldersSizeless(meta))'
<1> SUFFICES ASSUME TreeInv, [TreeNext]_vars
             PROVE  PathsMatch(meta', path_index') /\ FoldersSizeless(meta')
  OBVIOUS
<1>1. PathsMatch(meta, path_index) /\ \A i \in Live(meta) : meta[i].type = DIR => meta[i].total_size = 0
  BY DEF TreeInv, FoldersSizeless
<1>2. ASSUME NEW p \in ClientPath, NEW type, NEW size, NEW i \in MetaIndex,
             Grows(p, type, size, i), path_index' = Inserted(p, i), type = DIR => size = 0
      PROVE  PathsMatch(meta', path_index') /\ FoldersSizeless(meta')
  <2>1. PathsMatch(meta', path_index')
    BY <1>1, <1>2, GrowsKeeps
  <2> QED
    BY <1>1, <1>2, <2>1 DEF FoldersSizeless, Grows, SameNode
<1>7. CASE FileMade
  BY <1>2, <1>7 DEF FileMade, FILE, DIR
<1>8. CASE FolderMade
  BY <1>2, <1>8 DEF FolderMade
<1>3. CASE Removed
  <2>1. PICK p \in ClientPath : Shrinks(p) /\ path_index' = Dropped(p)
    BY <1>3 DEF Removed
  <2>2. PathsMatch(meta', path_index')
    BY <1>1, <2>1, ShrinksKeeps
  <2> QED
    BY <1>1, <2>1, <2>2 DEF FoldersSizeless, Shrinks, SameNode
<1>4. CASE FileMoved
  <2>1. PICK p \in ClientPath, q \in ClientPath : Moves(p, q) /\ path_index' = Renamed(p, q)
    BY <1>4 DEF FileMoved
  <2>2. \A j \in Live(meta) \ {Root} : meta[meta[j].parent].type = DIR
    BY ParentsLive DEF TreeInv, Shape
  <2>3. PathsMatch(meta', path_index')
    BY <1>1, <2>1, <2>2, MovesKeeps
  <2> QED
    BY <1>1, <2>1, <2>3 DEF FoldersSizeless, Moves, SameNode, FILE, DIR
<1>5. CASE FileSized
  <2>1. PICK p \in ClientPath, size \in Size : Resizes(p, size)
    BY <1>5 DEF FileSized
  <2>2. PathsMatch(meta', path_index')
    BY <1>1, <2>1, SameKeeps DEF Resizes, SameNode
  <2> QED
    BY <1>1, <2>1, <2>2 DEF FoldersSizeless, Resizes, SameNode, FILE, DIR
<1>6. CASE Stays
  BY <1>1, <1>6, SameKeeps DEF Stays, SameNode, FoldersSizeless
<1> QED
  BY <1>3, <1>4, <1>5, <1>6, <1>7, <1>8, TreeEffect

LEMMA InitMatch == Init => PathsMatch(meta, path_index) /\ FoldersSizeless(meta)
<1> SUFFICES ASSUME Init PROVE PathsMatch(meta, path_index) /\ FoldersSizeless(meta)
  OBVIOUS
<1>1. Root \in MetaIndex
  BY SizesAssumption DEF Root, MetaIndex
<1>2. /\ Live(meta) = {Root} /\ meta[Root].total_size = 0
      /\ path_index = [p \in {RootPath} |-> Root]
  <2>1. /\ \A i \in MetaIndex : meta[i].valid = IF i = Root THEN 0 ELSE 1
        /\ meta[Root].total_size = 0
    BY <1>1 DEF Init, FreshEntry
  <2> QED
    BY <1>1, <2>1 DEF Init, Live
<1>3. RootPath \in Path /\ ~RootPath.dbl
  BY DEF RootPath, Path
<1> QED
  BY <1>2, <1>3 DEF PathsMatch, FoldersSizeless

LEMMA TreeInvHolds == TreeSpec => []TreeInv
<1>1. Init => TreeInv
  BY InitInv, InitShape, InitMatch DEF TreeInv
<1>2. TreeInv /\ [TreeNext]_vars => TreeInv'
  BY TreeNextIsNext, NextInv, NextShape, NextMatch DEF TreeInv
<1> QED
  BY <1>1, <1>2, PTL DEF TreeSpec

\* Through any sequence of calls the table is a tree: whatever is in use hangs below
\* the root, is listed by its parent, and has the path its parent's path and its
\* name spell.
THEOREM EveryEntryInTreeCorrect == TreeSpec => []EveryEntryInTree
<1>1. TreeInv => EveryEntryInTree
  <2> SUFFICES ASSUME TreeInv, NEW i \in Live(meta) \ {Root}, NEW d, d = meta[i].parent
               PROVE  /\ d \in MetaIndex /\ IsDir(d) /\ i \in ListedIn(d)
                      /\ FullPath(i).toks = Append(FullPath(d).toks, meta[i].name)
    BY DEF EveryEntryInTree
  <2>1. Inv /\ Lists(meta, blocks, d, i) /\ PathsMatch(meta, path_index)
    BY DEF TreeInv, Shape, AllHang
  <2>2. d \in Live(meta) /\ meta[d].type = DIR /\ meta[d].start_index # 0
    BY <2>1 DEF Lists, IsDirWithBlock
  <2>3. PICK k \in DOMAIN Items(meta, blocks, d) : Items(meta, blocks, d)[k] = i
    BY <2>1 DEF Lists
  <2>4. Items(meta, blocks, d) \in dir_block_read(Volume, d)
    BY <2>1, <2>2, ReadSome
  <2>5. i \in ListedIn(d)
    BY <2>3, <2>4 DEF ListedIn
  <2>6. PICK p \in DOMAIN path_index : path_index[p] = i
    BY <2>1 DEF PathsMatch
  <2>7. p # RootPath /\ p \in Path /\ ~p.dbl
    BY <2>1, <2>6 DEF PathsMatch
  <2>8. /\ ParentPath(p) \in DOMAIN path_index /\ path_index[ParentPath(p)] = d
        /\ meta[i].name = Basename(p)
    BY <2>1, <2>6, <2>7 DEF PathsMatch
  <2>9. meta \in [MetaIndex -> MetaEntry]
    BY <2>1 DEF Inv, TypeOK
  <2>10. FullPath(i) = p
    BY <2>1, <2>6, <2>9, FullPathIs DEF FullPath
  <2>11. FullPath(d) = ParentPath(p)
    BY <2>1, <2>8, <2>9, FullPathIs DEF FullPath
  <2>12. p.toks = Append(ParentPath(p).toks, Basename(p))
    BY <2>7, PathParts
  <2> QED
    BY <2>2, <2>5, <2>8, <2>10, <2>11, <2>12 DEF IsDir, Live
<1> QED
  BY <1>1, TreeInvHolds, PTL

\* After the calls that insert into the path index as after those that rebuild it,
\* the index is the tree read off the table: every entry in use is found by its
\* path, no two share one, and no path is left over.
THEOREM IndexIsTreeCorrect == TreeSpec => []IndexIsTree
<1>1. TreeInv => IndexIsTree
  <2> SUFFICES ASSUME TreeInv PROVE IndexIsTree
    OBVIOUS
  <2>1. PathsMatch(meta, path_index) /\ meta \in [MetaIndex -> MetaEntry]
    BY DEF TreeInv, Inv, TypeOK
  <2>2. \A p \in DOMAIN path_index : path_index[p] \in Live(meta) /\ FullPath(path_index[p]) = p
    BY <2>1, FullPathIs DEF FullPath, PathsMatch
  <2>3. \A i \in Live(meta) : \E p \in DOMAIN path_index : path_index[p] = i
    BY <2>1 DEF PathsMatch
  <2>4. \A i \in Live(meta) : FullPath(i) \in DOMAIN path_index /\ path_index[FullPath(i)] = i
    BY <2>2, <2>3
  <2> QED
    BY <2>2, <2>4 DEF IndexIsTree
<1> QED
  BY <1>1, TreeInvHolds, PTL

-----------------------------------------------------------------------------
(* The refinement.  The calls implement the operations on a tree of names. *)

NodeOf(e) == [dir |-> e.type = DIR, size |-> e.total_size]

\* The tree the path index g finds in the table m.
TreeOf(m, g) == [t \in {p.toks : p \in DOMAIN g} |-> NodeOf(m[g[[dbl |-> FALSE, toks |-> t]]])]
Abs == TreeOf(meta, path_index)

LEMMA TreeOfIs ==
  ASSUME NEW m, NEW g, PathsMatch(m, g)
  PROVE  /\ TreeOf(m, g) = [t \in DOMAIN TreeOf(m, g) |-> TreeOf(m, g)[t]]
         /\ \A t : t \in DOMAIN TreeOf(m, g) <=> \E p \in DOMAIN g : p.toks = t
         /\ \A p \in DOMAIN g : p.toks \in DOMAIN TreeOf(m, g) /\ TreeOf(m, g)[p.toks] = NodeOf(m[g[p]])
         /\ \A p \in DOMAIN g : p = [dbl |-> FALSE, toks |-> p.toks]
<1>1. \A p \in DOMAIN g : p = [dbl |-> FALSE, toks |-> p.toks]
  BY PathParts DEF PathsMatch
<1> QED
  BY <1>1 DEF TreeOf

\* The next tree has the domain d, the node n at t, and the other nodes as before.
BecomesTree(d, t, n) ==
  /\ Abs' = [x \in DOMAIN Abs' |-> Abs'[x]] /\ DOMAIN Abs' = d
  /\ t \in d => Abs'[t] = n
  /\ \A x \in d : x # t => Abs'[x] = Abs[x]

\* The operations of OFSTree on this tree.
LEMMA TreeVacant ==
  ASSUME NEW t
  PROVE  Tree!Vacant(t) <=> /\ t # <<>> /\ t \notin DOMAIN Abs
                            /\ SubSeq(t, 1, Len(t) - 1) \in DOMAIN Abs
                            /\ Abs[SubSeq(t, 1, Len(t) - 1)].dir
  BY DEF Tree!Vacant, Tree!Parent, Abs, TreeOf, NodeOf

LEMMA TreePlaces ==
  ASSUME NEW x \in DOMAIN Abs, NEW c \in Name
  PROVE  Append(x, c) \in Tree!Places
<1>1. Tree!Places = {Append(y, b) : y \in DOMAIN Abs, b \in Name}
  BY DEF Tree!Places, Abs, TreeOf, NodeOf
<1> QED
  BY <1>1

LEMMA TreeMakes ==
  ASSUME NEW t, NEW n, Tree!Vacant(t), BecomesTree(DOMAIN Abs \cup {t}, t, n)
  PROVE  /\ \A size : n = [dir |-> FALSE, size |-> size] => Tree!MakeFile(t, size)
         /\ n = [dir |-> TRUE, size |-> 0] => Tree!MakeFolder(t)
<1>1. Abs' = [x \in DOMAIN Abs \cup {t} |-> IF x = t THEN n ELSE Abs[x]]
  BY DEF BecomesTree
<1>2. ASSUME NEW size, n = [dir |-> FALSE, size |-> size] PROVE Tree!MakeFile(t, size)
  <2>1. Tree!MakeFile(t, size) <=>
          Tree!Vacant(t) /\ Abs' = [x \in DOMAIN Abs \cup {t} |->
                                      IF x = t THEN [dir |-> FALSE, size |-> size] ELSE Abs[x]]
    BY DEF Tree!MakeFile, Tree!With, Tree!File, Abs, TreeOf, NodeOf
  <2> QED
    BY <1>1, <1>2, <2>1
<1>3. ASSUME n = [dir |-> TRUE, size |-> 0] PROVE Tree!MakeFolder(t)
  <2>1. Tree!MakeFolder(t) <=>
          Tree!Vacant(t) /\ Abs' = [x \in DOMAIN Abs \cup {t} |->
                                      IF x = t THEN [dir |-> TRUE, size |-> 0] ELSE Abs[x]]
    BY DEF Tree!MakeFolder, Tree!With, Tree!Folder, Abs, TreeOf, NodeOf
  <2> QED
    BY <1>1, <1>3, <2>1
<1> QED
  BY <1>2, <1>3

LEMMA TreeRemoves ==
  ASSUME NEW t, NEW n, t \in DOMAIN Abs, t # <<>>,
         \A x \in DOMAIN Abs : x # <<>> => SubSeq(x, 1, Len(x) - 1) # t,
         BecomesTree(DOMAIN Abs \ {t}, t, n)
  PROVE  Tree!Remove(t)
<1>1. Abs' = [x \in DOMAIN Abs \ {t} |-> Abs[x]]
  BY DEF BecomesTree
<1>2. {x \in DOMAIN Abs : x # <<>> /\ SubSeq(x, 1, Len(x) - 1) = t} = {}
  OBVIOUS
<1>3. Tree!Remove(t) <=>
        /\ t \in DOMAIN Abs /\ t # <<>>
        /\ {x \in DOMAIN Abs : x # <<>> /\ SubSeq(x, 1, Len(x) - 1) = t} = {}
        /\ Abs' = [x \in DOMAIN Abs \ {t} |-> Abs[x]]
  BY DEF Tree!Remove, Tree!Children, Tree!Parent, Tree!Without, Abs, TreeOf, NodeOf
<1> QED
  BY <1>1, <1>2, <1>3

\* A file with another size.
LEMMA NodeResized ==
  ASSUME NEW r \in [dir : BOOLEAN, size : Nat], ~r.dir, NEW size \in Nat
  PROVE  [r EXCEPT !.size = size] = [dir |-> FALSE, size |-> size]
<1> DEFINE e == [r EXCEPT !.size = size]
<1>1. e \in [dir : BOOLEAN, size : Nat]
  OBVIOUS
<1>2. e.dir = r.dir /\ e.size = size
  OBVIOUS
<1> HIDE DEF e
<1>3. e = [dir |-> e.dir, size |-> e.size]
  BY <1>1
<1>4. e.dir = FALSE
  BY <1>1, <1>2
<1>5. e = [dir |-> FALSE, size |-> size]
  BY <1>2, <1>3, <1>4, Zenon
<1> QED
  BY <1>5 DEF e

LEMMA TreeResizes ==
  ASSUME NEW t \in DOMAIN Abs, NEW size \in Nat, Abs = [x \in DOMAIN Abs |-> Abs[x]],
         Abs[t] \in [dir : BOOLEAN, size : Nat], ~Abs[t].dir,
         BecomesTree(DOMAIN Abs, t, [dir |-> FALSE, size |-> size])
  PROVE  Tree!Resize(t, size)
<1>1. [Abs[t] EXCEPT !.size = size] = [dir |-> FALSE, size |-> size]
  BY NodeResized
<1>2. Abs' = [Abs EXCEPT ![t] = [dir |-> FALSE, size |-> size]]
  BY DEF BecomesTree
<1>3. Abs' = [Abs EXCEPT ![t].size = size]
  BY <1>1, <1>2
<1>4. Tree!Resize(t, size) <=> /\ t \in DOMAIN Abs /\ ~Abs[t].dir
                               /\ Abs' = [Abs EXCEPT ![t].size = size]
  BY DEF Tree!Resize, Abs, TreeOf, NodeOf
<1> QED
  BY <1>3, <1>4

LEMMA TreeMoves ==
  ASSUME NEW t, NEW u, t \in DOMAIN Abs, ~Abs[t].dir, Tree!Vacant(u),
         BecomesTree((DOMAIN Abs \ {t}) \cup {u}, u, Abs[t])
  PROVE  Tree!Move(t, u)
<1>1. Abs' = [x \in (DOMAIN Abs \ {t}) \cup {u} |-> IF x = u THEN Abs[t] ELSE Abs[x]]
  BY DEF BecomesTree
<1>2. Tree!Move(t, u) <=> /\ t \in DOMAIN Abs /\ ~Abs[t].dir /\ Tree!Vacant(u)
                          /\ Abs' = [x \in (DOMAIN Abs \ {t}) \cup {u} |->
                                       IF x = u THEN Abs[t] ELSE Abs[x]]
  BY DEF Tree!Move, Abs, TreeOf, NodeOf
<1> QED
  BY <1>1, <1>2

\* A path stands for its names.
LEMMA OnePath ==
  ASSUME NEW p \in Path, NEW q \in Path, ~p.dbl, ~q.dbl, p.toks = q.toks
  PROVE  p = q
<1>1. p = [dbl |-> FALSE, toks |-> p.toks] /\ q = [dbl |-> FALSE, toks |-> q.toks]
  BY PathParts
<1> QED
  BY <1>1

\* What two tables show the same way is the same node.
LEMMA SameNodeOf ==
  ASSUME NEW m, NEW m2, NEW j, SameNode(m, m2, j)
  PROVE  NodeOf(m2[j]) = NodeOf(m[j])
  BY DEF SameNode, NodeOf

LEMMA FileNode ==
  ASSUME NEW e, e.type = FILE
  PROVE  NodeOf(e) = [dir |-> FALSE, size |-> e.total_size] /\ ~NodeOf(e).dir
<1>1. ~(e.type = DIR)
  BY DEF FILE, DIR
<1>2. (e.type = DIR) = FALSE
  BY <1>1, Zenon
<1> QED
  BY <1>2 DEF NodeOf

LEMMA FolderNode ==
  ASSUME NEW e, e.type = DIR
  PROVE  NodeOf(e) = [dir |-> TRUE, size |-> e.total_size] /\ NodeOf(e).dir
<1>1. (e.type = DIR) = TRUE
  BY Zenon
<1> QED
  BY <1>1 DEF NodeOf

LEMMA GrownTree ==
  ASSUME NEW p \in ClientPath, NEW type, NEW size, NEW i,
         PathsMatch(meta, path_index), PathsMatch(meta', path_index'),
         Grows(p, type, size, i), path_index' = Inserted(p, i)
  PROVE  /\ p.toks \in Tree!Places /\ Tree!Vacant(p.toks)
         /\ BecomesTree(DOMAIN Abs \cup {p.toks}, p.toks, [dir |-> type = DIR, size |-> size])
<1> DEFINE g == path_index
           h == path_index'
           A == Abs
           B == Abs'
           n == [dir |-> type = DIR, size |-> size]
           up == ParentPath(p)
<1>1. /\ B = [t \in DOMAIN B |-> B[t]]
      /\ \A t : t \in DOMAIN B <=> \E q \in DOMAIN h : q.toks = t
      /\ \A q \in DOMAIN h : B[q.toks] = NodeOf(meta'[h[q]])
  BY TreeOfIs DEF Abs
<1>2. /\ \A t : t \in DOMAIN A <=> \E q \in DOMAIN g : q.toks = t
      /\ \A q \in DOMAIN g : q.toks \in DOMAIN A /\ A[q.toks] = NodeOf(meta[g[q]])
  BY TreeOfIs DEF Abs
<1>3. /\ p \in Path /\ ~p.dbl /\ p.toks # <<>> /\ p \notin DOMAIN g /\ up \in DOMAIN g
      /\ i \notin Live(meta) /\ meta[g[up]].type = DIR
      /\ \A j \in Live(meta) : SameNode(meta, meta', j)
      /\ meta'[i].type = type /\ meta'[i].total_size = size
  BY ClientAssumption DEF Grows, MayCreate, Canonical
<1>4. \A q \in DOMAIN g : q \in Path /\ ~q.dbl /\ g[q] \in Live(meta)
  BY DEF PathsMatch
<1>5. DOMAIN h = DOMAIN g \cup {p} /\ h[p] = i /\ \A q \in DOMAIN g : h[q] = g[q]
  BY <1>3 DEF Inserted
<1>6. /\ p.toks = Append(up.toks, Basename(p)) /\ Basename(p) \in Name
      /\ up.toks = SubSeq(p.toks, 1, Len(p.toks) - 1)
  BY <1>3, PathParts
<1>7. p.toks \notin DOMAIN A
  BY <1>2, <1>3, <1>4, OnePath
<1> HIDE DEF A, B, g, h, up
<1>8. up.toks \in DOMAIN A /\ A[up.toks].dir
  BY <1>2, <1>3, FolderNode
<1>9. DOMAIN B = DOMAIN A \cup {p.toks}
  <2>1. \A t : t \in DOMAIN B <=> t \in DOMAIN A \/ t = p.toks
    BY <1>1, <1>2, <1>5
  <2> QED
    BY <2>1
<1>10. B[p.toks] = n
  BY <1>1, <1>3, <1>5 DEF NodeOf
<1> HIDE DEF n
<1>11. \A t \in DOMAIN A : B[t] = A[t]
  <2> SUFFICES ASSUME NEW t \in DOMAIN A PROVE B[t] = A[t]
    OBVIOUS
  <2>1. PICK q \in DOMAIN g : q.toks = t
    BY <1>2
  <2>2. B[t] = NodeOf(meta'[g[q]]) /\ A[t] = NodeOf(meta[g[q]]) /\ g[q] \in Live(meta)
    BY <1>1, <1>2, <1>4, <1>5, <2>1
  <2> QED
    BY <1>3, <2>2, SameNodeOf
<1>12. BecomesTree(DOMAIN A \cup {p.toks}, p.toks, n)
  BY <1>1, <1>7, <1>9, <1>10, <1>11 DEF BecomesTree, A, B
<1>13. Tree!Vacant(p.toks)
  BY <1>3, <1>6, <1>7, <1>8, TreeVacant DEF A
<1>14. Append(up.toks, Basename(p)) \in Tree!Places
  BY <1>6, <1>8, TreePlaces DEF A
<1> QED
  BY <1>6, <1>12, <1>13, <1>14 DEF A, n

LEMMA ShrunkTree ==
  ASSUME NEW p \in ClientPath, PathsMatch(meta, path_index), PathsMatch(meta', path_index'),
         Shrinks(p), path_index' = Dropped(p)
  PROVE  Tree!Remove(p.toks)
<1> DEFINE g == path_index
           h == path_index'
           A == Abs
           B == Abs'
<1>1. /\ B = [t \in DOMAIN B |-> B[t]]
      /\ \A t : t \in DOMAIN B <=> \E q \in DOMAIN h : q.toks = t
      /\ \A q \in DOMAIN h : B[q.toks] = NodeOf(meta'[h[q]]) /\ h[q] \in Live(meta')
  BY TreeOfIs DEF Abs, PathsMatch
<1>2. /\ \A t : t \in DOMAIN A <=> \E q \in DOMAIN g : q.toks = t
      /\ \A q \in DOMAIN g : q.toks \in DOMAIN A /\ A[q.toks] = NodeOf(meta[g[q]])
  BY TreeOfIs DEF Abs
<1>3. /\ p \in DOMAIN g /\ g[p] # Root
      /\ \A j \in Live(meta) : meta[j].parent # g[p]
      /\ \A j \in Live(meta') : SameNode(meta, meta', j)
  BY DEF Shrinks
<1>4. /\ \A q \in DOMAIN g : q \in Path /\ ~q.dbl /\ g[q] \in Live(meta)
      /\ g[RootPath] = Root
      /\ \A q \in DOMAIN g : q # RootPath =>
           ParentPath(q) \in DOMAIN g /\ meta[g[q]].parent = g[ParentPath(q)]
  BY DEF PathsMatch
<1>5. DOMAIN h = DOMAIN g \ {p} /\ \A q \in DOMAIN h : h[q] = g[q]
  BY DEF Dropped
<1>6. \A q \in DOMAIN g : q.toks = p.toks => q = p
  BY <1>3, <1>4, OnePath
<1> HIDE DEF A, B, g, h
<1>7. p.toks \in DOMAIN A /\ p.toks # <<>>
  BY <1>2, <1>3, <1>4, PathParts
<1>8. DOMAIN B = DOMAIN A \ {p.toks}
  <2>1. \A q : q \in DOMAIN h <=> q \in DOMAIN g /\ q.toks # p.toks
    BY <1>3, <1>5, <1>6
  <2>2. \A t : t \in DOMAIN B <=> t \in DOMAIN A /\ t # p.toks
    BY <1>1, <1>2, <2>1
  <2> QED
    BY <2>2
<1>9. \A t \in DOMAIN B : B[t] = A[t]
  <2> SUFFICES ASSUME NEW t \in DOMAIN B PROVE B[t] = A[t]
    OBVIOUS
  <2>1. PICK q \in DOMAIN h : q.toks = t
    BY <1>1
  <2>2. B[t] = NodeOf(meta'[g[q]]) /\ A[t] = NodeOf(meta[g[q]]) /\ g[q] \in Live(meta')
    BY <1>1, <1>2, <1>5, <2>1
  <2> QED
    BY <1>3, <2>2, SameNodeOf
<1>10. BecomesTree(DOMAIN A \ {p.toks}, p.toks, A[p.toks])
  BY <1>1, <1>8, <1>9 DEF BecomesTree, A, B
<1>11. ASSUME NEW t \in DOMAIN A, t # <<>>, SubSeq(t, 1, Len(t) - 1) = p.toks PROVE FALSE
  <2>1. PICK q \in DOMAIN g : q.toks = t
    BY <1>2
  <2>2. q # RootPath /\ ParentPath(q).toks = SubSeq(t, 1, Len(t) - 1)
    BY <1>4, <1>11, <2>1, PathParts
  <2>3. ParentPath(q) = p
    BY <1>4, <1>6, <1>11, <2>2
  <2> QED
    BY <1>3, <1>4, <2>2, <2>3
<1> QED
  BY <1>7, <1>10, <1>11, TreeRemoves DEF A

LEMMA MovedTree ==
  ASSUME NEW p \in ClientPath, NEW q \in ClientPath,
         PathsMatch(meta, path_index), PathsMatch(meta', path_index'),
         Moves(p, q), path_index' = Renamed(p, q)
  PROVE  q.toks \in Tree!Places /\ p.toks \in DOMAIN Abs /\ Tree!Move(p.toks, q.toks)
<1> DEFINE g == path_index
           h == path_index'
           A == Abs
           B == Abs'
           up == ParentPath(q)
<1>1. /\ B = [t \in DOMAIN B |-> B[t]]
      /\ \A t : t \in DOMAIN B <=> \E x \in DOMAIN h : x.toks = t
      /\ \A x \in DOMAIN h : B[x.toks] = NodeOf(meta'[h[x]])
  BY TreeOfIs DEF Abs
<1>2. /\ \A t : t \in DOMAIN A <=> \E x \in DOMAIN g : x.toks = t
      /\ \A x \in DOMAIN g : x.toks \in DOMAIN A /\ A[x.toks] = NodeOf(meta[g[x]])
  BY TreeOfIs DEF Abs
<1>3. q \in Path /\ ~q.dbl /\ q.toks # <<>>
  BY ClientAssumption DEF Moves, MayRename, Canonical
<1>4. PrefixPath(q) = up
  BY <1>3, OneParent
<1>5. /\ p \in DOMAIN g /\ q \notin DOMAIN g /\ up \in DOMAIN g
      /\ meta[g[up]].type = DIR /\ meta[g[p]].type = FILE
      /\ \A j \in Live(meta) \ {g[p]} : SameNode(meta, meta', j)
      /\ meta'[g[p]].type = FILE /\ meta'[g[p]].total_size = meta[g[p]].total_size
  BY <1>4 DEF Moves, MayRename
<1>6. /\ \A x \in DOMAIN g : x \in Path /\ ~x.dbl /\ g[x] \in Live(meta)
      /\ \A x, y \in DOMAIN g : g[x] = g[y] => x = y
  BY DEF PathsMatch
<1>7. /\ DOMAIN h = (DOMAIN g \ {p}) \cup {q} /\ h[q] = g[p]
      /\ \A x \in DOMAIN g \ {p} : h[x] = g[x]
  BY <1>5 DEF Renamed
<1>8. /\ q.toks = Append(up.toks, Basename(q)) /\ Basename(q) \in Name
      /\ up.toks = SubSeq(q.toks, 1, Len(q.toks) - 1)
  BY <1>3, PathParts
<1>9. \A x \in DOMAIN g : (x.toks = p.toks => x = p) /\ x.toks # q.toks
  BY <1>3, <1>5, <1>6, OnePath
<1> HIDE DEF A, B, g, h, up
<1>10. p.toks \in DOMAIN A /\ ~A[p.toks].dir
  BY <1>2, <1>5, FileNode
<1>11. up.toks \in DOMAIN A /\ A[up.toks].dir
  BY <1>2, <1>5, FolderNode
<1>12. q.toks \notin DOMAIN A
  BY <1>2, <1>9
<1>13. DOMAIN B = (DOMAIN A \ {p.toks}) \cup {q.toks}
  <2>1. \A x : x \in DOMAIN h <=> (x \in DOMAIN g /\ x.toks # p.toks) \/ x = q
    BY <1>5, <1>7, <1>9
  <2>2. \A t : t \in DOMAIN B <=> (t \in DOMAIN A /\ t # p.toks) \/ t = q.toks
    BY <1>1, <1>2, <2>1
  <2> QED
    BY <2>2
<1>14. B[q.toks] = A[p.toks]
  <2>1. B[q.toks] = NodeOf(meta'[g[p]]) /\ A[p.toks] = NodeOf(meta[g[p]])
    BY <1>1, <1>2, <1>5, <1>7
  <2> QED
    BY <1>5, <2>1 DEF NodeOf
<1>15. ASSUME NEW t \in DOMAIN A, t # p.toks PROVE B[t] = A[t]
  <2>1. PICK x \in DOMAIN g : x.toks = t
    BY <1>2
  <2>2. x # p /\ x \in DOMAIN h /\ h[x] = g[x]
    BY <1>7, <1>15, <2>1
  <2>3. B[t] = NodeOf(meta'[g[x]]) /\ A[t] = NodeOf(meta[g[x]])
    BY <1>1, <1>2, <2>1, <2>2
  <2>4. g[x] \in Live(meta) \ {g[p]}
    BY <1>5, <1>6, <2>2
  <2> QED
    BY <1>5, <2>3, <2>4, SameNodeOf
<1>16. BecomesTree((DOMAIN A \ {p.toks}) \cup {q.toks}, q.toks, A[p.toks])
  BY <1>1, <1>13, <1>14, <1>15 DEF BecomesTree, A, B
<1>17. Tree!Vacant(q.toks)
  BY <1>3, <1>8, <1>11, <1>12, TreeVacant DEF A
<1>18. Append(up.toks, Basename(q)) \in Tree!Places
  BY <1>8, <1>11, TreePlaces DEF A
<1> QED
  BY <1>8, <1>10, <1>16, <1>17, <1>18, TreeMoves DEF A

LEMMA ResizedTree ==
  ASSUME TypeOK, NEW p \in ClientPath, NEW size \in Nat, PathsMatch(meta, path_index),
         PathsMatch(meta', path_index'), Resizes(p, size)
  PROVE  p.toks \in DOMAIN Abs /\ Tree!Resize(p.toks, size)
<1> DEFINE g == path_index
           A == Abs
           B == Abs'
<1>1. /\ B = [t \in DOMAIN B |-> B[t]]
      /\ \A t : t \in DOMAIN B <=> \E x \in DOMAIN g : x.toks = t
      /\ \A x \in DOMAIN g : B[x.toks] = NodeOf(meta'[g[x]])
  <2>1. path_index' = g
    BY DEF Resizes
  <2> QED
    BY <2>1, TreeOfIs DEF Abs
<1>2. /\ A = [t \in DOMAIN A |-> A[t]]
      /\ \A t : t \in DOMAIN A <=> \E x \in DOMAIN g : x.toks = t
      /\ \A x \in DOMAIN g : x.toks \in DOMAIN A /\ A[x.toks] = NodeOf(meta[g[x]])
  BY TreeOfIs DEF Abs
<1>3. /\ p \in DOMAIN g /\ meta[g[p]].type = FILE
      /\ \A j \in Live(meta) \ {g[p]} : SameNode(meta, meta', j)
      /\ meta'[g[p]].type = FILE /\ meta'[g[p]].total_size = size
      /\ meta[g[p]].total_size \in Nat
  BY DEF Resizes, TypeOK, MetaEntry, Live
<1>4. \A x \in DOMAIN g : g[x] \in Live(meta) /\ \A y \in DOMAIN g : g[x] = g[y] => x = y
  BY DEF PathsMatch
<1> HIDE DEF A, B, g
<1>5. DOMAIN B = DOMAIN A
  BY <1>1, <1>2
<1>6. A[p.toks] \in [dir : BOOLEAN, size : Nat] /\ ~A[p.toks].dir
  <2>1. A[p.toks] = NodeOf(meta[g[p]])
    BY <1>2, <1>3
  <2>2. A[p.toks] = [dir |-> FALSE, size |-> meta[g[p]].total_size] /\ ~A[p.toks].dir
    BY <1>3, <2>1, FileNode
  <2> QED
    BY <1>3, <2>2
<1>7. B[p.toks] = [dir |-> FALSE, size |-> size]
  BY <1>1, <1>3, FileNode
<1>8. ASSUME NEW t \in DOMAIN A, t # p.toks PROVE B[t] = A[t]
  <2>1. PICK x \in DOMAIN g : x.toks = t
    BY <1>2
  <2>2. B[t] = NodeOf(meta'[g[x]]) /\ A[t] = NodeOf(meta[g[x]])
    BY <1>1, <1>2, <2>1
  <2>3. g[x] \in Live(meta) \ {g[p]}
    BY <1>3, <1>4, <1>8, <2>1
  <2> QED
    BY <1>3, <2>2, <2>3, SameNodeOf
<1>9. BecomesTree(DOMAIN A, p.toks, [dir |-> FALSE, size |-> size])
  BY <1>1, <1>5, <1>7, <1>8 DEF BecomesTree, A, B
<1>10. p.toks \in DOMAIN A
  BY <1>2, <1>3
<1> QED
  BY <1>2, <1>6, <1>9, <1>10, TreeResizes DEF A

LEMMA SameTree ==
  ASSUME PathsMatch(meta, path_index), PathsMatch(meta', path_index'), Stays
  PROVE  Abs' = Abs
<1> DEFINE g == path_index
<1>1. path_index' = g /\ \A j \in Live(meta) : SameNode(meta, meta', j)
  BY DEF Stays
<1>2. /\ Abs' = [t \in DOMAIN Abs' |-> Abs'[t]]
      /\ \A t : t \in DOMAIN Abs' <=> \E x \in DOMAIN g : x.toks = t
      /\ \A x \in DOMAIN g : Abs'[x.toks] = NodeOf(meta'[g[x]])
  BY <1>1, TreeOfIs DEF Abs
<1>3. /\ Abs = [t \in DOMAIN Abs |-> Abs[t]]
      /\ \A t : t \in DOMAIN Abs <=> \E x \in DOMAIN g : x.toks = t
      /\ \A x \in DOMAIN g : Abs[x.toks] = NodeOf(meta[g[x]])
  BY TreeOfIs DEF Abs
<1>4. \A x \in DOMAIN g : g[x] \in Live(meta)
  BY DEF PathsMatch
<1> HIDE DEF g
<1>5. DOMAIN Abs' = DOMAIN Abs
  BY <1>2, <1>3
<1>6. \A x \in DOMAIN g : Abs'[x.toks] = Abs[x.toks]
  BY <1>1, <1>2, <1>3, <1>4, SameNodeOf
<1>7. \A t \in DOMAIN Abs : Abs'[t] = Abs[t]
  BY <1>3, <1>6
<1> QED
  BY <1>2, <1>3, <1>5, <1>7

LEMMA TreeStep == TreeInv /\ TreeInv' /\ [TreeNext]_vars => [Tree!Next]_Abs
<1> SUFFICES ASSUME TreeInv, TreeInv', [TreeNext]_vars PROVE [Tree!Next]_Abs
  OBVIOUS
<1>1. PathsMatch(meta, path_index) /\ PathsMatch(meta', path_index')
  BY DEF TreeInv
<1>2. CASE FileMade
  <2>1. PICK p \in ClientPath, size \in Size, i \in MetaIndex :
           Grows(p, FILE, size, i) /\ path_index' = Inserted(p, i)
    BY <1>2 DEF FileMade
  <2>2. /\ p.toks \in Tree!Places /\ Tree!Vacant(p.toks)
        /\ BecomesTree(DOMAIN Abs \cup {p.toks}, p.toks, [dir |-> FALSE, size |-> size])
    <3>1. ~(FILE = DIR)
      BY DEF FILE, DIR
    <3>2. (FILE = DIR) = FALSE
      BY <3>1, Zenon
    <3>3. [dir |-> FILE = DIR, size |-> size] = [dir |-> FALSE, size |-> size]
      BY <3>2
    <3> QED
      BY <1>1, <2>1, <3>3, GrownTree
  <2>3. Tree!MakeFile(p.toks, size)
    BY <2>2, TreeMakes
  <2> QED
    BY <2>2, <2>3 DEF Tree!Next
<1>3. CASE FolderMade
  <2>1. PICK p \in ClientPath, i \in MetaIndex :
           Grows(p, DIR, 0, i) /\ path_index' = Inserted(p, i)
    BY <1>3 DEF FolderMade
  <2>2. /\ p.toks \in Tree!Places /\ Tree!Vacant(p.toks)
        /\ BecomesTree(DOMAIN Abs \cup {p.toks}, p.toks, [dir |-> TRUE, size |-> 0])
    <3>1. [dir |-> DIR = DIR, size |-> 0] = [dir |-> TRUE, size |-> 0]
      BY Zenon
    <3> QED
      BY <1>1, <2>1, <3>1, GrownTree
  <2>3. Tree!MakeFolder(p.toks)
    BY <2>2, TreeMakes
  <2> QED
    BY <2>2, <2>3 DEF Tree!Next
<1>4. CASE Removed
  <2>1. PICK p \in ClientPath : Shrinks(p) /\ path_index' = Dropped(p)
    BY <1>4 DEF Removed
  <2>2. Tree!Remove(p.toks)
    BY <1>1, <2>1, ShrunkTree
  <2>3. p.toks \in DOMAIN Abs
    BY <1>1, <2>1, TreeOfIs DEF Abs, Shrinks
  <2> QED
    BY <2>2, <2>3 DEF Tree!Next, Abs, TreeOf, NodeOf
<1>5. CASE FileMoved
  <2>1. PICK p \in ClientPath, q \in ClientPath : Moves(p, q) /\ path_index' = Renamed(p, q)
    BY <1>5 DEF FileMoved
  <2>2. q.toks \in Tree!Places /\ p.toks \in DOMAIN Abs /\ Tree!Move(p.toks, q.toks)
    BY <1>1, <2>1, MovedTree
  <2> QED
    BY <2>2 DEF Tree!Next, Abs, TreeOf, NodeOf
<1>6. CASE FileSized
  <2>1. PICK p \in ClientPath, size \in Size : Resizes(p, size)
    BY <1>6 DEF FileSized
  <2>2. p.toks \in DOMAIN Abs /\ Tree!Resize(p.toks, size)
    BY <1>1, <2>1, ResizedTree, ClientAssumption DEF TreeInv, Inv
  <2> QED
    BY <2>2 DEF Tree!Next, Abs, TreeOf, NodeOf
<1>7. CASE Stays
  BY <1>1, <1>7, SameTree
<1> QED
  BY <1>2, <1>3, <1>4, <1>5, <1>6, <1>7, TreeEffect

LEMMA InitTree == Init => Tree!Init
<1> SUFFICES ASSUME Init PROVE Tree!Init
  OBVIOUS
<1>1. Root \in MetaIndex
  BY SizesAssumption DEF Root, MetaIndex
<1>2. meta[Root].type = DIR /\ meta[Root].total_size = 0
  BY <1>1 DEF Init, FreshEntry
<1>3. NodeOf(meta[Root]) = [dir |-> TRUE, size |-> 0]
  BY <1>2, FolderNode
<1>4. path_index = [p \in {RootPath} |-> Root] /\ RootPath = [dbl |-> FALSE, toks |-> <<>>]
  BY DEF Init, RootPath
<1>5. Abs = [t \in {<<>>} |-> [dir |-> TRUE, size |-> 0]]
  <2>1. {p.toks : p \in DOMAIN path_index} = {<<>>}
    BY <1>4
  <2>2. path_index[[dbl |-> FALSE, toks |-> <<>>]] = Root
    BY <1>4
  <2> QED
    BY <1>3, <2>1, <2>2 DEF Abs, TreeOf
<1>6. Tree!Init <=> Abs = [t \in {<<>>} |-> [dir |-> TRUE, size |-> 0]]
  BY DEF Tree!Init, Tree!Folder, Abs, TreeOf, NodeOf
<1> QED
  BY <1>5, <1>6

\* The core implements the tree of names: every call of a client inside the limits
\* is one operation of OFSTree on the tree the path index finds, or changes nothing a
\* client sees.
THEOREM ImplementsTreeCorrect == TreeSpec => ImplementsTree
<1>1. TreeInv /\ TreeInv' /\ [TreeNext]_vars => [Tree!Next]_Abs
  BY TreeStep
<1>2. Init => Tree!Init
  BY InitTree
<1> QED
  BY <1>1, <1>2, TreeInvHolds, PTL DEF TreeSpec, ImplementsTree, Tree!Spec, Abs, TreeOf, NodeOf
==========================================================================
