------------------------ MODULE OFSFileDataProofs ------------------------
(*************************************************************************)
(* What holds of OFSFileData for any number of files and blocks, any      *)
(* block size and any bytes: reads are whole, and the calls implement     *)
(* byte sequences (OFSBytes).  The argument: chains are disjoint, marked  *)
(* and as long as the sizes need (DataInv), so that what a call writes is *)
(* its own file's; and position k of a file is byte Off(k) of block       *)
(* Blk(k) of its chain, one to one.                                       *)
(*************************************************************************)
EXTENDS OFSFileData, TLAPS

-----------------------------------------------------------------------------
(* Positions. *)

\* The block of a chain, and the byte of it, that hold byte k of a file.
Blk(k) == (k - 1) \div BlockPayload + 1
Off(k) == ((k - 1) % BlockPayload) + 1

LEMMA DivMod ==
    ASSUME NEW a \in Nat, NEW b \in Nat \ {0}
    PROVE  /\ a \div b \in Nat /\ a % b \in 0 .. b - 1
           /\ a = (a \div b) * b + (a % b)
BY Z3

LEMMA Split ==
    ASSUME NEW k \in Nat \ {0}
    PROVE  /\ Blk(k) \in Nat \ {0} /\ Off(k) \in 1 .. BlockPayload
           /\ k = (Blk(k) - 1) * BlockPayload + Off(k)
<1>1. k - 1 \in Nat
  OBVIOUS
<1>2. /\ (k - 1) \div BlockPayload \in Nat /\ (k - 1) % BlockPayload \in 0 .. BlockPayload - 1
      /\ k - 1 = ((k - 1) \div BlockPayload) * BlockPayload + ((k - 1) % BlockPayload)
  BY <1>1, DivMod, SizesAssumption
<1> DEFINE q == (k - 1) \div BlockPayload
           r == (k - 1) % BlockPayload
<1>3. q \in Nat /\ r \in 0 .. BlockPayload - 1 /\ k - 1 = q * BlockPayload + r
  BY <1>2
<1>4. Blk(k) = q + 1 /\ Off(k) = r + 1
  BY DEF Blk, Off
<1> HIDE DEF q, r
<1>5. q + 1 - 1 = q
  BY <1>3
<1>6. q * BlockPayload \in Nat
  BY <1>3, SizesAssumption
<1>7. QED
  BY <1>3, <1>4, <1>5, <1>6, SizesAssumption

\* Blocks and offsets determine the position.
LEMMA Below ==
    ASSUME NEW p \in Nat, NEW q \in Nat, NEW b \in Nat \ {0}, p < q
    PROVE  p * b + b <= q * b
BY Z3

LEMMA SameBlock ==
    ASSUME NEW p \in Nat, NEW q \in Nat, NEW r \in 0 .. BlockPayload - 1, NEW t \in 0 .. BlockPayload - 1,
           p * BlockPayload + r = q * BlockPayload + t
    PROVE  p = q /\ r = t
<1>1. p * BlockPayload \in Nat /\ q * BlockPayload \in Nat
  BY SizesAssumption
<1>2. ~ p < q
  BY <1>1, Below, SizesAssumption
<1>3. ~ q < p
  BY <1>1, Below, SizesAssumption
<1>4. p = q
  BY <1>2, <1>3
<1>5. QED
  BY <1>1, <1>4

\* The positions of a file of n blocks.
LEMMA Positions ==
    ASSUME NEW n \in Nat, NEW k \in 1 .. BlockPayload * n
    PROVE  k \in Nat \ {0} /\ Blk(k) \in 1 .. n
<1>1. BlockPayload * n \in Nat /\ k \in Nat \ {0}
  BY SizesAssumption
<1>2. /\ Blk(k) \in Nat \ {0} /\ Off(k) \in 1 .. BlockPayload
      /\ k = (Blk(k) - 1) * BlockPayload + Off(k)
  BY <1>1, Split
<1>3. Blk(k) <= n
  <2> SUFFICES ASSUME n < Blk(k) PROVE FALSE
    BY <1>2
  <2> DEFINE q == Blk(k) - 1
  <2>1. q \in Nat /\ n <= q /\ k = q * BlockPayload + Off(k)
    BY <1>2
  <2> HIDE DEF q
  <2>2. n * BlockPayload <= q * BlockPayload
    <3>1. CASE n = q
      BY <3>1, <2>1, SizesAssumption
    <3>2. CASE n < q
      <4>1. n * BlockPayload + BlockPayload <= q * BlockPayload
        BY <3>2, <2>1, Below, SizesAssumption
      <4>2. n * BlockPayload \in Nat /\ q * BlockPayload \in Nat
        BY <2>1, SizesAssumption
      <4>3. QED
        BY <4>1, <4>2, SizesAssumption
    <3>3. QED
      BY <2>1, <3>1, <3>2
  <2>3. n * BlockPayload = BlockPayload * n /\ n * BlockPayload \in Nat /\ q * BlockPayload \in Nat
    BY <2>1, SizesAssumption
  <2>4. QED
    BY <2>1, <2>2, <2>3, <1>1, <1>2
<1>4. QED
  BY <1>1, <1>2, <1>3

\* The blocks a size needs hold its bytes, and not a block more.
LEMMA BlocksForBounds ==
    ASSUME NEW size \in Nat
    PROVE  BlocksFor(size) \in Nat /\ size <= BlockPayload * BlocksFor(size)
<1> DEFINE a == size + BlockPayload - 1
           q == a \div BlockPayload
<1>1. a \in Nat
  BY SizesAssumption
<1>2. q \in Nat /\ a % BlockPayload \in 0 .. BlockPayload - 1 /\ a = q * BlockPayload + (a % BlockPayload)
  BY <1>1, DivMod, SizesAssumption
<1>3. q * BlockPayload \in Nat /\ q * BlockPayload = BlockPayload * q
  BY <1>2, SizesAssumption
<1>4. size <= q * BlockPayload
  <2> DEFINE r == a % BlockPayload
  <2>1. r \in 0 .. BlockPayload - 1 /\ size + BlockPayload - 1 = q * BlockPayload + r
    BY <1>2
  <2> HIDE DEF q, r
  <2>2. QED
    BY <2>1, <1>3, SizesAssumption
<1>5. BlocksFor(size) = q
  BY DEF BlocksFor
<1>6. QED
  BY <1>2, <1>3, <1>4, <1>5

LEMMA NoBlocks == BlocksFor(0) = 0
<1>1. BlockPayload - 1 \in Nat /\ BlockPayload - 1 < BlockPayload
  BY SizesAssumption
<1>2. (BlockPayload - 1) \div BlockPayload = 0
  <2> DEFINE a == BlockPayload - 1
             q == a \div BlockPayload
  <2>1. q \in Nat /\ a % BlockPayload \in 0 .. BlockPayload - 1 /\ a = q * BlockPayload + (a % BlockPayload)
    BY <1>1, DivMod, SizesAssumption
  <2>2. a = 0 * BlockPayload + a
    BY <1>1, SizesAssumption
  <2>3. q = 0
    BY <2>1, <2>2, <1>1, SameBlock, SizesAssumption
  <2>4. QED
    BY <2>3
<1>3. QED
  BY <1>2, SizesAssumption DEF BlocksFor

-----------------------------------------------------------------------------
(* Bytes, chains and allocations as values. *)

Blocks  == [BlockIndex -> [1 .. BlockPayload -> Byte]]
Entries == [valid : {0, 1}, total_size : Nat, chain : Seq(BlockIndex)]

\* The bytes in the blocks of chain c, and what file_read returns of entry e.
BytesIn(c, p) == [k \in 1 .. BlockPayload * Len(c) |-> p[c[Blk(k)]][Off(k)]]
Read(e, p) == SubSeq(BytesIn(e.chain, p), 1, Least(e.total_size, Len(BytesIn(e.chain, p))))

\* An entry's chain has the blocks its size needs; a free slot has none.
EntryOK(e) == /\ e \in Entries
              /\ Len(e.chain) = BlocksFor(e.total_size)
              /\ e.valid = 1 => e = Free

LEMMA BytesInType ==
    ASSUME NEW c \in Seq(BlockIndex), NEW p \in Blocks
    PROVE  /\ BytesIn(c, p) \in Seq(Byte)
           /\ Len(BytesIn(c, p)) = BlockPayload * Len(c)
           /\ DOMAIN BytesIn(c, p) = 1 .. BlockPayload * Len(c)
           /\ \A k \in 1 .. BlockPayload * Len(c) : BytesIn(c, p)[k] = p[c[Blk(k)]][Off(k)]
<1>1. BlockPayload * Len(c) \in Nat
  BY SizesAssumption
<1>2. \A k \in 1 .. BlockPayload * Len(c) : p[c[Blk(k)]][Off(k)] \in Byte
  <2> SUFFICES ASSUME NEW k \in 1 .. BlockPayload * Len(c) PROVE p[c[Blk(k)]][Off(k)] \in Byte
    OBVIOUS
  <2>1. Blk(k) \in 1 .. Len(c) /\ Off(k) \in 1 .. BlockPayload
    BY Positions, Split
  <2>2. c[Blk(k)] \in BlockIndex
    BY <2>1
  <2>3. QED
    BY <2>1, <2>2 DEF Blocks
<1>3. BytesIn(c, p) \in [1 .. BlockPayload * Len(c) -> Byte]
  BY <1>2 DEF BytesIn
<1>4. QED
  BY <1>1, <1>3 DEF BytesIn

\* Only the blocks of the chain matter.
LEMMA BytesInSame ==
    ASSUME NEW c \in Seq(BlockIndex), NEW p, NEW q, \A i \in DOMAIN c : p[c[i]] = q[c[i]]
    PROVE  BytesIn(c, p) = BytesIn(c, q)
<1>1. \A k \in 1 .. BlockPayload * Len(c) : Blk(k) \in DOMAIN c
  BY Positions
<1>2. QED
  BY <1>1 DEF BytesIn

LEMMA ReadWhole ==
    ASSUME NEW e, EntryOK(e), NEW p \in Blocks
    PROVE  /\ Read(e, p) = SubSeq(BytesIn(e.chain, p), 1, e.total_size)
           /\ Len(Read(e, p)) = e.total_size
           /\ e.total_size <= Len(BytesIn(e.chain, p))
<1> DEFINE b == BytesIn(e.chain, p)
<1>1. e.total_size \in Nat /\ e.chain \in Seq(BlockIndex) /\ Len(e.chain) = BlocksFor(e.total_size)
  BY DEF EntryOK, Entries
<1>2. b \in Seq(Byte) /\ Len(b) = BlockPayload * Len(e.chain)
  BY <1>1, BytesInType
<1>3. e.total_size <= Len(b)
  BY <1>1, <1>2, BlocksForBounds
<1>4. Least(e.total_size, Len(b)) = e.total_size
  BY <1>1, <1>2, <1>3 DEF Least
<1>5. Read(e, p) = SubSeq(b, 1, e.total_size)
  BY <1>4 DEF Read
<1> HIDE DEF b
<1>6. Len(SubSeq(b, 1, e.total_size)) = e.total_size
  BY <1>1, <1>2, <1>3
<1>7. QED
  BY <1>3, <1>5, <1>6 DEF b

LEMMA RequestType ==
    ASSUME NEW data \in Request
    PROVE  data \in Seq(Byte) /\ Len(data) \in Nat /\ DOMAIN data = 1 .. Len(data)
BY DEF Request

LEMMA Allocated ==
    ASSUME NEW n \in Nat, NEW s \in allocate_blocks(n)
    PROVE  /\ s \in Seq(BlockIndex) /\ Len(s) = n /\ DOMAIN s = 1 .. n
           /\ \A i, j \in 1 .. n : s[i] = s[j] => i = j
           /\ \A i \in 1 .. n : s[i] \in BlockIndex \ free_bitmap
<1>1. s \in [1 .. n -> BlockIndex \ free_bitmap] /\ \A i, j \in 1 .. n : i < j => s[i] < s[j]
  BY DEF allocate_blocks
<1>2. \A i \in 1 .. n : s[i] \in Nat
  BY <1>1, SizesAssumption DEF BlockIndex
<1>3. \A i, j \in 1 .. n : s[i] = s[j] => i = j
  BY <1>1, <1>2
<1>4. QED
  BY <1>1, <1>3

LEMMA WrittenBlocks ==
    ASSUME NEW s \in Seq(BlockIndex), \A i, j \in DOMAIN s : s[i] = s[j] => i = j,
           NEW data \in Seq(Byte), payload \in Blocks
    PROVE  /\ write_blocks(s, data) \in Blocks
           /\ \A b \in BlockIndex \ BlocksOf(s) : write_blocks(s, data)[b] = payload[b]
           /\ \A i \in DOMAIN s, k \in 1 .. BlockPayload :
                write_blocks(s, data)[s[i]][k] =
                   IF (i - 1) * BlockPayload + k \in DOMAIN data
                   THEN data[(i - 1) * BlockPayload + k] ELSE 0
<1> DEFINE at(i) == [k \in 1 .. BlockPayload |->
                       IF (i - 1) * BlockPayload + k \in DOMAIN data
                       THEN data[(i - 1) * BlockPayload + k] ELSE 0]
<1>1. \A i : at(i) \in [1 .. BlockPayload -> Byte]
  BY ByteAssumption
<1>2. \A b \in BlockIndex \ BlocksOf(s) : write_blocks(s, data)[b] = payload[b]
  BY DEF write_blocks
<1>3. \A i \in DOMAIN s : write_blocks(s, data)[s[i]] = at(i)
  <2> SUFFICES ASSUME NEW i \in DOMAIN s PROVE write_blocks(s, data)[s[i]] = at(i)
    OBVIOUS
  <2>1. s[i] \in BlockIndex /\ s[i] \in BlocksOf(s)
    BY DEF BlocksOf
  <2>2. (CHOOSE j \in DOMAIN s : s[j] = s[i]) = i
    OBVIOUS
  <2>3. QED
    BY <2>1, <2>2 DEF write_blocks
<1>4. \A b \in BlockIndex : write_blocks(s, data)[b] \in [1 .. BlockPayload -> Byte]
  <2> SUFFICES ASSUME NEW b \in BlockIndex
               PROVE  write_blocks(s, data)[b] \in [1 .. BlockPayload -> Byte]
    OBVIOUS
  <2>1. CASE b \in BlocksOf(s)
    <3>1. PICK i \in DOMAIN s : b = s[i]
      BY <2>1 DEF BlocksOf
    <3>2. write_blocks(s, data)[b] = at(i)
      BY <1>3, <3>1
    <3>3. at(i) \in [1 .. BlockPayload -> Byte]
      BY <1>1
    <3> HIDE DEF at
    <3>4. QED
      BY <3>2, <3>3
  <2>2. CASE b \notin BlocksOf(s)
    BY <1>2, <2>2 DEF Blocks
  <2>3. QED
    BY <2>1, <2>2
<1>5. write_blocks(s, data) = [b \in BlockIndex |-> write_blocks(s, data)[b]]
  BY DEF write_blocks
<1>6. write_blocks(s, data) \in Blocks
  BY <1>4, <1>5 DEF Blocks
<1>7. ASSUME NEW i \in DOMAIN s, NEW k \in 1 .. BlockPayload
      PROVE  write_blocks(s, data)[s[i]][k] =
                IF (i - 1) * BlockPayload + k \in DOMAIN data
                THEN data[(i - 1) * BlockPayload + k] ELSE 0
  <2>1. write_blocks(s, data)[s[i]] = at(i)
    BY <1>3
  <2>2. at(i)[k] = IF (i - 1) * BlockPayload + k \in DOMAIN data
                   THEN data[(i - 1) * BlockPayload + k] ELSE 0
    OBVIOUS
  <2> HIDE DEF at
  <2>3. QED
    BY <2>1, <2>2
<1>8. QED
  BY <1>2, <1>6, <1>7

-----------------------------------------------------------------------------
(* The inductive invariant. *)

\* No block is in two places of the chains, and every one of them is marked.
Owned == \A f, g \in File : \A i \in DOMAIN entry[f].chain, j \in DOMAIN entry[g].chain :
            entry[f].chain[i] = entry[g].chain[j] => f = g /\ i = j
Marked == \A f \in File : BlocksOf(entry[f].chain) \subseteq free_bitmap

DataInv ==
    /\ entry \in [File -> Entries] /\ free_bitmap \subseteq BlockIndex /\ payload \in Blocks
    /\ \A f \in File : EntryOK(entry[f])
    /\ Owned /\ Marked

LEMMA DataInit == Init => DataInv
<1> SUFFICES ASSUME Init PROVE DataInv
  OBVIOUS
<1>1. Free \in Entries /\ Free.chain = <<>> /\ Free.total_size = 0 /\ Len(Free.chain) = 0
  BY DEF Free, Entries
<1>2. EntryOK(Free)
  BY <1>1, NoBlocks DEF EntryOK
<1>3. \A f \in File : entry[f] = Free
  BY DEF Init
<1>4. \A f \in File : DOMAIN entry[f].chain = {}
  BY <1>1, <1>3
<1>5. payload \in Blocks
  BY ByteAssumption DEF Init, Blocks
<1>6. Marked
  BY <1>4 DEF Marked, BlocksOf
<1>7. QED
  BY <1>1, <1>2, <1>3, <1>4, <1>5, <1>6 DEF Init, DataInv, Owned

\* A call that gives file f the entry e: e's chain shares no block with another
\* file's, and the blocks of the others stay marked and as they are.
Changes(f, e) ==
    /\ EntryOK(e) /\ entry' = [entry EXCEPT ![f] = e]
    /\ \A i, j \in DOMAIN e.chain : e.chain[i] = e.chain[j] => i = j
    /\ free_bitmap' \subseteq BlockIndex /\ payload' \in Blocks
    /\ BlocksOf(e.chain) \subseteq free_bitmap'
    /\ \A g \in File \ {f} : \A i \in DOMAIN entry[g].chain :
          /\ entry[g].chain[i] \in free_bitmap' /\ entry[g].chain[i] \notin BlocksOf(e.chain)
          /\ payload'[entry[g].chain[i]] = payload[entry[g].chain[i]]

\* Such a call keeps the invariant.
LEMMA ChangesInv ==
    ASSUME DataInv, NEW f \in File, NEW e, Changes(f, e)
    PROVE  DataInv'
<1>1. entry' = [entry EXCEPT ![f] = e] /\ EntryOK(e) /\ e \in Entries
  BY DEF Changes, EntryOK
<1>2. entry' \in [File -> Entries] /\ \A g \in File : entry'[g] = IF g = f THEN e ELSE entry[g]
  BY <1>1 DEF DataInv
<1>3. \A g \in File : EntryOK(entry'[g])
  BY <1>1, <1>2 DEF DataInv
<1>4. Owned'
  <2> SUFFICES ASSUME NEW g \in File, NEW h \in File,
                      NEW i \in DOMAIN entry'[g].chain, NEW j \in DOMAIN entry'[h].chain,
                      entry'[g].chain[i] = entry'[h].chain[j]
               PROVE  g = h /\ i = j
    BY DEF Owned
  <2>1. CASE g = f /\ h = f
    BY <1>2, <2>1 DEF Changes
  <2>2. CASE g # f /\ h # f
    BY <1>2, <2>2 DEF DataInv, Owned
  <2>3. CASE g = f /\ h # f
    BY <1>2, <2>3 DEF Changes, BlocksOf
  <2>4. CASE g # f /\ h = f
    BY <1>2, <2>4 DEF Changes, BlocksOf
  <2>5. QED
    BY <2>1, <2>2, <2>3, <2>4
<1>5. Marked'
  <2> SUFFICES ASSUME NEW g \in File PROVE BlocksOf(entry'[g].chain) \subseteq free_bitmap'
    BY DEF Marked
  <2>1. CASE g = f
    BY <1>2, <2>1 DEF Changes
  <2>2. CASE g # f
    BY <1>2, <2>2 DEF Changes, BlocksOf
  <2>3. QED
    BY <2>1, <2>2
<1>6. (\A g \in File : EntryOK(entry[g]))'
  BY <1>3
<1>7. QED
  BY <1>2, <1>4, <1>5, <1>6 DEF DataInv, Changes

\* What an entry holds, in the terms of OFSBytes.
LEMMA HeldNow ==
    ASSUME DataInv, NEW g \in File
    PROVE  /\ Kept[g] = BytesIn(entry[g].chain, payload)
           /\ Shown[g] = SubSeq(Kept[g], 1, entry[g].total_size)
           /\ Len(Shown[g]) = entry[g].total_size
           /\ entry[g].total_size <= Len(Kept[g])
<1>1. Kept[g] = BytesIn(entry[g].chain, payload) /\ Shown[g] = Read(entry[g], payload)
  BY DEF Kept, Shown, Bytes, BytesIn, file_read, Read, Blk, Off
<1>2. QED
  BY <1>1, ReadWhole DEF DataInv

LEMMA HeldNext ==
    ASSUME DataInv', NEW g \in File
    PROVE  /\ Kept'[g] = BytesIn(entry'[g].chain, payload')
           /\ Shown'[g] = SubSeq(Kept'[g], 1, entry'[g].total_size)
           /\ Len(Shown'[g]) = entry'[g].total_size
           /\ entry'[g].total_size <= Len(Kept'[g])
<1>1. Kept'[g] = BytesIn(entry'[g].chain, payload') /\ Shown'[g] = Read(entry'[g], payload')
  BY DEF Kept, Shown, Bytes, BytesIn, file_read, Read, Blk, Off
<1>2. EntryOK(entry'[g]) /\ payload' \in Blocks
  BY DEF DataInv
<1>3. QED
  BY <1>1, <1>2, ReadWhole

\* ... and it changes the bytes of f only.
LEMMA ChangesOnly ==
    ASSUME DataInv, NEW f \in File, NEW e, Changes(f, e)
    PROVE  /\ Promise!Only(f)
           /\ Kept'[f] = BytesIn(e.chain, payload')
           /\ Shown'[f] = SubSeq(Kept'[f], 1, e.total_size)
           /\ e.total_size <= Len(Kept'[f])
           /\ Live' = IF e.valid = 0 THEN Live \cup {f} ELSE Live \ {f}
<1>1. DataInv'
  BY ChangesInv
<1>2. \A g \in File : entry'[g] = IF g = f THEN e ELSE entry[g]
  BY DEF Changes, DataInv
<1>3. ASSUME NEW g \in File \ {f}
      PROVE  Shown'[g] = Shown[g] /\ Kept'[g] = Kept[g]
  <2>1. entry'[g] = entry[g] /\ entry[g].chain \in Seq(BlockIndex)
    BY <1>2 DEF DataInv, Entries
  <2>2. BytesIn(entry[g].chain, payload) = BytesIn(entry[g].chain, payload')
    <3>1. \A i \in DOMAIN entry[g].chain : payload[entry[g].chain[i]] = payload'[entry[g].chain[i]]
      BY DEF Changes
    <3>2. QED
      BY <2>1, <3>1, BytesInSame
  <2>3. QED
    BY <1>1, <2>1, <2>2, HeldNow, HeldNext
<1>4. entry'[f] = e
  BY <1>2
<1>5. Live' = IF e.valid = 0 THEN Live \cup {f} ELSE Live \ {f}
  BY <1>2 DEF Live
<1>6. QED
  BY <1>1, <1>3, <1>4, <1>5, HeldNext DEF Promise!Only

-----------------------------------------------------------------------------
(* The calls, one by one. *)

\* The bytes of freshly written blocks.
LEMMA WrittenBytes ==
    ASSUME NEW s \in Seq(BlockIndex), \A i, j \in DOMAIN s : s[i] = s[j] => i = j,
           NEW data \in Seq(Byte), payload \in Blocks,
           NEW k \in 1 .. BlockPayload * Len(s)
    PROVE  write_blocks(s, data)[s[Blk(k)]][Off(k)] = IF k \in DOMAIN data THEN data[k] ELSE 0
<1>1. Blk(k) \in DOMAIN s /\ Off(k) \in 1 .. BlockPayload /\ k = (Blk(k) - 1) * BlockPayload + Off(k)
  BY Positions, Split
<1>2. QED
  BY <1>1, WrittenBlocks

LEMMA CreateStep ==
    ASSUME DataInv, NEW f \in File, NEW data \in Request, file_create(f, data)
    PROVE  (\E e : Changes(f, e)) /\ Promise!Create(f, data)
<1>1. PICK s \in allocate_blocks(BlocksFor(Len(data))) :
         /\ entry' = [entry EXCEPT ![f] = Entry(Len(data), s)]
         /\ free_bitmap' = free_bitmap \cup BlocksOf(s)
         /\ payload' = write_blocks(s, data)
  BY DEF file_create
<1> DEFINE e == Entry(Len(data), s)
<1>2. data \in Seq(Byte) /\ Len(data) \in Nat
  BY RequestType
<1>3. /\ s \in Seq(BlockIndex) /\ Len(s) = BlocksFor(Len(data))
      /\ \A i, j \in DOMAIN s : s[i] = s[j] => i = j
      /\ \A i \in DOMAIN s : s[i] \in BlockIndex \ free_bitmap
  <2>1. BlocksFor(Len(data)) \in Nat
    BY <1>2, BlocksForBounds
  <2>2. QED
    BY <2>1, Allocated
<1>4. e.valid = 0 /\ e.total_size = Len(data) /\ e.chain = s /\ EntryOK(e)
  BY <1>2, <1>3 DEF Entry, EntryOK, Entries
<1>5. BlocksOf(s) \subseteq BlockIndex /\ BlocksOf(s) \cap free_bitmap = {}
  BY <1>3 DEF BlocksOf
<1>6. payload \in Blocks /\ write_blocks(s, data) \in Blocks
      /\ \A b \in BlockIndex \ BlocksOf(s) : write_blocks(s, data)[b] = payload[b]
  BY <1>2, <1>3, WrittenBlocks DEF DataInv
<1>7. ASSUME NEW g \in File \ {f}, NEW i \in DOMAIN entry[g].chain
      PROVE  /\ entry[g].chain[i] \in free_bitmap /\ entry[g].chain[i] \notin BlocksOf(s)
             /\ payload'[entry[g].chain[i]] = payload[entry[g].chain[i]]
  <2>1. entry[g].chain[i] \in free_bitmap /\ entry[g].chain[i] \in BlockIndex
    BY DEF DataInv, Marked, BlocksOf
  <2>2. QED
    BY <1>1, <1>5, <1>6, <2>1
<1>8. Changes(f, e)
  <2>1. entry' = [entry EXCEPT ![f] = e] /\ free_bitmap' = free_bitmap \cup BlocksOf(e.chain)
    BY <1>1, <1>4
  <2>2. free_bitmap \subseteq BlockIndex /\ payload' \in Blocks
    BY <1>1, <1>6 DEF DataInv
  <2> HIDE DEF e
  <2>3. QED
    BY <1>3, <1>4, <1>5, <1>7, <2>1, <2>2 DEF Changes
<1>9. f \notin Live /\ Live' = Live \cup {f}
  BY <1>4, <1>8, ChangesOnly DEF Live, file_create
<1>10. Promise!Extends(data, Kept'[f])
  <2>1. Kept'[f] = BytesIn(s, payload')
    BY <1>4, <1>8, ChangesOnly
  <2>2. ASSUME NEW k \in DOMAIN BytesIn(s, payload')
        PROVE  BytesIn(s, payload')[k] = IF k \in DOMAIN data THEN data[k] ELSE 0
    <3>1. k \in 1 .. BlockPayload * Len(s) /\ BytesIn(s, payload')[k] = payload'[s[Blk(k)]][Off(k)]
      BY <1>1, <1>3, <1>6, BytesInType
    <3>2. QED
      BY <1>1, <1>2, <1>3, <1>6, <3>1, WrittenBytes
  <2>3. QED
    BY <2>1, <2>2 DEF Promise!Extends
<1>11. Promise!Shows(f, Len(data)) /\ Promise!Only(f)
  BY <1>4, <1>8, ChangesOnly DEF Promise!Shows
<1>12. QED
  BY <1>8, <1>9, <1>10, <1>11 DEF Promise!Create

LEMMA DeleteStep ==
    ASSUME DataInv, NEW f \in File, file_delete(f)
    PROVE  (\E e : Changes(f, e)) /\ Promise!Delete(f)
<1>1. /\ entry[f].valid = 0 /\ entry' = [entry EXCEPT ![f] = Free]
      /\ free_bitmap' = free_bitmap \ BlocksOf(entry[f].chain) /\ payload' = payload
  BY DEF file_delete
<1>2. /\ Free.valid = 1 /\ Free.total_size = 0 /\ Free.chain = <<>>
      /\ Free \in Entries /\ Len(Free.chain) = 0
  BY DEF Free, Entries
<1>3. EntryOK(Free) /\ BlocksOf(Free.chain) = {} /\ DOMAIN Free.chain = {}
  BY <1>2, NoBlocks DEF EntryOK, BlocksOf
<1>4. ASSUME NEW g \in File \ {f}, NEW i \in DOMAIN entry[g].chain
      PROVE  entry[g].chain[i] \in free_bitmap \ BlocksOf(entry[f].chain)
  BY DEF DataInv, Marked, Owned, BlocksOf
<1>5. Changes(f, Free)
  BY <1>1, <1>3, <1>4 DEF Changes, DataInv
<1>6. f \in Live /\ Live' = Live \ {f} /\ Promise!Only(f)
  BY <1>1, <1>2, <1>5, ChangesOnly DEF Live
<1>7. Kept'[f] = <<>> /\ Shown'[f] = <<>>
  <2>1. Kept'[f] = BytesIn(<<>>, payload') /\ Shown'[f] = SubSeq(Kept'[f], 1, 0)
    BY <1>2, <1>5, ChangesOnly
  <2>2. BytesIn(<<>>, payload') \in Seq(Byte) /\ Len(BytesIn(<<>>, payload')) = BlockPayload * 0
    <3>1. <<>> \in Seq(BlockIndex) /\ Len(<<>>) = 0 /\ payload' \in Blocks
      BY <1>1 DEF DataInv
    <3>2. QED
      BY <3>1, BytesInType
  <2>3. BlockPayload * 0 = 0
    BY SizesAssumption
  <2>4. BytesIn(<<>>, payload') = <<>>
    BY <2>2, <2>3
  <2>5. QED
    BY <2>1, <2>4
<1>8. QED
  BY <1>5, <1>6, <1>7 DEF Promise!Delete

\* An edit reaches exactly the positions index + 1 .. index + w, w bytes at most
\* to the end of the block.
LEMMA Reached ==
    ASSUME NEW index \in Nat, NEW w \in 0 .. BlockPayload - (index % BlockPayload), NEW k \in Nat \ {0}
    PROVE  /\ Blk(k) = index \div BlockPayload + 1 =>
                /\ k - index = Off(k) - (index % BlockPayload)
                /\ k \in index + 1 .. index + w <=>
                     Off(k) \in (index % BlockPayload) + 1 .. (index % BlockPayload) + w
           /\ Blk(k) # index \div BlockPayload + 1 => k \notin index + 1 .. index + w
<1> DEFINE m == index \div BlockPayload
           o == index % BlockPayload
           b == Blk(k) - 1
<1>1. m \in Nat /\ o \in 0 .. BlockPayload - 1 /\ index = m * BlockPayload + o
  BY DivMod, SizesAssumption
<1>2. b \in Nat /\ Off(k) \in 1 .. BlockPayload /\ k = b * BlockPayload + Off(k) /\ Blk(k) = b + 1
  BY Split
<1>3. w \in 0 .. BlockPayload - o
  OBVIOUS
<1> HIDE DEF m, o, b
<1>4. m * BlockPayload \in Nat /\ b * BlockPayload \in Nat
  BY <1>1, <1>2, SizesAssumption
<1>5. b = m => /\ k - index = Off(k) - o
               /\ k \in index + 1 .. index + w <=> Off(k) \in o + 1 .. o + w
  BY <1>1, <1>2, <1>3, <1>4, SizesAssumption
<1>6. ASSUME k \in index + 1 .. index + w
      PROVE  b = m
  <2>1. o + (k - index) - 1 \in 0 .. BlockPayload - 1 /\ Off(k) - 1 \in 0 .. BlockPayload - 1
    BY <1>1, <1>2, <1>3, <1>6, SizesAssumption
  <2>2. m * BlockPayload + (o + (k - index) - 1) = b * BlockPayload + (Off(k) - 1)
    BY <1>1, <1>2, <1>4, <2>1
  <2>3. QED
    BY <1>1, <1>2, <2>1, <2>2, SameBlock
<1>7. Blk(k) = m + 1 <=> b = m
  BY <1>1, <1>2
<1>8. QED
  BY <1>5, <1>6, <1>7 DEF m, o

LEMMA EditStep ==
    ASSUME DataInv, NEW f \in File, NEW data \in Request, NEW index \in Nat,
           file_edit(f, data, index)
    PROVE  (\E e : Changes(f, e)) /\ Promise!Edit(f, data, index)
<1> DEFINE e == entry[f]
           c == e.chain
           o == index % BlockPayload
           n == index \div BlockPayload + 1
           w == Least(Len(data), BlockPayload - o)
           new == [k \in 1 .. BlockPayload |->
                     IF k \in o + 1 .. o + w THEN data[k - o] ELSE payload[c[n]][k]]
<1>1. /\ e.valid = 0 /\ index <= e.total_size /\ n \in DOMAIN c
      /\ payload' = [payload EXCEPT ![c[n]] = new]
      /\ entry' = entry /\ free_bitmap' = free_bitmap
  BY DEF file_edit
<1>2. /\ e \in Entries /\ EntryOK(e) /\ c \in Seq(BlockIndex) /\ e.total_size \in Nat
      /\ payload \in Blocks /\ free_bitmap \subseteq BlockIndex
      /\ entry \in [File -> Entries]
  BY DEF DataInv, Entries
<1>3. c[n] \in BlockIndex /\ payload[c[n]] \in [1 .. BlockPayload -> Byte]
  BY <1>1, <1>2 DEF Blocks
<1>4. data \in Seq(Byte) /\ Len(data) \in Nat /\ DOMAIN data = 1 .. Len(data)
  BY RequestType
<1>5. o \in 0 .. BlockPayload - 1
  BY DivMod, SizesAssumption
<1>6. w \in 0 .. Len(data) /\ w \in 0 .. BlockPayload - o /\ (data # <<>> => w > 0)
  <2>1. data # <<>> => Len(data) > 0
    BY <1>4
  <2> HIDE DEF o
  <2>2. QED
    BY <1>4, <1>5, <2>1, SizesAssumption DEF Least
<1>7. new \in [1 .. BlockPayload -> Byte]
  <2>1. ASSUME NEW k \in 1 .. BlockPayload, k \in o + 1 .. o + w PROVE data[k - o] \in Byte
    <3>1. k - o \in 1 .. Len(data)
      <4> HIDE DEF o, w
      <4>1. QED
        BY <1>4, <1>5, <1>6, <2>1, SizesAssumption
    <3>2. QED
      BY <1>4, <3>1
  <2> HIDE DEF o, w, c, n
  <2>2. QED
    BY <1>3, <2>1
<1>8. /\ payload' \in Blocks /\ payload'[c[n]] = new
      /\ \A b \in BlockIndex : b # c[n] => payload'[b] = payload[b]
  <2> HIDE DEF new, c, n
  <2>1. QED
    BY <1>1, <1>2, <1>3, <1>7 DEF Blocks
<1>9. \A i \in DOMAIN c : c[i] \in BlockIndex /\ (c[i] = c[n] => i = n)
  <2>1. \A i \in DOMAIN c : c[i] = c[n] => i = n
    BY <1>1 DEF DataInv, Owned
  <2>2. QED
    BY <1>2, <2>1
<1>10. ASSUME NEW g \in File \ {f}, NEW i \in DOMAIN entry[g].chain
       PROVE  /\ entry[g].chain[i] \in free_bitmap /\ entry[g].chain[i] \notin BlocksOf(c)
              /\ payload'[entry[g].chain[i]] = payload[entry[g].chain[i]]
  <2>1. entry[g].chain[i] \in free_bitmap /\ entry[g].chain[i] \notin BlocksOf(c)
    BY DEF DataInv, Marked, Owned, BlocksOf
  <2>2. entry[g].chain[i] \in BlockIndex /\ c[n] \in BlocksOf(c)
    BY <1>1, <1>2, <2>1 DEF BlocksOf
  <2>3. QED
    BY <1>8, <2>1, <2>2
<1>11. Changes(f, e)
  <2>1. entry' = [entry EXCEPT ![f] = e]
    BY <1>1, <1>2
  <2>2. \A i, j \in DOMAIN c : c[i] = c[j] => i = j
    BY DEF DataInv, Owned
  <2>3. BlocksOf(c) \subseteq free_bitmap'
    BY <1>1 DEF DataInv, Marked
  <2>4. QED
    BY <1>1, <1>2, <1>8, <1>10, <2>1, <2>2, <2>3 DEF Changes
<1>12. f \in Live /\ Live' = Live /\ Promise!Only(f)
  BY <1>1, <1>11, ChangesOnly DEF Live
<1>13. /\ Kept[f] = BytesIn(c, payload) /\ Kept'[f] = BytesIn(c, payload')
       /\ DOMAIN Kept[f] = 1 .. BlockPayload * Len(c)
  BY <1>2, <1>11, HeldNow, ChangesOnly, BytesInType
<1>14. Kept'[f] = [k \in DOMAIN Kept[f] |->
                     IF k \in index + 1 .. index + w THEN data[k - index] ELSE Kept[f][k]]
  <2>1. ASSUME NEW k \in 1 .. BlockPayload * Len(c)
        PROVE  payload'[c[Blk(k)]][Off(k)] =
                 IF k \in index + 1 .. index + w THEN data[k - index] ELSE payload[c[Blk(k)]][Off(k)]
    <3>1. k \in Nat \ {0} /\ Blk(k) \in DOMAIN c
      BY <1>2, Positions
    <3>2. Off(k) \in 1 .. BlockPayload
      BY <3>1, Split
    <3>3. CASE Blk(k) = n
      <4>1. /\ k - index = Off(k) - o
            /\ k \in index + 1 .. index + w <=> Off(k) \in o + 1 .. o + w
        BY <1>6, <3>1, <3>3, Reached
      <4>2. payload'[c[Blk(k)]] = new
        BY <1>8, <3>3
      <4>3. new[Off(k)] = IF Off(k) \in o + 1 .. o + w THEN data[Off(k) - o] ELSE payload[c[n]][Off(k)]
        BY <3>2
      <4> HIDE DEF new, o, w, n, c
      <4>4. QED
        BY <3>3, <4>1, <4>2, <4>3
    <3>4. CASE Blk(k) # n
      <4>1. k \notin index + 1 .. index + w
        BY <1>6, <3>1, <3>4, Reached
      <4>2. payload'[c[Blk(k)]] = payload[c[Blk(k)]]
        BY <1>8, <1>9, <3>1, <3>4
      <4>3. QED
        BY <4>1, <4>2
    <3>5. QED
      BY <3>3, <3>4
  <2> HIDE DEF c, w
  <2>2. QED
    BY <1>13, <2>1 DEF BytesIn
<1>15. Len(Shown[f]) = e.total_size
  BY HeldNow
<1>16. Promise!Shows(f, Len(Shown[f]))
  BY <1>11, <1>15, ChangesOnly DEF Promise!Shows
<1>17. QED
  <2>1. index <= Len(Shown[f])
    BY <1>1, <1>15
  <2> HIDE DEF w, e
  <2>2. QED
    BY <1>6, <1>11, <1>12, <1>14, <1>16, <2>1 DEF Promise!Edit

\* The converse of Positions.
LEMMA PositionsIn ==
    ASSUME NEW n \in Nat, NEW k \in Nat \ {0}, Blk(k) <= n
    PROVE  k \in 1 .. BlockPayload * n
<1> DEFINE b == Blk(k) - 1
<1>1. b \in Nat /\ Off(k) \in 1 .. BlockPayload /\ k = b * BlockPayload + Off(k) /\ b < n
  BY Split
<1> HIDE DEF b
<1>2. b * BlockPayload + BlockPayload <= n * BlockPayload
  BY <1>1, Below, SizesAssumption
<1>3. b * BlockPayload \in Nat /\ n * BlockPayload \in Nat /\ n * BlockPayload = BlockPayload * n
  BY <1>1, SizesAssumption
<1>4. QED
  BY <1>1, <1>2, <1>3, SizesAssumption

LEMMA ShrinkStep ==
    ASSUME DataInv, NEW f \in File, NEW size \in Nat, entry[f].valid = 0,
           BlocksFor(size) <= Len(entry[f].chain), shrink(f, size)
    PROVE  (\E e : Changes(f, e)) /\ Promise!Resize(f, size)
<1> DEFINE c == entry[f].chain
           keep == SubSeq(c, 1, BlocksFor(size))
           e == Entry(size, keep)
<1>1. /\ entry' = [entry EXCEPT ![f] = e] /\ payload' = payload
      /\ free_bitmap' = free_bitmap \ (BlocksOf(c) \ BlocksOf(keep))
  BY DEF shrink
<1>2. /\ c \in Seq(BlockIndex) /\ payload \in Blocks /\ free_bitmap \subseteq BlockIndex
      /\ BlocksOf(c) \subseteq free_bitmap /\ BlocksFor(size) \in Nat
  BY BlocksForBounds DEF DataInv, Entries, Marked
<1>3. /\ keep \in Seq(BlockIndex) /\ Len(keep) = BlocksFor(size) /\ DOMAIN keep \subseteq DOMAIN c
      /\ \A i \in DOMAIN keep : keep[i] = c[i]
  <2> HIDE DEF c
  <2>1. QED
    BY <1>2 DEF c
<1>4. e.valid = 0 /\ e.total_size = size /\ e.chain = keep /\ EntryOK(e)
  <2> HIDE DEF keep
  <2>1. QED
    BY <1>3 DEF Entry, EntryOK, Entries
<1>5. \A i, j \in DOMAIN c : c[i] = c[j] => i = j
  BY DEF DataInv, Owned
<1>6. BlocksOf(keep) \subseteq BlocksOf(c)
  <2> HIDE DEF keep, c
  <2>1. QED
    BY <1>3 DEF BlocksOf
<1>7. ASSUME NEW g \in File \ {f}, NEW i \in DOMAIN entry[g].chain
      PROVE  entry[g].chain[i] \in free_bitmap /\ entry[g].chain[i] \notin BlocksOf(c)
  BY DEF DataInv, Marked, Owned, BlocksOf
<1>8. Changes(f, e)
  <2> HIDE DEF e, c, keep
  <2>1. \A i, j \in DOMAIN keep : keep[i] = keep[j] => i = j
    BY <1>3, <1>5
  <2>2. BlocksOf(keep) \subseteq free_bitmap'
    BY <1>1, <1>2, <1>6
  <2>3. QED
    BY <1>1, <1>2, <1>4, <1>6, <1>7, <2>1, <2>2 DEF Changes
<1>9. f \in Live /\ Live' = Live /\ Promise!Only(f) /\ Promise!Shows(f, size)
  <2> HIDE DEF e
  <2>1. QED
    BY <1>4, <1>8, ChangesOnly DEF Live, Promise!Shows
<1>10. Promise!Extends(Kept[f], Kept'[f])
  <2> HIDE DEF e, c, keep
  <2>1. Kept'[f] = BytesIn(keep, payload) /\ Kept[f] = BytesIn(c, payload)
    BY <1>1, <1>4, <1>8, ChangesOnly, HeldNow DEF c
  <2>2. ASSUME NEW k \in DOMAIN BytesIn(keep, payload)
        PROVE  k \in DOMAIN BytesIn(c, payload) /\ BytesIn(keep, payload)[k] = BytesIn(c, payload)[k]
    <3>1. k \in 1 .. BlockPayload * Len(keep) /\ Len(keep) \in Nat /\ Len(c) \in Nat
      BY <1>2, <1>3, BytesInType
    <3>2. k \in Nat \ {0} /\ Blk(k) \in 1 .. Len(keep)
      BY <3>1, Positions
    <3>3. k \in 1 .. BlockPayload * Len(c)
      BY <1>2, <1>3, <3>1, <3>2, PositionsIn
    <3>4. keep[Blk(k)] = c[Blk(k)]
      BY <1>3, <3>2
    <3>5. QED
      BY <1>2, <1>3, <3>1, <3>3, <3>4, BytesInType
  <2>3. QED
    BY <2>1, <2>2 DEF Promise!Extends
<1>11. QED
  BY <1>8, <1>9, <1>10 DEF Promise!Resize

LEMMA GrowStep ==
    ASSUME DataInv, NEW f \in File, NEW size \in Nat, entry[f].valid = 0,
           BlocksFor(size) > Len(entry[f].chain),
           NEW new \in allocate_blocks(BlocksFor(size) - Len(entry[f].chain)),
           grow(f, size, new)
    PROVE  (\E e : Changes(f, e)) /\ Promise!Resize(f, size)
<1> DEFINE c == entry[f].chain
           all == c \o new
           e == Entry(size, all)
<1>0. PICK none : none = <<>>
  OBVIOUS
<1>1. /\ entry' = [entry EXCEPT ![f] = e] /\ payload' = write_blocks(new, none)
      /\ free_bitmap' = free_bitmap \cup BlocksOf(new)
  BY <1>0 DEF grow, DataInv, Entries
<1>2. /\ c \in Seq(BlockIndex) /\ payload \in Blocks /\ free_bitmap \subseteq BlockIndex
      /\ BlocksOf(c) \subseteq free_bitmap /\ BlocksFor(size) \in Nat /\ Len(c) \in Nat
  <2>1. BlocksFor(size) \in Nat
    BY BlocksForBounds
  <2>2. c \in Seq(BlockIndex) /\ BlocksOf(c) \subseteq free_bitmap
    BY DEF DataInv, Entries, Marked
  <2>3. Len(c) \in Nat
    <3> HIDE DEF c
    <3>1. QED
      BY <2>2
  <2>4. QED
    BY <2>1, <2>2, <2>3 DEF DataInv
<1>3. /\ new \in Seq(BlockIndex) /\ Len(new) = BlocksFor(size) - Len(c)
      /\ \A i, j \in DOMAIN new : new[i] = new[j] => i = j
      /\ \A i \in DOMAIN new : new[i] \in BlockIndex \ free_bitmap
  <2>1. BlocksFor(size) - Len(c) \in Nat
    BY <1>2
  <2>2. QED
    BY <2>1, Allocated
<1>4. /\ all \in Seq(BlockIndex) /\ Len(all) = BlocksFor(size) /\ DOMAIN all = 1 .. Len(c) + Len(new)
      /\ \A i \in 1 .. Len(c) : all[i] = c[i]
      /\ \A i \in Len(c) + 1 .. Len(c) + Len(new) : i - Len(c) \in DOMAIN new /\ all[i] = new[i - Len(c)]
  <2> HIDE DEF c
  <2>1. /\ all \in Seq(BlockIndex) /\ Len(all) = Len(c) + Len(new) /\ DOMAIN all = 1 .. Len(c) + Len(new)
        /\ \A i \in DOMAIN all : all[i] = IF i <= Len(c) THEN c[i] ELSE new[i - Len(c)]
    BY <1>2, <1>3
  <2>2. Len(new) \in Nat /\ DOMAIN new = 1 .. Len(new)
    BY <1>3
  <2>3. Len(c) + Len(new) = BlocksFor(size)
    BY <1>2, <1>3
  <2> DEFINE lc == Len(c)
             ln == Len(new)
  <2>4. lc \in Nat /\ ln \in Nat /\ DOMAIN all = 1 .. lc + ln /\ DOMAIN new = 1 .. ln
    BY <1>2, <2>1, <2>2
  <2>5. \A i \in DOMAIN all : all[i] = IF i <= lc THEN c[i] ELSE new[i - lc]
    BY <2>1
  <2> HIDE DEF all, lc, ln
  <2>6. \A i \in 1 .. lc : all[i] = c[i]
    BY <2>4, <2>5
  <2>7. \A i \in lc + 1 .. lc + ln : i - lc \in DOMAIN new /\ all[i] = new[i - lc]
    BY <2>4, <2>5
  <2>8. QED
    BY <2>1, <2>3, <2>6, <2>7 DEF lc, ln
<1>5. e.valid = 0 /\ e.total_size = size /\ e.chain = all /\ EntryOK(e)
  <2> HIDE DEF all
  <2>1. QED
    BY <1>4 DEF Entry, EntryOK, Entries
<1>6. \A i, j \in DOMAIN c : c[i] = c[j] => i = j
  BY DEF DataInv, Owned
<1> HIDE DEF e, c, all
<1>7. /\ \A i \in DOMAIN all : all[i] \in BlocksOf(c) \/ all[i] \in BlocksOf(new)
      /\ BlocksOf(c) \subseteq free_bitmap
      /\ BlocksOf(new) \subseteq BlockIndex /\ BlocksOf(new) \cap free_bitmap = {}
  <2>1. ASSUME NEW i \in DOMAIN all PROVE all[i] \in BlocksOf(c) \/ all[i] \in BlocksOf(new)
    <3>1. CASE i \in 1 .. Len(c)
      BY <1>2, <1>4, <3>1 DEF BlocksOf
    <3>2. CASE i \in Len(c) + 1 .. Len(c) + Len(new)
      BY <1>4, <3>2 DEF BlocksOf
    <3>3. QED
      BY <1>2, <1>3, <1>4, <3>1, <3>2
  <2>2. QED
    BY <1>2, <1>3, <2>1 DEF BlocksOf
<1>8. BlocksOf(all) \subseteq BlocksOf(c) \cup BlocksOf(new)
  BY <1>7 DEF BlocksOf
<1>9. \A i, j \in DOMAIN all : all[i] = all[j] => i = j
  <2> SUFFICES ASSUME NEW i \in DOMAIN all, NEW j \in DOMAIN all, all[i] = all[j] PROVE i = j
    OBVIOUS
  <2>1. ASSUME NEW h \in DOMAIN all
        PROVE  \/ h \in 1 .. Len(c) /\ h \in DOMAIN c /\ all[h] = c[h] /\ all[h] \in free_bitmap
               \/ /\ h \in Len(c) + 1 .. Len(c) + Len(new) /\ h - Len(c) \in DOMAIN new
                  /\ all[h] = new[h - Len(c)] /\ all[h] \notin free_bitmap
    <3>1. CASE h \in 1 .. Len(c)
      BY <1>2, <1>4, <3>1 DEF BlocksOf
    <3>2. CASE h \in Len(c) + 1 .. Len(c) + Len(new)
      BY <1>3, <1>4, <3>2
    <3>3. QED
      BY <1>2, <1>3, <1>4, <3>1, <3>2
  <2>2. CASE all[i] \in free_bitmap
    BY <1>6, <2>1, <2>2
  <2>3. CASE all[i] \notin free_bitmap
    <3>1. /\ i \in Nat /\ j \in Nat /\ i - Len(c) \in DOMAIN new /\ j - Len(c) \in DOMAIN new
          /\ new[i - Len(c)] = new[j - Len(c)]
      BY <1>2, <1>3, <2>1, <2>3
    <3>2. i - Len(c) = j - Len(c)
      BY <1>3, <3>1
    <3>3. QED
      BY <1>2, <3>1, <3>2
  <2>4. QED
    BY <2>2, <2>3
<1>10. /\ payload' \in Blocks
       /\ \A b \in BlockIndex \ BlocksOf(new) : payload'[b] = payload[b]
  <2>1. none \in Seq(Byte)
    BY <1>0
  <2>2. /\ write_blocks(new, none) \in Blocks
        /\ \A b \in BlockIndex \ BlocksOf(new) : write_blocks(new, none)[b] = payload[b]
    <3> HIDE <1>0
    <3>1. QED
      BY <1>2, <1>3, <2>1, WrittenBlocks
  <2>3. QED
    BY <1>1, <2>2
<1>11. ASSUME NEW g \in File \ {f}, NEW i \in DOMAIN entry[g].chain
       PROVE  /\ entry[g].chain[i] \in free_bitmap /\ entry[g].chain[i] \notin BlocksOf(c)
              /\ payload'[entry[g].chain[i]] = payload[entry[g].chain[i]]
  <2>1. entry[g].chain[i] \in free_bitmap /\ entry[g].chain[i] \notin BlocksOf(c)
    BY DEF DataInv, Marked, Owned, BlocksOf, c
  <2>2. QED
    BY <1>2, <1>7, <1>10, <2>1
<1>12. Changes(f, e)
  BY <1>1, <1>2, <1>5, <1>7, <1>8, <1>9, <1>10, <1>11 DEF Changes
<1>13. f \in Live /\ Live' = Live /\ Promise!Only(f) /\ Promise!Shows(f, size)
  BY <1>5, <1>12, ChangesOnly DEF Live, Promise!Shows
<1>14. Promise!Extends(Kept[f], Kept'[f])
  <2>1. Kept'[f] = BytesIn(all, payload') /\ Kept[f] = BytesIn(c, payload)
    BY <1>5, <1>12, ChangesOnly, HeldNow DEF c
  <2>2. ASSUME NEW k \in DOMAIN BytesIn(all, payload')
        PROVE  BytesIn(all, payload')[k] =
                 IF k \in DOMAIN BytesIn(c, payload) THEN BytesIn(c, payload)[k] ELSE 0
    <3>1. /\ k \in 1 .. BlockPayload * Len(all) /\ Len(all) \in Nat
          /\ BytesIn(all, payload')[k] = payload'[all[Blk(k)]][Off(k)]
      BY <1>4, <1>10, BytesInType
    <3>2. k \in Nat \ {0} /\ Blk(k) \in 1 .. Len(all) /\ Off(k) \in 1 .. BlockPayload
      BY <3>1, Positions, Split
    <3>3. /\ DOMAIN BytesIn(c, payload) = 1 .. BlockPayload * Len(c)
          /\ \A j \in 1 .. BlockPayload * Len(c) : BytesIn(c, payload)[j] = payload[c[Blk(j)]][Off(j)]
      BY <1>2, BytesInType
    <3>4. CASE Blk(k) <= Len(c)
      <4>1. k \in 1 .. BlockPayload * Len(c)
        BY <1>2, <3>2, <3>4, PositionsIn
      <4>2. Blk(k) \in 1 .. Len(c) /\ all[Blk(k)] = c[Blk(k)]
        BY <1>4, <3>2, <3>4
      <4>3. c[Blk(k)] \in BlockIndex /\ c[Blk(k)] \in BlocksOf(c)
        BY <1>2, <4>2 DEF BlocksOf
      <4>4. payload'[c[Blk(k)]] = payload[c[Blk(k)]]
        BY <1>7, <1>10, <4>3
      <4>5. QED
        BY <3>1, <3>3, <4>1, <4>2, <4>4
    <3>5. CASE Blk(k) > Len(c)
      <4>1. k \notin 1 .. BlockPayload * Len(c)
        BY <1>2, <3>2, <3>5, Positions
      <4>2. Blk(k) - Len(c) \in DOMAIN new /\ all[Blk(k)] = new[Blk(k) - Len(c)]
        BY <1>2, <1>3, <1>4, <3>2, <3>5
      <4>3. write_blocks(new, none)[new[Blk(k) - Len(c)]][Off(k)] = 0
        <5>1. none \in Seq(Byte) /\ DOMAIN none = {}
          BY <1>0
        <5> HIDE <1>0
        <5>2. \A i \in DOMAIN new, h \in 1 .. BlockPayload :
                write_blocks(new, none)[new[i]][h] =
                   IF (i - 1) * BlockPayload + h \in DOMAIN none
                   THEN none[(i - 1) * BlockPayload + h] ELSE 0
          BY <1>2, <1>3, <5>1, WrittenBlocks
        <5>3. \A i \in DOMAIN new, h \in 1 .. BlockPayload : write_blocks(new, none)[new[i]][h] = 0
          BY <5>1, <5>2
        <5>4. QED
          BY <3>2, <4>2, <5>3
      <4>4. QED
        BY <1>1, <3>1, <3>3, <4>1, <4>2, <4>3
    <3>6. QED
      BY <1>2, <3>2, <3>4, <3>5
  <2>3. QED
    BY <2>1, <2>2 DEF Promise!Extends
<1>15. QED
  BY <1>12, <1>13, <1>14 DEF Promise!Resize

LEMMA TruncateStep ==
    ASSUME DataInv, NEW f \in File, NEW size \in Nat, file_truncate(f, size)
    PROVE  (\E e : Changes(f, e)) /\ Promise!Resize(f, size)
<1>1. CASE BlocksFor(size) <= Len(entry[f].chain) /\ shrink(f, size)
  BY <1>1, ShrinkStep DEF file_truncate
<1>2. CASE /\ BlocksFor(size) > Len(entry[f].chain)
           /\ \E new \in allocate_blocks(BlocksFor(size) - Len(entry[f].chain)) : grow(f, size, new)
  BY <1>2, GrowStep DEF file_truncate
<1>3. QED
  BY <1>1, <1>2 DEF file_truncate

-----------------------------------------------------------------------------
(* All calls. *)

LEMMA NextStep ==
    ASSUME DataInv, Next
    PROVE  DataInv' /\ Promise!Next
<1>1. PICK f \in File :
        \/ \E data \in Request : file_create(f, data)
        \/ file_delete(f)
        \/ \E data \in Request, index \in 0 .. MaxSize : file_edit(f, data, index)
        \/ \E size \in 0 .. MaxSize : file_truncate(f, size)
  BY DEF Next
<1>2. 0 .. MaxSize \subseteq Nat
  BY SizesAssumption
<1>3. CASE \E data \in Request : file_create(f, data)
  BY <1>3, CreateStep, ChangesInv DEF Promise!Next
<1>4. CASE file_delete(f)
  BY <1>4, DeleteStep, ChangesInv DEF Promise!Next
<1>5. CASE \E data \in Request, index \in 0 .. MaxSize : file_edit(f, data, index)
  BY <1>2, <1>5, EditStep, ChangesInv DEF Promise!Next
<1>6. CASE \E size \in 0 .. MaxSize : file_truncate(f, size)
  BY <1>2, <1>6, TruncateStep, ChangesInv DEF Promise!Next
<1>7. QED
  BY <1>1, <1>3, <1>4, <1>5, <1>6

\* A step that changes no table changes no promise.
LEMMA StutterStep ==
    ASSUME DataInv, UNCHANGED vars
    PROVE  DataInv' /\ UNCHANGED <<Live, Shown, Kept>>
<1>1. entry' = entry /\ free_bitmap' = free_bitmap /\ payload' = payload
  BY DEF vars
<1>2. DataInv'
  BY <1>1 DEF DataInv, EntryOK, Owned, Marked, BlocksOf
<1>3. UNCHANGED <<Live, Shown, Kept>>
  BY <1>1 DEF Live, Shown, Kept, file_read, Bytes
<1>4. QED
  BY <1>2, <1>3

LEMMA InvCorrect == Spec => []DataInv
<1>1. Init => DataInv
  BY DataInit
<1>2. DataInv /\ [Next]_vars => DataInv'
  BY NextStep, StutterStep
<1>3. QED
  BY <1>1, <1>2, PTL DEF Spec

\* The type invariant, for any number of files and blocks and any block size:
\* no call of file_create, file_delete, file_edit or file_truncate puts a block
\* number outside the region, or a byte outside a block, into the tables.
THEOREM TypeCorrect == Spec => []TypeOK
<1>1. DataInv => TypeOK
  BY DEF DataInv, TypeOK, Entries, Blocks
<1>2. QED
  BY <1>1, InvCorrect, PTL

\* No read ends early: the chain file_read walks always has the blocks that
\* total_size needs, whatever file_truncate cut off and appended before.
THEOREM ReadsWholeCorrect == Spec => []ReadsWhole
<1>1. DataInv => ReadsWhole
  <2>1. ASSUME DataInv, NEW f \in File PROVE Len(file_read(f)) = entry[f].total_size
    <3>1. Shown[f] = file_read(f)
      BY DEF Shown
    <3>2. QED
      BY <2>1, <3>1, HeldNow
  <2>2. QED
    BY <2>1 DEF ReadsWhole
<1>2. QED
  BY <1>1, InvCorrect, PTL

\* The calls on shared blocks keep what clients are promised of bytes: a call
\* on one file changes no byte of another, and what a file grows by is zeros or
\* bytes of its own that were cut off or written behind its end.
THEOREM ImplementsCorrect == Spec => ImplementsBytes
<1>1. Init => Promise!Init
  <2> SUFFICES ASSUME Init PROVE Promise!Init
    OBVIOUS
  <2>1. DataInv /\ \A f \in File : entry[f] = Free
    BY DataInit DEF Init
  <2>2. Live = {}
    BY <2>1 DEF Live, Free
  <2>3. ASSUME NEW f \in File PROVE Kept[f] = <<>> /\ Shown[f] = <<>>
    <3>1. entry[f].chain = <<>> /\ entry[f].total_size = 0
      BY <2>1 DEF Free
    <3>2. <<>> \in Seq(BlockIndex) /\ Len(<<>>) = 0 /\ payload \in Blocks
      BY <2>1 DEF DataInv
    <3>3. BytesIn(<<>>, payload) \in Seq(Byte) /\ Len(BytesIn(<<>>, payload)) = BlockPayload * 0
      BY <3>2, BytesInType
    <3>4. BlockPayload * 0 = 0
      BY SizesAssumption
    <3>5. BytesIn(<<>>, payload) = <<>>
      BY <3>3, <3>4
    <3>6. QED
      BY <2>1, <3>1, <3>5, HeldNow
  <2>4. Shown = [f \in File |-> <<>>] /\ Kept = [f \in File |-> <<>>]
    BY <2>3 DEF Shown, Kept
  <2>5. QED
    BY <2>2, <2>4 DEF Promise!Init
<1>2. DataInv /\ [Next]_vars => [Promise!Next]_<<Live, Shown, Kept>>
  BY NextStep, StutterStep
<1>3. QED
  BY <1>1, <1>2, InvCorrect, PTL DEF Spec, ImplementsBytes, Promise!Spec
============================================================================
