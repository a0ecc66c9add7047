------------------------ MODULE OFSQueriesProofs ------------------------
(*************************************************************************)
(* The calls that only read agree with each other, though each reads     *)
(* another structure: what OFSQueries says, for every table and volume.  *)
(*************************************************************************)
EXTENDS OFSCoreTreeProofs, OFSQueries

-----------------------------------------------------------------------------
(* Listings. *)

\* One turn of the loop of dir_list over the words c, of which those of live are
\* kept, after the turns that gave before.
Keeps(c, live, k, before) ==
    IF k = 0 THEN <<>>
    ELSE IF c[k] \in live THEN Append(before, c[k]) ELSE before

LEMMA InUseFold ==
  ASSUME NEW c
  PROVE  InUse(c) = (CHOOSE f : f = [k \in 0 .. Len(c) |-> Keeps(c, Live(meta), k, f[k - 1])])[Len(c)]
  BY Zenon DEF InUse, Keeps

\* Nothing is left out of a list of slots in use.
LEMMA AllKept ==
  ASSUME NEW c \in Seq(Word), \A k \in DOMAIN c : c[k] \in Live(meta)
  PROVE  InUse(c) = c
<1> DEFINE n == Len(c)
           Loop(f) == f = [k \in 0 .. n |-> Keeps(c, Live(meta), k, f[k - 1])]
           g == [k \in 0 .. n |-> SubSeq(c, 1, k)]
           f0 == CHOOSE f : Loop(f)
<1>1. n \in Nat /\ \A k \in 1 .. n : c[k] \in Word /\ c[k] \in Live(meta)
  OBVIOUS
<1>2. SubSeq(c, 1, 0) = <<>> /\ SubSeq(c, 1, n) = c
  BY <1>1
<1>3. \A k \in 1 .. n : SubSeq(c, 1, k) = Append(SubSeq(c, 1, k - 1), c[k])
  OBVIOUS
<1>4. Loop(g)
  <2>1. ASSUME NEW k \in 0 .. n PROVE g[k] = Keeps(c, Live(meta), k, g[k - 1])
    <3>1. CASE k = 0
      BY <1>1, <1>2, <3>1 DEF Keeps
    <3>2. CASE k # 0
      <4>1. k \in 1 .. n /\ k - 1 \in 0 .. n
        BY <1>1, <3>2
      <4>2. g[k] = SubSeq(c, 1, k) /\ g[k - 1] = SubSeq(c, 1, k - 1)
        BY <4>1
      <4> QED
        BY <1>1, <1>3, <3>2, <4>1, <4>2 DEF Keeps
    <3> QED
      BY <3>1, <3>2
  <2> QED
    BY <2>1
<1>5. Loop(f0)
  BY <1>4, Zenon
<1> HIDE DEF f0
<1>6. \A k \in 0 .. n : f0[k] = Keeps(c, Live(meta), k, f0[k - 1])
  BY <1>5
<1> DEFINE Bad == {k \in 0 .. n : f0[k] # SubSeq(c, 1, k)}
<1>7. Bad = {}
  <2> SUFFICES ASSUME Bad # {} PROVE FALSE
    OBVIOUS
  <2>1. Bad \in SUBSET Nat
    BY <1>1
  <2> HIDE DEF Bad
  <2>2. PICK k \in Bad : \A l \in Bad : k <= l
    BY <2>1, LeastExists, Zenon
  <2>3. k \in 0 .. n /\ f0[k] # SubSeq(c, 1, k)
    BY <2>2 DEF Bad
  <2>4. k # 0
    BY <1>2, <1>6, <2>3 DEF Keeps
  <2>5. k \in 1 .. n /\ k - 1 \in 0 .. n /\ ~(k <= k - 1)
    BY <1>1, <2>3, <2>4
  <2>6. f0[k - 1] = SubSeq(c, 1, k - 1)
    BY <2>2, <2>5 DEF Bad
  <2>7. f0[k] = Append(f0[k - 1], c[k])
    BY <1>1, <1>6, <2>3, <2>4, <2>5 DEF Keeps
  <2> QED
    BY <1>3, <2>3, <2>5, <2>6, <2>7
<1>8. f0[n] = c
  <2>1. n \in 0 .. n
    BY <1>1
  <2>2. f0[n] = SubSeq(c, 1, n)
    BY <1>7, <2>1
  <2> QED
    BY <1>2, <2>2
<1> QED
  BY <1>8, InUseFold DEF f0

\* A directory lists its block: one list, of entries in use that have it for a
\* parent, each once.
LEMMA ListingIs ==
  ASSUME Inv, NEW p \in DOMAIN path_index, meta[path_index[p]].type = DIR
  PROVE  /\ dir_list(p) # {}
         /\ \A shown \in dir_list(p) : \E c \in Seq(Word) :
              /\ shown = [k \in DOMAIN c |-> FileEntry(c[k])]
              /\ \A k \in DOMAIN c : c[k] \in Live(meta) /\ meta[c[k]].parent = path_index[p]
              /\ \A k, l \in DOMAIN c : c[k] = c[l] => k = l
              /\ meta[path_index[p]].start_index # 0 => c = Items(meta, blocks, path_index[p])
<1> DEFINE d == path_index[p]
<1>1. d \in Live(meta) /\ ListsOwn(meta, blocks, d)
  BY DEF Inv, IndexedEntriesLive
<1>2. ASSUME NEW c \in dir_block_read(Volume, d)
      PROVE  /\ c \in Seq(Word) /\ InUse(c) = c
             /\ \A k \in DOMAIN c : c[k] \in Live(meta) /\ meta[c[k]].parent = d
             /\ \A k, l \in DOMAIN c : c[k] = c[l] => k = l
             /\ meta[d].start_index # 0 => c = Items(meta, blocks, d)
  <2>1. /\ c \in Seq(Word)
        /\ meta[d].start_index = 0 => c = <<>>
        /\ meta[d].start_index # 0 => c = Items(meta, blocks, d)
    BY <1>1, <1>2, ListedItems
  <2>2. /\ \A k \in DOMAIN c : c[k] \in Live(meta) /\ meta[c[k]].parent = d
        /\ \A k, l \in DOMAIN c : c[k] = c[l] => k = l
    BY <1>1, <2>1 DEF ListsOwn, Items
  <2> QED
    BY <2>1, <2>2, AllKept
<1>3. dir_block_read(Volume, d) # {}
  BY <1>1, ReadSome
<1>4. dir_list(p) = {[k \in DOMAIN InUse(c) |-> FileEntry(InUse(c)[k])] : c \in dir_block_read(Volume, d)}
  BY DEF dir_list
<1>5. dir_list(p) # {}
  BY <1>3, <1>4
<1>6. ASSUME NEW shown \in dir_list(p)
      PROVE  \E c \in dir_block_read(Volume, d) : shown = [k \in DOMAIN c |-> FileEntry(c[k])]
  <2>1. PICK c \in dir_block_read(Volume, d) : shown = [k \in DOMAIN InUse(c) |-> FileEntry(InUse(c)[k])]
    BY <1>4
  <2>2. InUse(c) = c
    BY <1>2
  <2> QED
    BY <2>1, <2>2
<1> QED
  BY <1>2, <1>5, <1>6

-----------------------------------------------------------------------------
(* What the other queries answer. *)

\* Every entry in use has one chain: the walk of get_metadata ends.
LEMMA OwnChain ==
  ASSUME Inv, Shape, NEW i \in Live(meta)
  PROVE  /\ \E s : s \in ChainOfEntry(i)
         /\ \A s, t \in ChainOfEntry(i) : s = t
<1>1. /\ meta[i] \in MetaEntry /\ blocks \in [BlockIndex -> Block]
      /\ meta \in [MetaIndex -> MetaEntry]
  BY DEF Inv, TypeOK, Live
<1>2. meta[i].type \in {FILE, DIR} /\ meta[i].start_index \in 0 .. NB
  BY <1>1 DEF MetaEntry
<1>3. \A s, t \in ChainOfEntry(i) : s = t
  BY <1>1, <1>2, ChainUnique DEF ChainOfEntry
<1>4. \E s : s \in ChainOfEntry(i)
  <2>1. CASE meta[i].type = FILE
    BY <2>1 DEF Shape, Accounted, SizesFit, ChainOfEntry
  <2>2. CASE meta[i].type = DIR
    BY <2>2, ReadSome DEF dir_block_read, ChainOfEntry, Volume
  <2> QED
    BY <1>2, <2>1, <2>2
<1> QED
  BY <1>3, <1>4

LEMMA AnswersAre ==
  ASSUME TreeInv, NEW p
  PROVE  /\ p \in DOMAIN path_index =>
              /\ Found(p) = {path_index[p]} /\ Lookup(p) = {FileEntry(path_index[p])}
              /\ file_exists(p) <=> meta[path_index[p]].type = FILE
              /\ dir_exists(p) <=> meta[path_index[p]].type = DIR
         /\ p \notin DOMAIN path_index =>
              Found(p) = {} /\ Lookup(p) = {} /\ ~file_exists(p) /\ ~dir_exists(p)
<1>1. ASSUME p \in DOMAIN path_index
      PROVE  /\ Found(p) = {path_index[p]} /\ Lookup(p) = {FileEntry(path_index[p])}
             /\ file_exists(p) <=> meta[path_index[p]].type = FILE
             /\ dir_exists(p) <=> meta[path_index[p]].type = DIR
  <2> DEFINE i == path_index[p]
  <2>1. i \in Live(meta)
    BY <1>1 DEF TreeInv, PathsMatch
  <2>2. Found(p) = {i}
    BY <1>1, <2>1 DEF Found
  <2>3. get_metadata(p) = {[entry |-> FileEntry(i), blocks_used |-> Len(s)] : s \in ChainOfEntry(i)}
    BY <2>2 DEF get_metadata
  <2>4. PICK s : s \in ChainOfEntry(i)
    BY <2>1, OwnChain DEF TreeInv
  <2>5. Lookup(p) = {FileEntry(i)}
    <3>1. \A x \in get_metadata(p) : x.entry = FileEntry(i)
      BY <2>3
    <3>2. \E x \in get_metadata(p) : x.entry = FileEntry(i)
      <4> DEFINE x == [entry |-> FileEntry(i), blocks_used |-> Len(s)]
      <4>1. x \in get_metadata(p) /\ x.entry = FileEntry(i)
        BY <2>3, <2>4
      <4> QED
        BY <4>1, Zenon
    <3> QED
      BY <3>1, <3>2 DEF Lookup
  <2> QED
    BY <2>2, <2>5 DEF file_exists, dir_exists
<1>2. ASSUME p \notin DOMAIN path_index
      PROVE  Found(p) = {} /\ Lookup(p) = {} /\ ~file_exists(p) /\ ~dir_exists(p)
  <2>1. Found(p) = {}
    BY <1>2 DEF Found
  <2>2. get_metadata(p) = {}
    BY <2>1 DEF get_metadata
  <2> QED
    BY <2>1, <2>2 DEF Lookup, file_exists, dir_exists
<1> QED
  BY <1>1, <1>2

\* A path and one more name is a path, with that path for a parent.
LEMMA BelowParts ==
  ASSUME NEW p \in Path, ~p.dbl, NEW n
  PROVE  /\ Below(p, n) = [dbl |-> FALSE, toks |-> Append(p.toks, n)]
         /\ Below(p, n) # RootPath
         /\ ParentPath(Below(p, n)) = p /\ Basename(Below(p, n)) = n
<1>1. p = [dbl |-> FALSE, toks |-> p.toks] /\ p.toks \in Seq(Name)
  BY PathParts
<1> DEFINE t == p.toks
           a == Append(t, n)
<1>2. Below(p, n) = [dbl |-> FALSE, toks |-> a]
  <2> DEFINE q == [p EXCEPT !.toks = a]
  <2>1. p \in [dbl : BOOLEAN, toks : Seq(Name)]
    BY DEF Path
  <2> HIDE DEF a
  <2>2. q \in [dbl : BOOLEAN, toks : {a}] /\ ~q.dbl /\ q.toks = a
    BY <2>1
  <2> HIDE DEF q
  <2>3. q = [dbl |-> FALSE, toks |-> a]
    BY <2>2
  <2>4. Below(p, n) = [p EXCEPT !.toks = Append(p.toks, n)]
    BY Zenon DEF Below
  <2> QED
    BY <2>3, <2>4 DEF q, a
<1>3. Len(a) = Len(t) + 1 /\ a[Len(a)] = n /\ SubSeq(a, 1, Len(a) - 1) = t /\ a # <<>>
  BY <1>1
<1> QED
  BY <1>1, <1>2, <1>3 DEF RootPath, ParentPath, Basename

\* The path of a child is its directory's path and its name, and the other way
\* round.
LEMMA ChildPath ==
  ASSUME TreeInv, NEW p \in DOMAIN path_index
  PROVE  /\ \A j \in Live(meta) : meta[j].parent = path_index[p] =>
              LET q == Below(p, meta[j].name) IN q \in DOMAIN path_index /\ path_index[q] = j
         /\ \A n : LET q == Below(p, n) IN q \in DOMAIN path_index =>
              /\ path_index[q] \in Live(meta) \ {Root}
              /\ meta[path_index[q]].parent = path_index[p] /\ meta[path_index[q]].name = n
<1>1. p \in Path /\ ~p.dbl
  BY DEF TreeInv, PathsMatch
<1>2. ASSUME NEW j \in Live(meta), meta[j].parent = path_index[p]
      PROVE  LET q == Below(p, meta[j].name) IN q \in DOMAIN path_index /\ path_index[q] = j
  <2>1. PICK q \in DOMAIN path_index : path_index[q] = j
    BY DEF TreeInv, PathsMatch
  <2>2. path_index[p] \in MetaIndex /\ 0 \notin MetaIndex
    BY SizesAssumption DEF TreeInv, PathsMatch, Live, MetaIndex
  <2>3. q # RootPath
    BY <1>2, <2>1, <2>2 DEF TreeInv, Inv, RootAlive
  <2>4. /\ ParentPath(q) \in DOMAIN path_index /\ path_index[ParentPath(q)] = path_index[p]
        /\ meta[j].name = Basename(q) /\ q \in Path /\ ~q.dbl
    BY <1>2, <2>1, <2>3 DEF TreeInv, PathsMatch
  <2>5. ParentPath(q) = p
    BY <2>4 DEF TreeInv, PathsMatch
  <2>6. q = [dbl |-> FALSE, toks |-> q.toks] /\ q.toks = Append(p.toks, meta[j].name)
    BY <2>3, <2>4, <2>5, PathParts
  <2>7. q = Below(p, meta[j].name)
    BY <1>1, <2>6, BelowParts
  <2> QED
    BY <2>1, <2>7
<1>3. ASSUME NEW n, Below(p, n) \in DOMAIN path_index
      PROVE  LET q == Below(p, n) IN
             /\ path_index[q] \in Live(meta) \ {Root}
             /\ meta[path_index[q]].parent = path_index[p] /\ meta[path_index[q]].name = n
  <2> DEFINE q == Below(p, n)
  <2>1. q # RootPath /\ ParentPath(q) = p /\ Basename(q) = n
    BY <1>1, BelowParts
  <2> HIDE DEF q
  <2> QED
    BY <1>3, <2>1 DEF q, TreeInv, PathsMatch
<1> QED
  BY <1>2, <1>3

\* dir_list, file_exists, dir_exists and get_metadata tell one tree.
THEOREM QueriesAgreeCorrect == TreeSpec => []QueriesAgree
<1>1. TreeInv => QueriesAgree
  <2> SUFFICES ASSUME TreeInv, NEW p \in KnownPaths
               PROVE  /\ dir_exists(p) <=> dir_list(p) # {}
                      /\ dir_exists(p) => ~file_exists(p)
                      /\ \A shown \in dir_list(p) :
                           /\ \A k, l \in DOMAIN shown : shown[k].name = shown[l].name => k = l
                           /\ \A k \in DOMAIN shown :
                                /\ Lookup(Below(p, shown[k].name)) = {shown[k]}
                                /\ IF shown[k].type = DIR THEN dir_exists(Below(p, shown[k].name))
                                   ELSE file_exists(Below(p, shown[k].name))
                           /\ \A n \in Name : \A e \in Lookup(Below(p, n)) :
                                \E k \in DOMAIN shown : shown[k] = e
    BY DEF QueriesAgree
  <2> DEFINE d == path_index[p]
  <2>1. p \in DOMAIN path_index /\ d \in Live(meta) /\ Inv
    BY DEF KnownPaths, TreeInv, PathsMatch
  <2>2. /\ file_exists(p) <=> meta[d].type = FILE
        /\ dir_exists(p) <=> meta[d].type = DIR
    BY <2>1, AnswersAre
  <2>3. meta[d].type # DIR => dir_list(p) = {}
    BY <2>1 DEF dir_list
  <2>4. meta[d].type = DIR => dir_list(p) # {}
    BY <2>1, ListingIs
  <2>5. ASSUME NEW shown \in dir_list(p)
        PROVE  /\ \A k, l \in DOMAIN shown : shown[k].name = shown[l].name => k = l
               /\ \A k \in DOMAIN shown :
                    /\ Lookup(Below(p, shown[k].name)) = {shown[k]}
                    /\ IF shown[k].type = DIR THEN dir_exists(Below(p, shown[k].name))
                       ELSE file_exists(Below(p, shown[k].name))
               /\ \A n \in Name : \A e \in Lookup(Below(p, n)) :
                    \E k \in DOMAIN shown : shown[k] = e
    <3>1. meta[d].type = DIR
      BY <2>3, <2>5
    <3>2. PICK c \in Seq(Word) :
             /\ shown = [k \in DOMAIN c |-> FileEntry(c[k])]
             /\ \A k \in DOMAIN c : c[k] \in Live(meta) /\ meta[c[k]].parent = d
             /\ \A k, l \in DOMAIN c : c[k] = c[l] => k = l
             /\ meta[d].start_index # 0 => c = Items(meta, blocks, d)
      BY <2>1, <2>5, <3>1, ListingIs
    <3>3. ASSUME NEW k \in DOMAIN shown
          PROVE  /\ k \in DOMAIN c /\ shown[k] = FileEntry(c[k]) /\ c[k] \in Live(meta)
                 /\ shown[k].name = meta[c[k]].name /\ shown[k].type = meta[c[k]].type
                 /\ Below(p, shown[k].name) \in DOMAIN path_index
                 /\ path_index[Below(p, shown[k].name)] = c[k]
      <4>1. k \in DOMAIN c /\ shown[k] = FileEntry(c[k])
        BY <3>2, <3>3
      <4>2. shown[k].name = meta[c[k]].name /\ shown[k].type = meta[c[k]].type
        BY <4>1 DEF FileEntry
      <4>3. c[k] \in Live(meta) /\ meta[c[k]].parent = d
        BY <3>2, <4>1
      <4> QED
        BY <2>1, <4>1, <4>2, <4>3, ChildPath
    <3>4. \A k, l \in DOMAIN shown : shown[k].name = shown[l].name => k = l
      BY <3>2, <3>3
    <3>5. ASSUME NEW k \in DOMAIN shown
          PROVE  /\ Lookup(Below(p, shown[k].name)) = {shown[k]}
                 /\ IF shown[k].type = DIR THEN dir_exists(Below(p, shown[k].name))
                    ELSE file_exists(Below(p, shown[k].name))
      <4> DEFINE q == Below(p, shown[k].name)
      <4>1. /\ shown[k] = FileEntry(c[k]) /\ c[k] \in Live(meta) /\ shown[k].type = meta[c[k]].type
            /\ q \in DOMAIN path_index /\ path_index[q] = c[k]
        BY <3>3
      <4>2. meta[c[k]].type \in {FILE, DIR}
        BY <2>1, <4>1 DEF Inv, TypeOK, MetaEntry, Live
      <4> HIDE DEF q
      <4>3. /\ Lookup(q) = {shown[k]}
            /\ file_exists(q) <=> meta[c[k]].type = FILE
            /\ dir_exists(q) <=> meta[c[k]].type = DIR
        BY <4>1, AnswersAre
      <4> QED
        BY <4>1, <4>2, <4>3 DEF q
    <3>6. ASSUME NEW n \in Name, NEW e \in Lookup(Below(p, n))
          PROVE  \E k \in DOMAIN shown : shown[k] = e
      <4> DEFINE q == Below(p, n)
                 j == path_index[q]
      <4>1. q \in DOMAIN path_index /\ e = FileEntry(j)
        BY AnswersAre
      <4>2. j \in Live(meta) \ {Root} /\ meta[j].parent = d
        BY <2>1, <4>1, ChildPath
      <4> HIDE DEF j
      <4>3. Lists(meta, blocks, d, j)
        BY <4>2 DEF TreeInv, Shape, AllHang
      <4>4. c = Items(meta, blocks, d) /\ \E k \in DOMAIN c : c[k] = j
        BY <3>2, <4>3 DEF Lists, IsDirWithBlock
      <4>5. PICK k \in DOMAIN c : c[k] = j
        BY <4>4
      <4> QED
        BY <3>2, <4>1, <4>5
    <3> QED
      BY <3>4, <3>5, <3>6
  <2>6. (dir_exists(p) <=> dir_list(p) # {}) /\ (dir_exists(p) => ~file_exists(p))
    BY <2>2, <2>3, <2>4 DEF FILE, DIR
  <2> QED
    BY <2>5, <2>6, Zenon
<1> QED
  BY <1>1, TreeInvHolds, PTL

-----------------------------------------------------------------------------
(* Totals. *)

\* The sum of MapThenSumSet, one element at a time: iter is the sum of each subset.
Adds(S, n, iter) ==
  iter = [s \in SUBSET S |-> IF s = {} THEN 0
                             ELSE n[CHOOSE x \in s : TRUE] + iter[s \ {CHOOSE x \in s : TRUE}]]

\* The sum of the sizes of parts that share nothing is the size of their union.
LEMMA SumOfParts ==
  ASSUME NEW S, IsFiniteSet(S), NEW U, IsFiniteSet(U),
         NEW n \in [S -> Nat], NEW B \in [S -> SUBSET U],
         \A x \in S : Cardinality(B[x]) = n[x],
         \A x, y \in S : x # y => B[x] \cap B[y] = {}
  PROVE  /\ \E f : Adds(S, n, f)
         /\ \A f : Adds(S, n, f) => f[S] = Cardinality(UNION {B[x] : x \in S})
<1> DEFINE All(s) == UNION {B[x] : x \in s}
           first(s) == CHOOSE x \in s : TRUE
           G == [s \in SUBSET S |-> Cardinality(All(s))]
<1>1. ASSUME NEW s \in SUBSET S, s # {}
      PROVE  /\ first(s) \in S /\ first(s) \in s /\ s \ {first(s)} \in SUBSET S
             /\ Cardinality(All(s)) = n[first(s)] + Cardinality(All(s \ {first(s)}))
  <2> DEFINE x == first(s)
             r == s \ {x}
  <2>1. x \in s /\ x \in S
    BY <1>1
  <2> HIDE DEF x
  <2>2. All(s) = B[x] \cup All(r) /\ B[x] \cap All(r) = {}
    <3>1. \A y \in r : y \in S /\ y # x
      OBVIOUS
    <3>2. All(s) = B[x] \cup All(r)
      BY <2>1
    <3>3. B[x] \cap All(r) = {}
      BY <2>1, <3>1
    <3> QED
      BY <3>2, <3>3
  <2>3. B[x] \in SUBSET U /\ All(r) \in SUBSET U
    <3>1. \A y \in r : B[y] \in SUBSET U
      OBVIOUS
    <3> QED
      BY <2>1, <3>1
  <2> DEFINE P == B[x]
             Q == All(r)
  <2>4. /\ IsFiniteSet(P) /\ IsFiniteSet(Q)
        /\ Cardinality(P) \in Nat /\ Cardinality(Q) \in Nat
    <3> HIDE DEF P, Q
    <3> QED
      BY <2>3, FS_Subset, FS_CardinalityType DEF P, Q
  <2>5. Cardinality(P \cup Q) = Cardinality(P) + Cardinality(Q)
    <3>1. P \cap Q = {}
      BY <2>2
    <3> HIDE DEF P, Q
    <3>2. Cardinality(P \cup Q) = Cardinality(P) + Cardinality(Q) - Cardinality(P \cap Q)
      BY <2>4, FS_Union
    <3>3. Cardinality(P \cap Q) = 0
      BY <3>1, FS_EmptySet, Zenon
    <3> QED
      BY <2>4, <3>2, <3>3
  <2>6. Cardinality(P) = n[x]
    BY <2>1
  <2>7. Cardinality(All(s)) = n[x] + Cardinality(All(r))
    <3>1. All(s) = P \cup Q
      BY <2>2
    <3> HIDE DEF All, P, r
    <3> QED
      BY <2>5, <2>6, <3>1 DEF Q
  <2>8. r \in SUBSET S
    OBVIOUS
  <2> QED
    BY <2>1, <2>7, <2>8 DEF x
<1>2. Cardinality(All({})) = 0
  <2>1. All({}) = {}
    OBVIOUS
  <2> QED
    BY <2>1, FS_EmptySet, Zenon
<1> HIDE DEF All, first
<1>3. G = [s \in SUBSET S |-> IF s = {} THEN 0 ELSE n[first(s)] + G[s \ {first(s)}]]
  <2> SUFFICES ASSUME NEW s \in SUBSET S
               PROVE  G[s] = IF s = {} THEN 0 ELSE n[first(s)] + G[s \ {first(s)}]
    OBVIOUS
  <2>1. CASE s = {}
    BY <1>2, <2>1
  <2>2. CASE s # {}
    <3>1. G[s \ {first(s)}] = Cardinality(All(s \ {first(s)}))
      BY <1>1, <2>2
    <3>2. G[s] = Cardinality(All(s))
      OBVIOUS
    <3> HIDE DEF G
    <3> QED
      BY <1>1, <2>2, <3>1, <3>2
  <2> QED
    BY <2>1, <2>2
<1>4. \E f : Adds(S, n, f)
  BY <1>3, Zenon DEF Adds, first
<1>5. ASSUME NEW f, Adds(S, n, f) PROVE f[S] = Cardinality(All(S))
  <2>1. \A s \in SUBSET S : f[s] = IF s = {} THEN 0 ELSE n[first(s)] + f[s \ {first(s)}]
    BY <1>5 DEF Adds, first
  <2> DEFINE Bad == {k \in Nat : \E s \in SUBSET S : Cardinality(s) = k /\ f[s] # Cardinality(All(s))}
  <2>2. Bad = {}
    <3> SUFFICES ASSUME Bad # {} PROVE FALSE
      OBVIOUS
    <3>1. Bad \in SUBSET Nat
      OBVIOUS
    <3> HIDE DEF Bad
    <3>2. PICK k \in Bad : \A l \in Bad : k <= l
      BY <3>1, LeastExists, Zenon
    <3>3. PICK s \in SUBSET S : Cardinality(s) = k /\ f[s] # Cardinality(All(s))
      BY <3>2 DEF Bad
    <3>4. k \in Nat
      BY <3>2 DEF Bad
    <3>5. s # {}
      BY <1>2, <2>1, <3>3
    <3> DEFINE r == s \ {first(s)}
    <3>6. IsFiniteSet(s) /\ first(s) \in s /\ r \in SUBSET S
      BY <1>1, <3>5, FS_Subset
    <3>7. Cardinality(r) = k - 1
      BY <3>3, <3>6, FS_RemoveElement
    <3>8. k # 0
      BY <3>3, <3>5, <3>6, FS_EmptySet
    <3>9. k - 1 \in Nat /\ ~(k <= k - 1)
      BY <3>4, <3>8
    <3> HIDE DEF r
    <3>10. f[r] = Cardinality(All(r))
      BY <3>2, <3>6, <3>7, <3>9 DEF Bad
    <3> QED
      BY <1>1, <2>1, <3>3, <3>5, <3>10 DEF r
  <2>3. S \in SUBSET S /\ Cardinality(S) \in Nat
    BY FS_CardinalityType
  <2> QED
    BY <2>2, <2>3
<1> QED
  BY <1>4, <1>5 DEF All

\* The totals of get_stats are those of the tree that the other queries tell.
THEOREM StatsAddUpCorrect == TreeSpec => []StatsAddUp
<1>1. TreeInv => StatsAddUp
  <2> SUFFICES ASSUME TreeInv PROVE StatsAddUp
    OBVIOUS
  <2> DEFINE D == DOMAIN path_index
             chain(p) == CHOOSE s : s \in ChainOfEntry(path_index[p])
             n == [p \in D |-> Len(chain(p))]
             B == [p \in D |-> BlocksOf(chain(p))]
             used(p) == CHOOSE k \in 0 .. NB : \E m \in get_metadata(p) : m.blocks_used = k
             found(d) == {p \in D : IF d THEN dir_exists(p) ELSE file_exists(p)}
  <2>1. /\ Inv /\ Shape /\ path_index = [p \in D |-> path_index[p]]
        /\ \A p \in D : path_index[p] \in Live(meta)
        /\ \A p, q \in D : path_index[p] = path_index[q] => p = q
        /\ \A i \in Live(meta) : \E p \in D : path_index[p] = i
    BY DEF TreeInv, PathsMatch
  <2>2. IsFiniteSet(D) /\ IsFiniteSet(BlockIndex)
    <3>1. IsFiniteSet(MetaIndex) /\ IsFiniteSet(BlockIndex)
      <4>1. 1 \in Int /\ NM \in Int /\ NB \in Int
        BY SizesAssumption
      <4> QED
        BY <4>1, FS_Interval DEF MetaIndex, BlockIndex
    <3>2. path_index \in [D -> MetaIndex]
      BY <2>1 DEF Live
    <3>3. path_index \in Injection(D, MetaIndex)
      BY <2>1, <3>2 DEF Injection, IsInjective
    <3> HIDE DEF D
    <3> QED
      BY <3>1, <3>3, FS_Injection
  <2>3. /\ get_stats.total_files = Cardinality(found(FALSE))
        /\ get_stats.total_directories = Cardinality(found(TRUE))
    <3> SUFFICES ASSUME NEW d \in BOOLEAN
                 PROVE  Cardinality({i \in Live(meta) : meta[i].type = IF d THEN DIR ELSE FILE})
                          = Cardinality(found(d))
      BY DEF get_stats
    <3> DEFINE kind == IF d THEN DIR ELSE FILE
               T == {i \in Live(meta) : meta[i].type = kind}
               F == found(d)
               f == [p \in F |-> path_index[p]]
    <3>1. \A p \in D : p \in F <=> meta[path_index[p]].type = kind
      BY AnswersAre
    <3>2. f \in [F -> T]
      BY <2>1, <3>1
    <3>3. f \in Surjection(F, T)
      <4>1. \A i \in T : \E p \in F : f[p] = i
        <5> SUFFICES ASSUME NEW i \in T PROVE \E p \in F : f[p] = i
          OBVIOUS
        <5>1. PICK p \in D : path_index[p] = i
          BY <2>1
        <5>2. p \in F
          BY <3>1, <5>1
        <5> QED
          BY <5>1, <5>2
      <4> HIDE DEF f, F, T
      <4> QED
        BY <3>2, <4>1 DEF Surjection
    <3>4. f \in Injection(F, T)
      <4>1. \A p, q \in F : f[p] = f[q] => p = q
        BY <2>1
      <4> HIDE DEF f, F, T
      <4> QED
        BY <3>2, <4>1 DEF Injection, IsInjective
    <3>5. IsFiniteSet(F)
      <4>1. F \in SUBSET D
        OBVIOUS
      <4> HIDE DEF F, D
      <4> QED
        BY <2>2, <4>1, FS_Subset
    <3> HIDE DEF f, F, T
    <3>6. Cardinality(T) = Cardinality(F)
      BY <3>3, <3>4, <3>5, FS_Surjection
    <3> QED
      BY <3>6 DEF F, T
  <2>4. ASSUME NEW p \in D
        PROVE  /\ chain(p) \in ChainOfEntry(path_index[p])
               /\ \A s \in ChainOfEntry(path_index[p]) : s = chain(p)
               /\ Len(chain(p)) \in 0 .. NB /\ BlocksOf(chain(p)) \in SUBSET BlockIndex
               /\ Cardinality(BlocksOf(chain(p))) = Len(chain(p))
               /\ used(p) = Len(chain(p))
    <3> DEFINE i == path_index[p]
               s == chain(p)
    <3>1. i \in Live(meta)
      BY <2>1
    <3>2. s \in ChainOfEntry(i) /\ \A t \in ChainOfEntry(i) : t = s
      <4>1. \E t : t \in ChainOfEntry(i)
        BY <2>1, <3>1, OwnChain
      <4>2. s \in ChainOfEntry(i)
        BY <4>1, Zenon
      <4> QED
        BY <2>1, <3>1, <4>2, OwnChain
    <3> HIDE DEF s
    <3>3. s \in BlockSeq
      BY <3>2 DEF ChainOfEntry, Chains
    <3>4. Len(s) \in 0 .. NB
      BY <3>3, SizesAssumption DEF BlockSeq
    <3>5. /\ s \in Seq(BlockIndex) /\ Len(s) \in Nat /\ DOMAIN s = 1 .. Len(s)
          /\ s \in [1 .. Len(s) -> BlocksOf(s)]
          /\ \A x \in BlocksOf(s) : \E k \in 1 .. Len(s) : s[k] = x
          /\ \A k, l \in 1 .. Len(s) : s[k] = s[l] => k = l
          /\ BlocksOf(s) \in SUBSET BlockIndex
      BY <3>3, BlockSeqType DEF BlocksOf
    <3>6. Cardinality(BlocksOf(s)) = Len(s)
      BY <3>5, DistinctCount
    <3>7. used(p) = Len(s)
      <4>1. Found(p) = {i}
        BY AnswersAre
      <4>2. get_metadata(p) = {[entry |-> FileEntry(i), blocks_used |-> Len(t)] : t \in ChainOfEntry(i)}
        BY <4>1 DEF get_metadata
      <4>3. ChainOfEntry(i) = {s}
        BY <3>2
      <4>4. get_metadata(p) = {[entry |-> FileEntry(i), blocks_used |-> Len(s)]}
        BY <4>2, <4>3
      <4>5. \A k : (\E m \in get_metadata(p) : m.blocks_used = k) <=> k = Len(s)
        BY <4>4
      <4> QED
        BY <3>4, <4>5
    <3> QED
      BY <3>2, <3>4, <3>5, <3>6, <3>7 DEF s
  <2>5. /\ n \in [D -> Nat] /\ B \in [D -> SUBSET BlockIndex]
        /\ \A p \in D : Cardinality(B[p]) = n[p] /\ used(p) = n[p] /\ B[p] = BlocksOf(chain(p))
    <3> HIDE DEF chain, used
    <3> QED
      BY <2>4, SizesAssumption
  <2>6. \A p, q \in D : p # q => B[p] \cap B[q] = {}
    <3> SUFFICES ASSUME NEW p \in D, NEW q \in D, p # q PROVE B[p] \cap B[q] = {}
      OBVIOUS
    <3>1. /\ path_index[p] \in Live(meta) /\ path_index[q] \in Live(meta)
          /\ path_index[p] # path_index[q]
      BY <2>1
    <3>2. BlocksOwnedOnce
      BY <2>1, InvOwnedOnce
    <3> HIDE DEF chain
    <3> QED
      BY <2>4, <2>5, <3>1, <3>2 DEF BlocksOwnedOnce
  <2>7. free_bitmap = UNION {B[p] : p \in D}
    <3>1. ASSUME NEW b \in free_bitmap PROVE \E p \in D : b \in B[p]
      <4>1. PICK i \in Live(meta) : \E s \in Chains(blocks, meta[i].start_index) : b \in BlocksOf(s)
        BY <2>1, <3>1 DEF Shape, Accounted, Covered
      <4>2. PICK p \in D : path_index[p] = i
        BY <2>1
      <4> HIDE DEF chain
      <4> QED
        BY <2>4, <2>5, <4>1, <4>2 DEF ChainOfEntry
    <3>2. ASSUME NEW p \in D PROVE B[p] \subseteq free_bitmap
      <4>1. BlocksOwnedOnce
        BY <2>1, InvOwnedOnce
      <4> HIDE DEF chain
      <4> QED
        BY <2>1, <2>4, <2>5, <3>2, <4>1 DEF BlocksOwnedOnce
    <3> HIDE DEF B, D
    <3> QED
      BY <3>1, <3>2
  <2> DEFINE sum == MapThenSumSet(used, D)
             added == CHOOSE f : f = [s \in SUBSET D |-> IF s = {} THEN 0
                          ELSE used(CHOOSE x \in s : TRUE) + f[s \ {CHOOSE x \in s : TRUE}]]
  <2> HIDE DEF used, n, B
  <2>8. sum = added[D]
    BY Zenon DEF MapThenSumSet, MapThenFoldSet
  <2>9. \A f : Adds(D, n, f) <=> f = [s \in SUBSET D |-> IF s = {} THEN 0
                          ELSE used(CHOOSE x \in s : TRUE) + f[s \ {CHOOSE x \in s : TRUE}]]
    <3>1. \A s \in SUBSET D : s # {} => used(CHOOSE x \in s : TRUE) = n[CHOOSE x \in s : TRUE]
      BY <2>5
    <3> HIDE DEF D
    <3> QED
      BY <3>1 DEF Adds
  <2>10. /\ \E f : Adds(D, n, f)
         /\ \A f : Adds(D, n, f) => f[D] = Cardinality(UNION {B[x] : x \in D})
    <3> HIDE DEF D
    <3> QED
      BY <2>2, <2>5, <2>6, SumOfParts
  <2>11. Adds(D, n, added)
    <3> DEFINE turn(f) == [s \in SUBSET D |-> IF s = {} THEN 0
                          ELSE used(CHOOSE x \in s : TRUE) + f[s \ {CHOOSE x \in s : TRUE}]]
    <3>1. added = CHOOSE f : f = turn(f)
      OBVIOUS
    <3>2. \A f : Adds(D, n, f) <=> f = turn(f)
      BY <2>9
    <3> HIDE DEF turn, added
    <3>3. \E f : f = turn(f)
      BY <2>10, <3>2, Zenon
    <3>4. added = turn(added)
      BY <3>1, <3>3, Zenon
    <3> QED
      BY <3>2, <3>4, Zenon
  <2>12. sum = Cardinality(free_bitmap)
    <3> HIDE DEF added, sum
    <3> QED
      BY <2>7, <2>8, <2>10, <2>11, Zenon
  <2>13. get_stats.used_blocks = MapThenSumSet(used, DOMAIN path_index)
    BY <2>12 DEF get_stats
  <2> QED
    BY <2>3, <2>13, Zenon DEF StatsAddUp, used
<1> QED
  BY <1>1, TreeInvHolds, PTL

=============================================================================
