---------------------------- MODULE OFSCore ----------------------------
(*************************************************************************)
(* The in-memory core of the OMNI file system (core/ofs_core.cpp): the   *)
(* metadata table, the block bitmap, the block region and the path       *)
(* index, and every API call that changes them.  One action is one whole *)
(* call.  A call that returns early with an error and changes nothing is *)
(* no step; a failing call that leaves a trace is an action of its own.  *)
(* What each call writes to the image file besides the block region is   *)
(* the subject of OFSPersist; bytes inside a file, of OFSFileData.       *)
(*************************************************************************)
EXTENDS Naturals, Sequences, FiniteSets

CONSTANTS
    NM,            \* max_files: slots of the metadata table; slot 1 is the root
    NB,            \* num_blocks: blocks of the block region
    BlockPayload,  \* block_size - 4: bytes a block holds besides its next pointer
    Name,          \* the names clients use and the names the table can store
    Trunc,         \* MetaEntry::set_name: a name cut to the 11 bytes of name[12]
    ClientPath,    \* the path strings clients send
    Size,          \* the sizes and edit positions clients ask for
    Data           \* the nonzero 32-bit words client data puts into one block

FILE == 0
DIR  == 1

MetaIndex  == 1 .. NM
BlockIndex == 1 .. NB
Root       == 1

(* A path string is the list of its tokens and whether it is spelled with *)
(* one more leading slash than needed ("//f", what the user interface     *)
(* sends for a file of the root directory).  Map keys compare spellings;  *)
(* split_path_tokens drops the difference.                                *)
Path     == [dbl : BOOLEAN, toks : Seq(Name)]
RootPath == [dbl |-> FALSE, toks |-> <<>>]

ASSUME SizesAssumption == NM \in Nat \ {0} /\ NB \in Nat /\ BlockPayload \in Nat \ {0}
ASSUME TruncAssumption == Trunc \in [Name -> Name]
ASSUME ClientAssumption == ClientPath \subseteq Path /\ Size \subseteq Nat
ASSUME DataAssumption == Data \subseteq Seq(Nat \ {0})

VARIABLES
    meta,         \* inst->meta_entries
    free_bitmap,  \* inst->free_bitmap: the blocks whose bit is set (in use)
    blocks,       \* the block region: next pointer and nonzero payload words
    path_index    \* inst->path_index: path string -> metadata index

vars == <<meta, free_bitmap, blocks, path_index>>

-----------------------------------------------------------------------------
(* The metadata table.  valid is 0 for a slot in use and 1 for a free one. *)

MetaEntry == [valid : {0, 1}, type : {FILE, DIR}, parent : 0 .. NM,
              name : Name \cup {"", "root"}, start_index : 0 .. NB, total_size : Nat]

FreshEntry == [valid |-> 1, type |-> FILE, parent |-> 0, name |-> "",
               start_index |-> 0, total_size |-> 0]

\* The members of S no other member is below: the one a scan from below meets.
Lowest(S) == {x \in S : \A y \in S : x <= y}

\* find_free_meta_index: no element stands for the result 0.
find_free_meta_index(m) == Lowest({i \in MetaIndex : m[i].valid = 1})

-----------------------------------------------------------------------------
(* Blocks and chains. *)

Word  == Nat \ {0}
Block == [next : 0 .. NB, items : Seq(Word)]

\* Sequences of distinct blocks: a walk that met a block twice would not end.
BlockSeq == {s \in UNION {[1 .. n -> BlockIndex] : n \in 0 .. NB} :
               \A i, j \in DOMAIN s : s[i] = s[j] => i = j}

BlocksOf(s)  == {s[i] : i \in DOMAIN s}
FirstOf(s)   == IF Len(s) = 0 THEN 0 ELSE s[1]
NextIn(s, i) == IF i < Len(s) THEN s[i + 1] ELSE 0

\* get_block_chain: the walk along next pointers from start.
Chains(blk, start) ==
    {s \in BlockSeq : /\ FirstOf(s) = start
                      /\ \A i \in DOMAIN s : blk[s[i]].next = NextIn(s, i)}

\* Faulty: the bitmap is not looked at.
allocate_any_blocks(used, n) ==
    {s \in BlockSeq : Len(s) = n /\ \A i \in DOMAIN s : s[i] = i}
\* Faulty: the loop stops one block early.
allocate_too_few(used, n) ==
    {s \in BlockSeq : /\ n > 0 => Len(s) = n - 1
                      /\ n = 0 => Len(s) = 0
                      /\ BlocksOf(s) \cap used = {}}

\* allocate_blocks: the n lowest free blocks, or no result when fewer are free.
allocate_blocks(used, n) ==
    {s \in BlockSeq :
        /\ Len(s) = n
        /\ BlocksOf(s) \cap used = {}
        /\ \A i \in DOMAIN s : \A b \in BlockIndex :
              b < s[i] => b \in used \/ \E j \in DOMAIN s : j < i /\ s[j] = b}

BlocksFor(size) == (size + BlockPayload - 1) \div BlockPayload

\* Faulty: no block links to the next.
WriteUnlinked(blk, s, data) ==
    [b \in BlockIndex |->
        IF b \in BlocksOf(s)
        THEN [next |-> 0, items |-> data[CHOOSE i \in DOMAIN s : s[i] = b]]
        ELSE blk[b]]

\* Faulty: the last block links back to the first.
WriteRing(blk, s, data) ==
    [b \in BlockIndex |->
        IF b \in BlocksOf(s)
        THEN LET i == CHOOSE i \in DOMAIN s : s[i] = b
             IN  [next |-> IF i < Len(s) THEN s[i + 1] ELSE s[1], items |-> data[i]]
        ELSE blk[b]]

\* The blocks of s written one after the other, each linked to the next.
WriteChain(blk, s, data) ==
    [b \in BlockIndex |->
        IF b \in BlocksOf(s)
        THEN LET i == CHOOSE i \in DOMAIN s : s[i] = b
             IN  [next |-> NextIn(s, i), items |-> data[i]]
        ELSE blk[b]]

-----------------------------------------------------------------------------
(* Directory blocks.  A volume is the table, the bitmap and the blocks; the *)
(* two helpers below map a volume to the result and the volume they leave. *)

Volume    == [meta |-> meta, free_bitmap |-> free_bitmap, blocks |-> blocks]
Becomes(v) == /\ meta' = v.meta
              /\ free_bitmap' = v.free_bitmap
              /\ blocks' = v.blocks

ChildSlots == BlockPayload \div 4

\* The nonzero payload words of a chain.  A directory has one block at most;
\* a longer chain is met when a client creates a file "below" a file.
Words(blk, s) ==
    IF Len(s) = 0 THEN <<>>
    ELSE IF Len(s) = 1 THEN blk[s[1]].items
    ELSE LET upTo[i \in 0 .. Len(s)] ==
               IF i = 0 THEN <<>> ELSE upTo[i - 1] \o blk[s[i]].items
         IN  upTo[Len(s)]

\* dir_block_read
dir_block_read(v, e) == {Words(v.blocks, s) : s \in Chains(v.blocks, v.meta[e].start_index)}

\* The rewrite of a directory's first block: no next block, and the children
\* that fit; the others are dropped without an error.
WithChildren(blk, b, children) ==
    [blk EXCEPT ![b] =
        [next |-> 0,
         items |-> SubSeq(children, 1,
                          IF Len(children) < ChildSlots THEN Len(children) ELSE ChildSlots)]]

\* dir_add_child: appends to the parent's block, allocating it when there is
\* none yet; fails only when no block is left for it.
dir_add_child(v, parent, child) ==
    LET start == v.meta[parent].start_index
        free  == BlockIndex \ v.free_bitmap
    IN  IF start # 0
        THEN {[ok |-> TRUE,
               vol |-> [v EXCEPT !.blocks = WithChildren(@, start, Append(children, child))]] :
                children \in dir_block_read(v, parent)}
        ELSE IF free = {}
        THEN {[ok |-> FALSE, vol |-> v]}
        ELSE {[ok |-> TRUE,
               vol |-> [meta |-> [v.meta EXCEPT ![parent].start_index = b],
                        free_bitmap |-> v.free_bitmap \cup {b},
                        blocks |-> WithChildren(v.blocks, b, <<child>>)]] :
                b \in Lowest(free)}

\* children.erase(find(child)): s without its first element equal to c.
EraseFirst(s, c) ==
    LET k == CHOOSE i \in DOMAIN s : s[i] = c /\ \A j \in 1 .. i - 1 : s[j] # c
    IN  SubSeq(s, 1, k - 1) \o SubSeq(s, k + 1, Len(s))

\* Faulty: the block is not written back.
dir_remove_child_unwritten(v, parent, child) ==
    {[ok |-> child \in {children[i] : i \in DOMAIN children}, vol |-> v] :
        children \in dir_block_read(v, parent)}

\* dir_remove_child: fails, changing nothing, when the child is not listed.
dir_remove_child(v, parent, child) ==
    LET start == v.meta[parent].start_index
    IN  {IF child \in {children[i] : i \in DOMAIN children}
         THEN [ok |-> TRUE,
               vol |-> [v EXCEPT !.blocks = WithChildren(@, start, EraseFirst(children, child))]]
         ELSE [ok |-> FALSE, vol |-> v] :
            children \in dir_block_read(v, parent)}

-----------------------------------------------------------------------------
(* Paths. *)

\* build_full_path_from_meta: names up the parent pointers, until the root, a
\* free slot or NM steps.
build_full_path_from_meta(m, i) ==
    LET up[steps \in 0 .. NM] ==
          [c \in 0 .. NM |->
             IF steps = 0 \/ c \in {0, Root} THEN <<>>
             ELSE IF m[c].valid = 1 THEN <<>>
             ELSE Append(up[steps - 1][m[c].parent], m[c].name)]
    IN  [dbl |-> FALSE, toks |-> up[NM][i]]

Live(m) == {i \in MetaIndex : m[i].valid = 0}

\* Faulty: slots that are free are not skipped.
rebuild_with_free_slots(m) ==
    LET path == [i \in MetaIndex |-> build_full_path_from_meta(m, i)]
    IN  [p \in {path[i] : i \in MetaIndex} |->
           CHOOSE i \in MetaIndex : /\ path[i] = p
                                    /\ \A j \in MetaIndex : path[j] = p => j <= i]

\* Faulty: positions in the table are entered where indices are meant.
rebuild_by_position(m) ==
    LET path == [i \in Live(m) |-> build_full_path_from_meta(m, i)]
    IN  [p \in {path[i] : i \in Live(m)} |->
           (CHOOSE i \in Live(m) : /\ path[i] = p
                                   /\ \A j \in Live(m) : path[j] = p => j <= i) - 1]

\* rebuild_path_index: entries are inserted by ascending index, so the highest
\* one keeps a path that several entries climb to.
rebuild_path_index(m) ==
    LET path == [i \in Live(m) |-> build_full_path_from_meta(m, i)]
    IN  [p \in {path[i] : i \in Live(m)} |->
           CHOOSE i \in Live(m) : /\ path[i] = p
                                  /\ \A j \in Live(m) : path[j] = p => j <= i]

\* The parent file_create and dir_create look up: the tokens but the last.
ParentPath(p) == [dbl |-> FALSE, toks |-> SubSeq(p.toks, 1, Len(p.toks) - 1)]
\* The parent file_rename looks up: the string up to the last slash.
PrefixPath(p) == IF Len(p.toks) = 1 THEN RootPath
                 ELSE [p EXCEPT !.toks = SubSeq(@, 1, Len(@) - 1)]
Basename(p)   == p.toks[Len(p.toks)]

-----------------------------------------------------------------------------
(* fs_format followed by fs_init. *)

Init ==
    /\ meta = [i \in MetaIndex |->
                 IF i = Root THEN [FreshEntry EXCEPT !.valid = 0, !.type = DIR, !.name = "root"]
                 ELSE FreshEntry]
    /\ free_bitmap = {}
    /\ blocks = [b \in BlockIndex |-> [next |-> 0, items |-> <<>>]]
    /\ path_index = [p \in {RootPath} |-> Root]

\* Faulty: an existing entry is not looked for.
MayCreateTwice(p) == p.toks # <<>> /\ ParentPath(p) \in DOMAIN path_index

\* The checks file_create and dir_create share: the parent is found by its
\* tokens, the existing entry by the exact string.
MayCreate(p) == /\ p.toks # <<>>
                /\ ParentPath(p) \in DOMAIN path_index
                /\ p \notin DOMAIN path_index

\* Faulty: every entry goes below the root.
NewEntryOfRoot(type, p, start, size) ==
    [valid |-> 0, type |-> type, parent |-> Root,
     name |-> Trunc[Basename(p)], start_index |-> start, total_size |-> size]

NewEntry(type, p, start, size) ==
    [valid |-> 0, type |-> type, parent |-> path_index[ParentPath(p)],
     name |-> Trunc[Basename(p)], start_index |-> start, total_size |-> size]

\* file_create.  The parent may be any entry, a file too; a failing
\* dir_add_child is ignored; the index gets the string the client sent.
file_create(p, size) ==
    /\ MayCreate(p)
    /\ \E i \in find_free_meta_index(meta) :
       \E s \in allocate_blocks(free_bitmap, BlocksFor(size)) :
       \E data \in [DOMAIN s -> Data] :
          LET written == [meta |-> [meta EXCEPT ![i] = NewEntry(FILE, p, FirstOf(s), size)],
                          free_bitmap |-> free_bitmap \cup BlocksOf(s),
                          blocks |-> WriteChain(blocks, s, data)]
          IN  /\ \E r \in dir_add_child(written, path_index[ParentPath(p)], i) : Becomes(r.vol)
              /\ path_index' = [q \in DOMAIN path_index \cup {p} |->
                                  IF q = p THEN i ELSE path_index[q]]

\* file_create without enough free blocks: the slot is marked free again but
\* keeps the fields just written to it.
file_create_no_space(p, size) ==
    /\ MayCreate(p)
    /\ allocate_blocks(free_bitmap, BlocksFor(size)) = {}
    /\ \E i \in find_free_meta_index(meta) :
          meta' = [meta EXCEPT ![i] = [NewEntry(FILE, p, @.start_index, size) EXCEPT !.valid = 1]]
    /\ UNCHANGED <<free_bitmap, blocks, path_index>>

\* file_delete.  The result of dir_remove_child is ignored.
file_delete(p) ==
    /\ p \in DOMAIN path_index
    /\ LET i == path_index[p] IN
       /\ meta[i].valid = 0 /\ meta[i].type = FILE
       /\ \E s \in Chains(blocks, meta[i].start_index) :
            LET freed == [Volume EXCEPT !.free_bitmap = @ \ BlocksOf(s)] IN
            \E r \in IF meta[i].parent \in MetaIndex
                     THEN dir_remove_child(freed, meta[i].parent, i)
                     ELSE {[ok |-> FALSE, vol |-> freed]} :
              /\ meta' = [r.vol.meta EXCEPT ![i].valid = 1, ![i].start_index = 0,
                                            ![i].total_size = 0]
              /\ free_bitmap' = r.vol.free_bitmap
              /\ blocks' = r.vol.blocks
              /\ path_index' = rebuild_path_index(meta')

\* file_edit at byte position pos: rewrites the block pos falls into, which
\* must exist, and leaves the size alone.
file_edit(p, pos) ==
    /\ p \in DOMAIN path_index
    /\ LET i == path_index[p] IN
       /\ meta[i].valid = 0 /\ meta[i].type = FILE
       /\ pos <= meta[i].total_size
       /\ \E s \in Chains(blocks, meta[i].start_index) :
            LET k == pos \div BlockPayload + 1 IN
            /\ k \in DOMAIN s
            /\ \E d \in Data : blocks' = [blocks EXCEPT ![s[k]].items = d]
    /\ UNCHANGED <<meta, free_bitmap, path_index>>

\* file_truncate: the same number of blocks, fewer, or more.
file_truncate(p, size) ==
    /\ p \in DOMAIN path_index
    /\ LET i == path_index[p]  need == BlocksFor(size) IN
       /\ meta[i].valid = 0 /\ meta[i].type = FILE
       /\ \E s \in Chains(blocks, meta[i].start_index) :
          \/ /\ need = Len(s)
             /\ meta' = [meta EXCEPT ![i].total_size = size]
             /\ UNCHANGED <<free_bitmap, blocks>>
          \/ /\ need < Len(s)
             /\ free_bitmap' = free_bitmap \ {s[k] : k \in need + 1 .. Len(s)}
             /\ IF need = 0
                THEN /\ meta' = [meta EXCEPT ![i].start_index = 0, ![i].total_size = size]
                     /\ UNCHANGED blocks
                ELSE /\ meta' = [meta EXCEPT ![i].total_size = size]
                     /\ blocks' = [blocks EXCEPT ![s[need]].next = 0]
          \/ /\ need > Len(s)
             /\ \E new \in allocate_blocks(free_bitmap, need - Len(s)) :
                  LET grown == WriteChain(blocks, new, [k \in DOMAIN new |-> <<>>]) IN
                  /\ free_bitmap' = free_bitmap \cup BlocksOf(new)
                  /\ IF Len(s) = 0
                     THEN /\ meta' = [meta EXCEPT ![i].start_index = new[1],
                                                  ![i].total_size = size]
                          /\ blocks' = grown
                     ELSE /\ meta' = [meta EXCEPT ![i].total_size = size]
                          /\ blocks' = [grown EXCEPT ![s[Len(s)]].next = new[1]]
    /\ UNCHANGED path_index

\* dir_create.  When the parent needs its first block and none is left the
\* slot is marked free again, with the fields just written.
dir_create(p) ==
    /\ MayCreate(p)
    /\ LET parent == path_index[ParentPath(p)] IN
       /\ meta[parent].type = DIR /\ meta[parent].valid = 0
       /\ \E i \in find_free_meta_index(meta) :
            LET written == [Volume EXCEPT !.meta[i] = NewEntry(DIR, p, 0, 0)] IN
            \E r \in dir_add_child(written, parent, i) :
              IF r.ok
              THEN /\ Becomes(r.vol)
                   /\ path_index' = rebuild_path_index(meta')
              ELSE /\ meta' = [r.vol.meta EXCEPT ![i].valid = 1]
                   /\ UNCHANGED <<free_bitmap, blocks, path_index>>

\* dir_delete: the directory's own block must list nothing and its parent's
\* block must list it.
dir_delete(p) ==
    /\ p # RootPath /\ p \in DOMAIN path_index
    /\ LET i == path_index[p] IN
       /\ meta[i].type = DIR
       /\ <<>> \in dir_block_read(Volume, i)
       /\ meta[i].parent \in MetaIndex
       /\ \E r \in dir_remove_child(Volume, meta[i].parent, i) :
            /\ r.ok
            /\ meta' = [r.vol.meta EXCEPT ![i].valid = 1, ![i].start_index = 0]
            /\ free_bitmap' = r.vol.free_bitmap \ {r.vol.meta[i].start_index}
            /\ blocks' = r.vol.blocks
            /\ path_index' = rebuild_path_index(meta')

\* The checks of file_rename, which takes files and directories alike.
MayRename(p, q) ==
    /\ p \in DOMAIN path_index /\ q \notin DOMAIN path_index
    /\ q.toks # <<>> /\ Trunc[Basename(q)] = Basename(q)
    /\ PrefixPath(q) \in DOMAIN path_index
    /\ LET i == path_index[p]  parent == path_index[PrefixPath(q)] IN
       /\ meta[i].valid = 0 /\ meta[i].parent \in MetaIndex
       /\ meta[parent].valid = 0 /\ meta[parent].type = DIR

\* The volume after the entry has left its old parent and has its new name.
Moved(p, q, r) ==
    [r.vol EXCEPT !.meta = [@ EXCEPT ![path_index[p]].name = Basename(q),
                                     ![path_index[p]].parent = path_index[PrefixPath(q)]]]

file_rename(p, q) ==
    /\ MayRename(p, q)
    /\ LET i == path_index[p] IN
       \E r \in dir_remove_child(Volume, meta[i].parent, i) :
         /\ r.ok
         /\ \E a \in dir_add_child(Moved(p, q, r), path_index[PrefixPath(q)], i) :
              /\ a.ok
              /\ Becomes(a.vol)
              /\ path_index' = rebuild_path_index(meta')

\* file_rename whose target directory needs a first block when none is left:
\* the entry goes back to its old parent, but keeps the new name, and the
\* path index keeps the old path.
file_rename_fails(p, q) ==
    /\ MayRename(p, q)
    /\ LET i == path_index[p] IN
       \E r \in dir_remove_child(Volume, meta[i].parent, i) :
         /\ r.ok
         /\ \E a \in dir_add_child(Moved(p, q, r), path_index[PrefixPath(q)], i) :
              /\ ~a.ok
              /\ \E back \in dir_add_child([a.vol EXCEPT !.meta[i].parent = meta[i].parent],
                                           meta[i].parent, i) :
                    Becomes(back.vol)
    /\ UNCHANGED path_index

Next ==
    \/ \E p \in ClientPath, size \in Size : file_create(p, size)
    \/ \E p \in ClientPath, size \in Size : file_create_no_space(p, size)
    \/ \E p \in ClientPath : file_delete(p)
    \/ \E p \in ClientPath, pos \in Size : file_edit(p, pos)
    \/ \E p \in ClientPath, size \in Size : file_truncate(p, size)
    \/ \E p \in ClientPath : dir_create(p)
    \/ \E p \in ClientPath : dir_delete(p)
    \/ \E p, q \in ClientPath : file_rename(p, q)
    \/ \E p, q \in ClientPath : file_rename_fails(p, q)

Spec == Init /\ [][Next]_vars

-----------------------------------------------------------------------------
(* Properties that hold whatever the clients send. *)

\* Type invariant: every field of every structure keeps its range; every path
\* index value is a metadata slot.
TypeOK ==
    /\ meta \in [MetaIndex -> MetaEntry]
    /\ free_bitmap \subseteq BlockIndex
    /\ blocks \in [BlockIndex -> Block]
    /\ path_index \in [DOMAIN path_index -> MetaIndex]

ChainOfEntry(i) == Chains(blocks, meta[i].start_index)

\* The block chains of two entries never share a block, and every block of a
\* chain is marked in the bitmap: what file_create, file_truncate and
\* dir_add_child allocate is nobody else's, and what file_delete,
\* file_truncate and dir_delete free belongs to the entry they were asked for.
BlocksOwnedOnce ==
    /\ \A i \in Live(meta) : \A s \in ChainOfEntry(i) : BlocksOf(s) \subseteq free_bitmap
    /\ \A i, j \in Live(meta) : i # j =>
          \A s \in ChainOfEntry(i), t \in ChainOfEntry(j) : BlocksOf(s) \cap BlocksOf(t) = {}

\* No chain loops: every walk of get_block_chain, dir_block_read and the
\* while loops of file_delete and file_read ends.
ChainsEnd == \A i \in Live(meta) : ChainOfEntry(i) # {}

\* The words in the block of a directory.
ListedIn(d) == UNION {{c[k] : k \in DOMAIN c} : c \in dir_block_read(Volume, d)}
IsDir(d)    == meta[d].valid = 0 /\ meta[d].type = DIR

\* Whatever a directory lists is an entry in use whose parent is that
\* directory, listed once: dir_list shows no entry twice and none that was
\* deleted, moved away, or created anew in a recycled slot elsewhere.
ChildrenMatchParents ==
    \A d \in MetaIndex : IsDir(d) =>
       \A c \in dir_block_read(Volume, d) : \A k \in DOMAIN c :
          /\ c[k] \in Live(meta) /\ meta[c[k]].parent = d
          /\ \A l \in DOMAIN c : c[l] = c[k] => l = k

\* The path index leads only to entries in use, and to each by one path: no
\* call through a path reaches a freed slot, and deleting or renaming an entry
\* through its path leaves no second path to it.
IndexedEntriesLive ==
    /\ \A p \in DOMAIN path_index : path_index[p] \in Live(meta)
    /\ \A p, q \in DOMAIN path_index : path_index[p] = path_index[q] => p = q

\* The root keeps its slot, its kind and its path through every call.
RootAlive ==
    /\ IsDir(Root) /\ meta[Root].parent = 0
    /\ RootPath \in DOMAIN path_index /\ path_index[RootPath] = Root

\* The inductive core of the properties above.  WellLinked: a block in use has
\* one predecessor at most, which is an entry or a block in use, so that chains
\* share nothing; a directory has one block; a free slot owns none.
WellLinked(m, used, blk) ==
    /\ \A i \in Live(m) : m[i].start_index # 0 => m[i].start_index \in used
    /\ \A b \in used : blk[b].next # 0 => blk[b].next \in used
    /\ \A i, j \in Live(m) : m[i].start_index = m[j].start_index /\ m[i].start_index # 0 => i = j
    /\ \A b, c \in used : blk[b].next = blk[c].next /\ blk[b].next # 0 => b = c
    /\ \A i \in Live(m), b \in used : m[i].start_index = blk[b].next => blk[b].next = 0
    /\ \A i \in Live(m) : m[i].type = DIR /\ m[i].start_index # 0
                         => blk[m[i].start_index].next = 0
    /\ \A i \in MetaIndex \ Live(m) : m[i].start_index = 0

\* A directory's block lists entries in use of that directory, each once.
ListsOwn(m, blk, d) ==
    LET items == blk[m[d].start_index].items
    IN  m[d].type = DIR /\ m[d].start_index # 0 =>
          \A k \in DOMAIN items :
             /\ items[k] \in Live(m) /\ m[items[k]].parent = d
             /\ \A l \in DOMAIN items : items[l] = items[k] => l = k

\* The invariant the proofs carry from step to step.
Inv == /\ TypeOK
       /\ WellLinked(meta, free_bitmap, blocks)
       /\ \A d \in Live(meta) : ListsOwn(meta, blocks, d)
       /\ IndexedEntriesLive
       /\ RootAlive

\* What core/main expects of dir_delete ("Attempting to delete non-empty /docs
\* (expected to fail)"): a directory stays while an entry in use is below it.
\* dir_delete looks at the directory's block only, so a child file_create could
\* not list does not count.
NonEmptyDirsStay ==
    [][ \A d \in MetaIndex : IsDir(d) /\ ~IsDir(d)' =>
           ~ \E i \in Live(meta) : meta[i].parent = d ]_vars
==========================================================================
