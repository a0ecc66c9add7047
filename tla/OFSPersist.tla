--------------------------- MODULE OFSPersist ---------------------------
(*************************************************************************)
(* What the calls of the core write to the image file and in which order, *)
(* and what fs_init finds there when the process ends (ofs_core.cpp,      *)
(* persist_*, fs_shutdown, fs_init).  A call of OFSCoreTree changes the   *)
(* memory at once, since nobody looks at it before the call returns, and  *)
(* leaves its writes in todo; they reach the image one by one.  Each is   *)
(* flushed by the code: what was written survives the process.            *)
(*************************************************************************)
EXTENDS OFSCoreTree

VARIABLES
    image,  \* the image file: table, bitmap and block region
    todo,   \* the writes of the running call that are still to come
    up      \* FALSE once the process has ended without fs_shutdown

image_vars   == <<image, todo, up>>
persist_vars == <<vars, image_vars>>

Write(region, at, value) == [region |-> region, at |-> at, value |-> value]

\* persist_meta_entries, persist_bitmap; the header holds nothing fs_init uses
\* to decide anything.
MetaWrite(m)      == <<Write("meta", 0, m)>>
BitmapWrite(used) == <<Write("free_bitmap", 0, used)>>
\* write_block and the link writes of file_truncate, for the blocks of s in turn.
BlockWrites(s)    == [i \in DOMAIN s |-> Write("blocks", s[i], blocks'[s[i]])]

Written(v, w) == CASE w.region = "meta"        -> [v EXCEPT !.meta = w.value]
                   [] w.region = "free_bitmap" -> [v EXCEPT !.free_bitmap = w.value]
                   [] w.region = "blocks"      -> [v EXCEPT !.blocks[w.at] = w.value]

-----------------------------------------------------------------------------
(* The writes of each call, from the state before it and the state it leaves. *)

\* Faulty: the table first; no bitmap.
create_writes_table_first(i, s) ==
    LET d == meta'[i].parent IN
    MetaWrite([meta' EXCEPT ![d].start_index = meta[d].start_index]) \o BlockWrites(s)
    \o BitmapWrite(free_bitmap \cup BlocksOf(s)) \o BlockWrites(<<meta'[d].start_index>>)
create_writes_no_bitmap(i, s) ==
    LET d == meta'[i].parent IN
    BlockWrites(s) \o MetaWrite([meta' EXCEPT ![d].start_index = meta[d].start_index])
    \o BlockWrites(<<meta'[d].start_index>>)

\* file_create of entry i with the blocks of s: table and bitmap are written
\* before dir_add_child, which may give the parent its first block.
create_writes(i, s) ==
    LET d == meta'[i].parent IN
    BlockWrites(s) \o MetaWrite([meta' EXCEPT ![d].start_index = meta[d].start_index])
    \o BitmapWrite(free_bitmap \cup BlocksOf(s)) \o BlockWrites(<<meta'[d].start_index>>)

\* file_delete of entry i.
delete_writes(i) == BlockWrites(<<meta[meta[i].parent].start_index>>)
                    \o MetaWrite(meta') \o BitmapWrite(free_bitmap')

\* file_edit of entry i: the block, then the table for its time of change.
edit_writes(i, pos) ==
    LET s == CHOOSE s \in Chains(blocks, meta[i].start_index) : TRUE
    IN  BlockWrites(<<s[pos \div BlockPayload + 1]>>) \o MetaWrite(meta')

\* Faulty: the bitmap only.
truncate_writes_no_table(i) ==
    IF free_bitmap' = free_bitmap THEN <<>> ELSE BitmapWrite(free_bitmap')

\* file_truncate of entry i: the link of the last block kept, then the blocks
\* that are new.
truncate_writes(i) ==
    LET old == CHOOSE s \in Chains(blocks, meta[i].start_index) : TRUE
        new == CHOOSE s \in Chains(blocks', meta'[i].start_index) : TRUE
        keep == IF Len(new) < Len(old) THEN Len(new) ELSE Len(old)
    IN  IF Len(new) = Len(old) THEN MetaWrite(meta')
        ELSE (IF keep = 0 THEN <<>> ELSE BlockWrites(<<new[keep]>>))
             \o BlockWrites(SubSeq(new, keep + 1, Len(new)))
             \o MetaWrite(meta') \o BitmapWrite(free_bitmap')

\* dir_create and dir_delete of entry i: no bitmap, whatever they allocate or free.
mkdir_writes(i) == BlockWrites(<<meta'[meta'[i].parent].start_index>>) \o MetaWrite(meta')
rmdir_writes(i) == BlockWrites(<<meta[meta[i].parent].start_index>>) \o MetaWrite(meta')

\* Faulty: the table is written when the name is new and the parent is not.
rename_writes_twice(i, q) ==
    MetaWrite([meta EXCEPT ![i].name = Basename(q)]) \o MetaWrite(meta')

\* file_rename of entry i: without it in the old parent's block, with it in the
\* new one's (the same block when the parent stays), and the table; no bitmap.
rename_writes(i, q) ==
    LET d == meta[i].parent
        r == CHOOSE r \in dir_remove_child(Volume, d, i) : TRUE
    IN  <<Write("blocks", meta[d].start_index, r.vol.blocks[meta[d].start_index])>>
        \o BlockWrites(<<meta'[meta'[i].parent].start_index>>) \o MetaWrite(meta')

-----------------------------------------------------------------------------
(* The process. *)

PersistInit == Init /\ image = Volume /\ todo = <<>> /\ up = TRUE

Idle == up /\ todo = <<>> /\ UNCHANGED <<image, up>>

create(p, size) ==
    /\ Idle /\ CreateInside(p, size)
    /\ \E s \in Chains(blocks', meta'[path_index'[p]].start_index) :
          todo' = create_writes(path_index'[p], s)
create_no_space(p, size) == Idle /\ CreateNoSpaceInside(p, size) /\ UNCHANGED todo
delete(p)   == Idle /\ file_delete(p) /\ todo' = delete_writes(path_index[p])
edit(p, pos) == Idle /\ file_edit(p, pos) /\ todo' = edit_writes(path_index[p], pos)
truncate(p, size) == Idle /\ file_truncate(p, size) /\ todo' = truncate_writes(path_index[p])
mkdir(p)    == Idle /\ MakeDirInside(p) /\ todo' = mkdir_writes(path_index'[p])
rmdir(p)    == Idle /\ dir_delete(p) /\ todo' = rmdir_writes(path_index[p])
rename(p, q) == Idle /\ RenameInside(p, q) /\ todo' = rename_writes(path_index[p], q)

\* The running call's next write reaches the image.
write == /\ up /\ todo # <<>>
         /\ image' = Written(image, Head(todo))
         /\ todo' = Tail(todo)
         /\ UNCHANGED <<vars, up>>

\* fs_init reads an image.
fs_init(v) == Becomes(v) /\ path_index' = rebuild_path_index(v.meta)

\* Faulty: the bitmap is not written.
shutdown_writes_no_bitmap == image' = [image EXCEPT !.meta = meta]

\* fs_shutdown writes table and bitmap before the next fs_init.
shutdown_writes == image' = [image EXCEPT !.meta = meta, !.free_bitmap = free_bitmap]
fs_shutdown == /\ up /\ todo = <<>>
               /\ shutdown_writes
               /\ fs_init(image')
               /\ UNCHANGED <<todo, up>>

\* The process ends anywhere, and fs_init reads what the image holds.  Calls on
\* what it found are left out: the state may then be outside OFSCore's.
crash == /\ up /\ up' = FALSE /\ todo' = <<>>
         /\ fs_init(image)
         /\ UNCHANGED image

PersistNext ==
    \/ \E p \in ClientPath, size \in Size : create(p, size)
    \/ \E p \in ClientPath, size \in Size : create_no_space(p, size)
    \/ \E p \in ClientPath : delete(p)
    \/ \E p \in ClientPath, pos \in Size : edit(p, pos)
    \/ \E p \in ClientPath, size \in Size : truncate(p, size)
    \/ \E p \in ClientPath : mkdir(p)
    \/ \E p \in ClientPath : rmdir(p)
    \/ \E p, q \in ClientPath : rename(p, q)
    \/ write
    \/ fs_shutdown
    \/ crash

PersistSpec == PersistInit /\ [][PersistNext]_persist_vars

-----------------------------------------------------------------------------
(* Properties. *)

FilesOf(m) == {i \in Live(m) : m[i].type = FILE}

\* The blocks file_read shows of a file of the image, at most as many as the
\* size needs; blocks behind them play no part.
ShownOf(v, i) ==
    LET walk[n \in 0 .. BlocksFor(v.meta[i].total_size)] ==
          IF n = 0 THEN <<>>
          ELSE LET before == walk[n - 1]
                   cur == IF n = 1 THEN v.meta[i].start_index
                          ELSE IF before = <<>> THEN 0 ELSE v.blocks[before[Len(before)]].next
               IN  IF cur = 0 THEN before ELSE Append(before, cur)
    IN  walk[BlocksFor(v.meta[i].total_size)]

\* The tree fs_init would find in the image.
ImageTree ==
    LET index == rebuild_path_index(image.meta)
    IN  [t \in {p.toks : p \in DOMAIN index} |->
           LET e == image.meta[index[[dbl |-> FALSE, toks |-> t]]]
           IN  [dir |-> e.type = DIR, size |-> e.total_size]]

\* The calls implement the tree of names (OFSTree) on the image as well: each
\* call takes effect in one write, and a process that ends at any moment leaves
\* the tree before the running call or the tree after it, nothing between.
\* (This is Durable!Spec: a step that leaves the image's table leaves its tree.)
Durable == INSTANCE OFSTree WITH tree <- ImageTree
DurableTree ==
    Durable!Init /\ [][image'.meta = image.meta \/ Durable!Next]_ImageTree

\* At whatever moment the process ends, no block is shown by two files of the
\* image, nor twice by one: a restart never shows one file's bytes in another.
NoFileShowsAnother ==
    \A i, j \in FilesOf(image.meta) :
       LET s == ShownOf(image, i)  t == ShownOf(image, j) IN
       \A k \in DOMAIN s, l \in DOMAIN t : s[k] = t[l] => i = j /\ k = l

\* Between two calls the bitmap of the image has every block a file shows: after
\* a crash no allocation takes a file's block.  (Of directories this is not so:
\* dir_create, dir_delete and file_rename write no bitmap, and file_create
\* writes it too early.)
FilesStayMarked ==
    up /\ todo = <<>> =>
       \A i \in FilesOf(image.meta) : \A s \in Chains(image.blocks, image.meta[i].start_index) :
          BlocksOf(s) \subseteq image.free_bitmap

\* What a call that has returned did to names and files survives a crash: fs_init
\* finds every path again, and every file whole.
CrashKeepsReturned ==
    [][ crash /\ todo = <<>> =>
          /\ path_index' = path_index
          /\ \A i \in FilesOf(meta) : /\ meta'[i] = meta[i]
                                      /\ \A s \in ChainOfEntry(i) : \A k \in DOMAIN s :
                                            blocks'[s[k]] = blocks[s[k]] ]_persist_vars

\* A restart after fs_shutdown changes nothing: what the calls did not write,
\* the bitmap of directories for one, fs_shutdown does.
CleanRestartKeeps == [][ fs_shutdown => vars' = vars ]_persist_vars
==========================================================================
