-------------------------- MODULE OFSCoreTree --------------------------
(*************************************************************************)
(* OFSCore under clients that stay inside the limits the code does not    *)
(* check itself: paths in canonical spelling with names of 11 bytes at    *)
(* most, new files below directories only, no rename of a directory, no   *)
(* directory with more children than its one block holds, and a block    *)
(* left for a directory that lists its first child.  Within them the      *)
(* table, the bitmap, the blocks and the path index together are a tree.  *)
(*************************************************************************)
EXTENDS OFSCore

Canonical(p) == ~p.dbl /\ \A k \in DOMAIN p.toks : Trunc[p.toks[k]] = p.toks[k]

\* Directory d can list one more child after extra blocks were taken.
CanList(d, extra) ==
    /\ IsDir(d)
    /\ Cardinality(ListedIn(d)) < ChildSlots
    /\ meta[d].start_index # 0 \/ Cardinality(BlockIndex \ free_bitmap) > extra

\* The entry a parent path leads to can list one more child.
RoomUnder(path, extra) ==
    path \in DOMAIN path_index => CanList(path_index[path], extra)

CreateInside(p, size) ==
    /\ Canonical(p) /\ RoomUnder(ParentPath(p), BlocksFor(size))
    /\ file_create(p, size)
CreateNoSpaceInside(p, size) == Canonical(p) /\ file_create_no_space(p, size)
MakeDirInside(p) == Canonical(p) /\ RoomUnder(ParentPath(p), 0) /\ dir_create(p)
RenameInside(p, q) ==
    /\ Canonical(q) /\ RoomUnder(PrefixPath(q), 0)
    /\ p \in DOMAIN path_index /\ meta[path_index[p]].type = FILE
    /\ file_rename(p, q)

TreeNext ==
    \/ \E p \in ClientPath, size \in Size : CreateInside(p, size)
    \/ \E p \in ClientPath, size \in Size : CreateNoSpaceInside(p, size)
    \/ \E p \in ClientPath : file_delete(p)
    \/ \E p \in ClientPath, pos \in Size : file_edit(p, pos)
    \/ \E p \in ClientPath, size \in Size : file_truncate(p, size)
    \/ \E p \in ClientPath : MakeDirInside(p)
    \/ \E p \in ClientPath : dir_delete(p)
    \/ \E p, q \in ClientPath : RenameInside(p, q)

TreeSpec == Init /\ [][TreeNext]_vars

-----------------------------------------------------------------------------
(* Properties. *)

FullPath(i) == build_full_path_from_meta(meta, i)

\* Every block marked in the bitmap is in the chain of an entry in use: a long
\* sequence of creations, truncations and deletions loses no space.
NoBlockLeaked ==
    free_bitmap = UNION {UNION {BlocksOf(s) : s \in ChainOfEntry(i)} : i \in Live(meta)}

\* The table is a tree with the root on top: every other entry in use is
\* listed by a directory, its parent, and its path is its parent's path and
\* its name; so nothing is unreachable and no directory is below itself.
EveryEntryInTree ==
    \A i \in Live(meta) \ {Root} :
       LET d == meta[i].parent IN
       /\ d \in MetaIndex /\ IsDir(d) /\ i \in ListedIn(d)
       /\ FullPath(i).toks = Append(FullPath(d).toks, meta[i].name)

\* The path index is the tree read off the table, after the calls that insert
\* into it as after those that rebuild it: every entry in use is found by its
\* path, no two share one, and no path is left over.
IndexIsTree ==
    /\ DOMAIN path_index = {FullPath(i) : i \in Live(meta)}
    /\ \A i \in Live(meta) : path_index[FullPath(i)] = i

\* A file owns exactly the blocks its size needs, through any sequence of
\* truncations; a directory owns one block at most.
ChainFitsSize ==
    \A i \in Live(meta) : \A s \in ChainOfEntry(i) :
       IF meta[i].type = FILE THEN Len(s) = BlocksFor(meta[i].total_size) ELSE Len(s) <= 1

\* The calls implement the operations on a tree of names (OFSTree): the tree
\* is what the path index finds, a directory or a file with its size.
Tree == INSTANCE OFSTree WITH
          tree <- [t \in {p.toks : p \in DOMAIN path_index} |->
                     LET e == meta[path_index[[dbl |-> FALSE, toks |-> t]]]
                     IN  [dir |-> e.type = DIR, size |-> e.total_size]]
ImplementsTree == Tree!Spec
==========================================================================
