--------------------------- MODULE OFSQueries ---------------------------
(*************************************************************************)
(* The calls of the core that change nothing: dir_list, file_exists,      *)
(* dir_exists, get_metadata and get_stats (file_read is in OFSFileData).  *)
(* They read different structures: dir_list a directory's block, the      *)
(* others the path index, get_metadata the chain, get_stats the bitmap    *)
(* and the table.  A query is the set of its answers, empty for an error. *)
(*************************************************************************)
EXTENDS OFSCoreTree, FiniteSetsExt

\* What FileEntry carries of a metadata entry.
FileEntry(i) == [name |-> meta[i].name, type |-> meta[i].type, size |-> meta[i].total_size]

\* Faulty: an index is used for a position in the table.
dir_list_shifted(p) ==
    {[k \in DOMAIN c |-> FileEntry(IF c[k] < NM THEN c[k] + 1 ELSE c[k])] :
        c \in IF p \in DOMAIN path_index /\ meta[path_index[p]].type = DIR
              THEN dir_block_read(Volume, path_index[p]) ELSE {}}

\* The words of a directory's block that are slots in use, in their order.
InUse(c) ==
    LET kept[k \in 0 .. Len(c)] ==
          IF k = 0 THEN <<>>
          ELSE IF c[k] \in Live(meta) THEN Append(kept[k - 1], c[k]) ELSE kept[k - 1]
    IN  kept[Len(c)]

dir_list(p) ==
    {[k \in DOMAIN InUse(c) |-> FileEntry(InUse(c)[k])] :
        c \in IF p \in DOMAIN path_index /\ meta[path_index[p]].type = DIR
              THEN dir_block_read(Volume, path_index[p]) ELSE {}}

\* The entry a path leads to, when it is in use.
Found(p) == IF p \in DOMAIN path_index THEN {path_index[p]} \cap Live(meta) ELSE {}

file_exists(p) == \E i \in Found(p) : meta[i].type = FILE
dir_exists(p)  == \E i \in Found(p) : meta[i].type = DIR

get_metadata(p) ==
    UNION {{[entry |-> FileEntry(i), blocks_used |-> Len(s)] : s \in ChainOfEntry(i)} :
              i \in Found(p)}

\* Faulty: a slot counts whether it is in use or not.
get_stats_all_slots ==
    [used_blocks |-> Cardinality(free_bitmap),
     total_files |-> Cardinality({i \in MetaIndex : meta[i].type = FILE}),
     total_directories |-> Cardinality({i \in MetaIndex : meta[i].type = DIR})]

get_stats ==
    [used_blocks |-> Cardinality(free_bitmap),
     total_files |-> Cardinality({i \in Live(meta) : meta[i].type = FILE}),
     total_directories |-> Cardinality({i \in Live(meta) : meta[i].type = DIR})]

-----------------------------------------------------------------------------
(* Properties. *)

\* The paths a name can be appended to.
Below(p, n)   == [p EXCEPT !.toks = Append(@, n)]
KnownPaths    == {p \in DOMAIN path_index : ~p.dbl}
Lookup(p)     == {m.entry : m \in get_metadata(p)}

\* The queries agree on the tree, though each reads another structure: a
\* listing has no two entries of one name; each entry it shows is found under
\* the directory's path and its name, with the type and size get_metadata,
\* file_exists and dir_exists report there; and each entry found below a
\* directory's path is shown in its listing.
QueriesAgree ==
    \A p \in KnownPaths :
       /\ dir_exists(p) <=> dir_list(p) # {}
       /\ dir_exists(p) => ~file_exists(p)
       /\ \A shown \in dir_list(p) :
            /\ \A k, l \in DOMAIN shown : shown[k].name = shown[l].name => k = l
            /\ \A k \in DOMAIN shown :
                 LET q == Below(p, shown[k].name) IN
                 /\ Lookup(q) = {shown[k]}
                 /\ IF shown[k].type = DIR THEN dir_exists(q) ELSE file_exists(q)
            /\ \A n \in Name : \A e \in Lookup(Below(p, n)) :
                 \E k \in DOMAIN shown : shown[k] = e

\* The totals of get_stats are those of the tree: as many files and
\* directories as there are paths to find them by, and as many blocks in use
\* as the entries' blocks_used add up to.
StatsAddUp ==
    LET found(d) == {p \in DOMAIN path_index : IF d THEN dir_exists(p) ELSE file_exists(p)}
        used(p)  == CHOOSE n \in 0 .. NB : \E m \in get_metadata(p) : m.blocks_used = n
    IN  /\ get_stats.total_files = Cardinality(found(FALSE))
        /\ get_stats.total_directories = Cardinality(found(TRUE))
        /\ get_stats.used_blocks = MapThenSumSet(used, DOMAIN path_index)
==========================================================================
