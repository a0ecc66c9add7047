------------------------- MODULE OFSConcurrent -------------------------
(*************************************************************************)
(* Calls of the core on several workers.  OFSServer::start runs four      *)
(* workers on one FSInstance and no lock guards it: file_create,          *)
(* file_delete and file_exists are cut into the steps between which other *)
(* workers may run.  Each worker has a client with one file of one block  *)
(* in the root directory, whose name only that client uses, so that on    *)
(* each path the calls come one after the other.  Every access to a       *)
(* structure is taken to be whole; what races inside std::vector and      *)
(* SimpleHashMap, the position of the shared fstream and the contents of  *)
(* blocks are left out.                                                   *)
(*************************************************************************)
EXTENDS Naturals

CONSTANTS
    Worker,  \* the worker threads, and the names of their clients' files
    NM,      \* free slots of the metadata table besides the root's
    NB,      \* blocks of the volume that are left for files
    None     \* no name

MetaIndex  == 1 .. NM
BlockIndex == 1 .. NB

VARIABLES
    meta,         \* inst->meta_entries: valid, name and first block
    free_bitmap,  \* inst->free_bitmap: the blocks whose bit is set
    path_index,   \* inst->path_index: file -> slot
    pc,           \* where the worker is in its call
    slot,         \* meta_index of the running call
    block,        \* the block the running call has seen to be free
    made          \* the files whose creation was reported and deletion not asked for

vars == <<meta, free_bitmap, path_index, pc, slot, block, made>>
core_vars == <<meta, free_bitmap, path_index>>

Lowest(S) == {x \in S : \A y \in S : x <= y}

Init ==
    /\ meta = [i \in MetaIndex |-> [valid |-> 1, name |-> None, start_index |-> 0]]
    /\ free_bitmap = {}
    /\ path_index = [n \in {} |-> 0]
    /\ pc = [w \in Worker |-> "idle"]
    /\ slot = [w \in Worker |-> 0]
    /\ block = [w \in Worker |-> 0]
    /\ made = {}

Goes(w, from, to) == pc[w] = from /\ pc' = [pc EXCEPT ![w] = to]

\* file_create: path_index.contains, then the scan of find_free_meta_index.
create_scan(w) ==
    /\ Goes(w, "idle", "scanned")
    /\ w \notin DOMAIN path_index
    /\ \E i \in Lowest({i \in MetaIndex : meta[i].valid = 1}) : slot' = [slot EXCEPT ![w] = i]
    /\ UNCHANGED <<core_vars, block, made>>

\* file_create: the slot found is marked and named.
create_mark(w) ==
    /\ Goes(w, "scanned", "marked")
    /\ meta' = [meta EXCEPT ![slot[w]].valid = 0, ![slot[w]].name = w]
    /\ UNCHANGED <<free_bitmap, path_index, slot, block, made>>

\* allocate_blocks: bitmap_get finds a bit that is not set ...
create_find_block(w) ==
    /\ Goes(w, "marked", "found")
    /\ \E b \in Lowest(BlockIndex \ free_bitmap) : block' = [block EXCEPT ![w] = b]
    /\ UNCHANGED <<core_vars, slot, made>>

\* ... and bitmap_set sets it.
create_take_block(w) ==
    /\ Goes(w, "found", "taken")
    /\ free_bitmap' = free_bitmap \cup {block[w]}
    /\ UNCHANGED <<meta, path_index, slot, block, made>>

\* No bit is free: the slot is given back and the call returns an error.
create_no_space(w) ==
    /\ Goes(w, "marked", "idle")
    /\ BlockIndex \subseteq free_bitmap
    /\ meta' = [meta EXCEPT ![slot[w]].valid = 1]
    /\ UNCHANGED <<free_bitmap, path_index, slot, block, made>>

\* file_create: start_index is set and the path indexed; the call returns success.
create_index(w) ==
    /\ Goes(w, "taken", "idle")
    /\ meta' = [meta EXCEPT ![slot[w]].start_index = block[w]]
    /\ path_index' = [n \in DOMAIN path_index \cup {w} |->
                        IF n = w THEN slot[w] ELSE path_index[n]]
    /\ made' = made \cup {w}
    /\ UNCHANGED <<free_bitmap, slot, block>>

\* file_delete: the lookup and the checks.
delete_lookup(w) ==
    /\ Goes(w, "idle", "deleting")
    /\ w \in DOMAIN path_index
    /\ meta[path_index[w]].valid = 0
    /\ slot' = [slot EXCEPT ![w] = path_index[w]]
    /\ made' = made \ {w}
    /\ UNCHANGED <<core_vars, block>>

\* file_delete: free_blocks.
delete_free_blocks(w) ==
    /\ Goes(w, "deleting", "freed")
    /\ free_bitmap' = free_bitmap \ {meta[slot[w]].start_index}
    /\ UNCHANGED <<meta, path_index, slot, block, made>>

\* file_delete: the slot is marked free.
delete_unmark(w) ==
    /\ Goes(w, "freed", "unmarked")
    /\ meta' = [meta EXCEPT ![slot[w]].valid = 1, ![slot[w]].start_index = 0]
    /\ UNCHANGED <<free_bitmap, path_index, slot, block, made>>

\* rebuild_path_index: the index is cleared ...
delete_clear_index(w) ==
    /\ Goes(w, "unmarked", "cleared")
    /\ path_index' = [n \in {} |-> 0]
    /\ UNCHANGED <<meta, free_bitmap, slot, block, made>>

\* ... and filled from the table; of two slots of one name the higher is kept.
delete_fill_index(w) ==
    /\ Goes(w, "cleared", "idle")
    /\ LET of(n) == {i \in MetaIndex : meta[i].valid = 0 /\ meta[i].name = n}
           names == {n \in Worker : of(n) # {}}
       IN  path_index' = [n \in DOMAIN path_index \cup names |->
                            IF n \in names THEN CHOOSE i \in of(n) : \A j \in of(n) : j <= i
                            ELSE path_index[n]]
    /\ UNCHANGED <<meta, free_bitmap, slot, block, made>>

\* file_exists of the file of w; it changes nothing and so is no step.
file_exists(n) == n \in DOMAIN path_index /\ meta[path_index[n]].valid = 0

Next ==
    \E w \in Worker :
       \/ create_scan(w) \/ create_mark(w) \/ create_find_block(w) \/ create_take_block(w)
       \/ create_no_space(w) \/ create_index(w)
       \/ delete_lookup(w) \/ delete_free_blocks(w) \/ delete_unmark(w)
       \/ delete_clear_index(w) \/ delete_fill_index(w)

Spec == Init /\ [][Next]_vars

-----------------------------------------------------------------------------
\* What core/main checks after a creation ("file_exists after create"): a file
\* whose creation was reported and whose deletion nobody asked for is there.
\* Asked only when no call is running, when nothing is in flux.
CreatedStays ==
    (\A w \in Worker : pc[w] = "idle") => \A n \in made : file_exists(n)
==========================================================================
