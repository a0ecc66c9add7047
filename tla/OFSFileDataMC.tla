------------------------- MODULE OFSFileDataMC -------------------------
(* OFSFileData with two files that share a few blocks.                    *)
EXTENDS OFSFileData, TLC

CONSTANTS f1, f2

AnyFile == Permutations({f1, f2})

\* Clients that never edit a file: a byte that is not zero and that a growth
\* shows was in the file before a shrink.
NoEdit == \E f \in File :
             \/ \E data \in Request : file_create(f, data)
             \/ file_delete(f)
             \/ \E size \in 0 .. MaxSize : file_truncate(f, size)
NoEditSpec == Init /\ [][NoEdit]_vars
==========================================================================
