-------------------------- MODULE OFSFileData --------------------------
(*************************************************************************)
(* The bytes of files in the block region (core/ofs_core.cpp): what the   *)
(* calls that write file data leave in the blocks and what file_read then *)
(* returns.  A file is known by its metadata slot; which paths lead to it *)
(* and how its blocks are linked is the subject of OFSCore, so a chain is *)
(* a sequence of blocks here.  The encoding map of every image fs_format  *)
(* writes is zero: encode_data and decode_data copy.                      *)
(*************************************************************************)
EXTENDS Naturals, Sequences, FiniteSets

CONSTANTS
    File,          \* the slots of the metadata table files use
    NB,            \* num_blocks
    BlockPayload,  \* block_size - 4: bytes of file data in a block
    Byte,          \* the values of a byte
    MaxSize        \* bound on the sizes, positions and data of requests

BlockIndex == 1 .. NB

ASSUME SizesAssumption == NB \in Nat /\ BlockPayload \in Nat \ {0} /\ MaxSize \in Nat
ASSUME ByteAssumption == 0 \in Byte /\ Byte \subseteq Nat

VARIABLES
    entry,        \* inst->meta_entries: valid, total_size and the chain of blocks
    free_bitmap,  \* inst->free_bitmap: the blocks whose bit is set (in use)
    payload       \* the block region: the payload bytes of every block

vars == <<entry, free_bitmap, payload>>

Free == [valid |-> 1, total_size |-> 0, chain |-> <<>>]
Entry(size, chain) == [valid |-> 0, total_size |-> size, chain |-> chain]

Request == UNION {[1 .. n -> Byte] : n \in 0 .. MaxSize}

Least(a, b) == IF a < b THEN a ELSE b
BlocksOf(s) == {s[i] : i \in DOMAIN s}

\* Faulty: the division rounds down.
full_blocks_for(size) == size \div BlockPayload
BlocksFor(size) == (size + BlockPayload - 1) \div BlockPayload

\* allocate_blocks: the n lowest free blocks, ascending; none when fewer are free.
allocate_blocks(n) ==
    {s \in [1 .. n -> BlockIndex \ free_bitmap] :
        /\ \A i, j \in 1 .. n : i < j => s[i] < s[j]
        /\ \A b \in BlockIndex \ free_bitmap : b \in BlocksOf(s) \/ \A i \in 1 .. n : s[i] < b}

\* The loop over write_block: data spread over the blocks of s, zeros after it.
write_blocks(s, data) ==
    [b \in BlockIndex |->
        IF b \in BlocksOf(s)
        THEN LET i == CHOOSE i \in DOMAIN s : s[i] = b
             IN  [k \in 1 .. BlockPayload |->
                    IF (i - 1) * BlockPayload + k \in DOMAIN data
                    THEN data[(i - 1) * BlockPayload + k] ELSE 0]
        ELSE payload[b]]

\* All bytes in the blocks of a file, in the order of its chain.
Bytes(f) ==
    [k \in 1 .. BlockPayload * Len(entry[f].chain) |->
        payload[entry[f].chain[(k - 1) \div BlockPayload + 1]][((k - 1) % BlockPayload) + 1]]

\* file_read: the loop ends after total_size bytes, or where the chain does.
file_read(f) == SubSeq(Bytes(f), 1, Least(entry[f].total_size, Len(Bytes(f))))

-----------------------------------------------------------------------------
Init ==
    /\ entry = [f \in File |-> Free]
    /\ free_bitmap = {}
    /\ payload = [b \in BlockIndex |-> [k \in 1 .. BlockPayload |-> 0]]

file_create(f, data) ==
    /\ entry[f].valid = 1
    /\ \E s \in allocate_blocks(BlocksFor(Len(data))) :
         /\ entry' = [entry EXCEPT ![f] = Entry(Len(data), s)]
         /\ free_bitmap' = free_bitmap \cup BlocksOf(s)
         /\ payload' = write_blocks(s, data)

file_delete(f) ==
    /\ entry[f].valid = 0
    /\ entry' = [entry EXCEPT ![f] = Free]
    /\ free_bitmap' = free_bitmap \ BlocksOf(entry[f].chain)
    /\ UNCHANGED payload

\* Faulty: the data is not cut at the end of the block.
edit_unclipped(f, data, index) ==
    /\ entry[f].valid = 0 /\ index <= entry[f].total_size
    /\ LET offset == index % BlockPayload
           n == index \div BlockPayload + 1
       IN  /\ n \in DOMAIN entry[f].chain
           /\ payload' = [payload EXCEPT ![entry[f].chain[n]] =
                [k \in 1 .. BlockPayload \cup 1 .. offset + Len(data) |->
                   IF k \in offset + 1 .. offset + Len(data) THEN data[k - offset] ELSE @[k]]]
    /\ UNCHANGED <<entry, free_bitmap>>

\* file_edit: the block index falls into must exist; the data is cut at its
\* end; total_size stays.
file_edit(f, data, index) ==
    /\ entry[f].valid = 0 /\ index <= entry[f].total_size
    /\ LET offset == index % BlockPayload
           write_len == Least(Len(data), BlockPayload - offset)
           n == index \div BlockPayload + 1
       IN  /\ n \in DOMAIN entry[f].chain
           /\ payload' = [payload EXCEPT ![entry[f].chain[n]] =
                [k \in 1 .. BlockPayload |->
                   IF k \in offset + 1 .. offset + write_len THEN data[k - offset] ELSE @[k]]]
    /\ UNCHANGED <<entry, free_bitmap>>

\* Faulty: blocks a file grows by are linked and marked, but not written.
grow_unwritten(f, size, new) ==
    /\ entry' = [entry EXCEPT ![f] = Entry(size, @.chain \o new)]
    /\ free_bitmap' = free_bitmap \cup BlocksOf(new)
    /\ UNCHANGED payload

\* file_truncate to more blocks: the new ones are written with zeros.
grow(f, size, new) ==
    /\ entry' = [entry EXCEPT ![f] = Entry(size, @.chain \o new)]
    /\ free_bitmap' = free_bitmap \cup BlocksOf(new)
    /\ payload' = write_blocks(new, <<>>)

\* file_truncate to fewer blocks, or to as many: no byte is written.
shrink(f, size) ==
    LET keep == SubSeq(entry[f].chain, 1, BlocksFor(size)) IN
    /\ entry' = [entry EXCEPT ![f] = Entry(size, keep)]
    /\ free_bitmap' = free_bitmap \ (BlocksOf(entry[f].chain) \ BlocksOf(keep))
    /\ UNCHANGED payload

file_truncate(f, size) ==
    /\ entry[f].valid = 0
    /\ LET missing == BlocksFor(size) - Len(entry[f].chain) IN
       \/ BlocksFor(size) <= Len(entry[f].chain) /\ shrink(f, size)
       \/ /\ BlocksFor(size) > Len(entry[f].chain)
          /\ \E new \in allocate_blocks(missing) : grow(f, size, new)

Next == \E f \in File :
          \/ \E data \in Request : file_create(f, data)
          \/ file_delete(f)
          \/ \E data \in Request, index \in 0 .. MaxSize : file_edit(f, data, index)
          \/ \E size \in 0 .. MaxSize : file_truncate(f, size)

Spec == Init /\ [][Next]_vars

-----------------------------------------------------------------------------
(* Properties. *)

\* Type invariant: tables, bitmap and blocks keep their shape.
TypeOK ==
    /\ entry \in [File -> [valid : {0, 1}, total_size : Nat, chain : Seq(BlockIndex)]]
    /\ free_bitmap \subseteq BlockIndex
    /\ payload \in [BlockIndex -> [1 .. BlockPayload -> Byte]]

\* Every read returns as many bytes as the file has, whatever truncations
\* freed and added blocks before; file_read would end early, without an
\* error, where a chain is too short.
ReadsWhole == \A f \in File : Len(file_read(f)) = entry[f].total_size

\* The calls on blocks implement the calls on byte sequences (OFSBytes): a call
\* on one file changes the bytes of no other, whatever blocks were freed and
\* taken again, and no growth of a file shows bytes that were another file's
\* or another life's of this one: zeros, or its own bytes that were cut off or
\* written behind its end.
Live  == {f \in File : entry[f].valid = 0}
Shown == [f \in File |-> file_read(f)]
Kept  == [f \in File |-> Bytes(f)]
Promise == INSTANCE OFSBytes WITH
             Size <- 0 .. MaxSize, files <- Live, shown <- Shown, kept <- Kept
ImplementsBytes == Promise!Spec

\* What core/main says of growing a file ("Expanding /docs/test.txt to 100 bytes
\* (zero-filled)"): the bytes a file grows by are zero.  A shrink within the last
\* block leaves the bytes it cuts off there, as an edit at the end of the file
\* leaves bytes behind it, and a growth within that block writes nothing.
ZeroFilled ==
    [][ \A f \in File : entry[f].valid = 0 /\ entry'[f].valid = 0 =>
          \A k \in entry[f].total_size + 1 .. entry'[f].total_size : file_read(f)'[k] = 0 ]_vars
==========================================================================
