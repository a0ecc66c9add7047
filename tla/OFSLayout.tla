---------------------------- MODULE OFSLayout ----------------------------
(*************************************************************************)
(* The arithmetic of the image (core/ofs_core.cpp): how fs_format divides *)
(* total_size into header, user table, metadata table, bitmap and blocks, *)
(* and what fs_init makes of the header it finds.  The bitmap needs room  *)
(* that depends on the number of blocks, the number of blocks on the room *)
(* the bitmap leaves: fs_format iterates until both stand still.  Sizes   *)
(* are unsigned; differences wrap at Wide, stored offsets at Narrow.      *)
(*************************************************************************)
EXTENDS Integers

CONSTANTS
    Config,      \* the configurations SimpleConfig::load can return
    Wide,        \* values of uint64_t
    Narrow,      \* values of uint32_t
    HeaderBytes, \* sizeof(OMNIHeader)
    UserBytes,   \* sizeof(UserInfo)
    EntryBytes,  \* sizeof(MetaEntry)
    Memory       \* the largest table or bitmap the process can allocate

SimpleConfig == [total_size : 0 .. Wide - 1, header_size : 0 .. Wide - 1,
                 block_size : 0 .. Wide - 1, max_users : 0 .. Narrow - 1,
                 max_files : 1 .. Narrow - 1]

ASSUME LayoutAssumption ==
    /\ Wide \in Nat \ {0} /\ Narrow \in Nat \ {0} /\ HeaderBytes \in Nat \ {0}
    /\ UserBytes \in Nat \ {0} /\ EntryBytes \in Nat \ {0} /\ Memory \in Nat
    /\ Config \subseteq SimpleConfig
    /\ \A c \in Config : c.max_users * UserBytes < Wide /\ c.max_files * EntryBytes < Wide

VARIABLES
    cfg,           \* the configuration
    pc,            \* where fs_format and fs_init are, or how they ended
    num_blocks,    \* fs_format: the blocks the image has room for
    bitmap_bytes,  \* fs_format: the bytes of their bitmap
    header,        \* the header in the image
    inst           \* what fs_init keeps of the layout

vars == <<cfg, pc, num_blocks, bitmap_bytes, header, inst>>

\* Unsigned subtraction.
Minus(a, b) == (a - b) % Wide

user_table_size == cfg.max_users * UserBytes
metadata_size   == cfg.max_files * EntryBytes

\* Faulty: an offset keeps its 64 bits.
StoredWide(offset) == offset
\* static_cast<uint32_t> of an offset.
Stored(offset) == offset % Narrow

\* What header and tables leave of total_size.
available_for_blocks ==
    Minus(Minus(Minus(cfg.total_size, cfg.header_size), user_table_size), metadata_size)

\* Faulty: one more byte than needed when nb is a multiple of 8.
BytesForRoundedUp(nb) == nb \div 8 + 1

\* The bytes of a bitmap of nb bits.
BytesFor(nb) == (nb + 7) \div 8

TableBytes == cfg.header_size + user_table_size + metadata_size

NoHeader == [user_table_offset |-> 0, metadata_offset |-> 0, bitmap_offset |-> 0]
NoInst   == [max_files |-> 0, num_blocks |-> 0, bitmap_bytes |-> 0, blocks_offset |-> 0]

Init ==
    /\ cfg \in Config /\ pc = "format"
    /\ num_blocks = 0 /\ bitmap_bytes = 0
    /\ header = NoHeader /\ inst = NoInst

\* fs_format: the checks it answers with ERROR_INVALID_CONFIG.
Rejected ==
    \/ cfg.header_size < HeaderBytes
    \/ cfg.block_size < 128
    \/ cfg.total_size <= cfg.header_size
    \/ available_for_blocks < cfg.block_size

reject ==
    /\ pc = "format" /\ Rejected
    /\ pc' = "rejected"
    /\ UNCHANGED <<cfg, num_blocks, bitmap_bytes, header, inst>>

\* fs_format up to its loop: no room is taken off for the bitmap yet.
first_guess ==
    /\ pc = "format" /\ ~Rejected
    /\ pc' = "loop"
    /\ num_blocks' = available_for_blocks \div cfg.block_size
    /\ bitmap_bytes' = BytesFor(num_blocks')
    /\ UNCHANGED <<cfg, header, inst>>

\* Faulty: the bitmap's bytes are not taken off.
blocks_beside_nothing(bytes) == available_for_blocks \div cfg.block_size

\* nb: the blocks there is room for beside a bitmap of so many bytes.
blocks_beside(bytes) == Minus(available_for_blocks, bytes) \div cfg.block_size

\* Faulty for what is claimed of the loop below: it also stops when the bitmap
\* at hand is larger than needed.
StandsStillOrFits(nb) == BytesFor(nb) <= bitmap_bytes

\* The condition of the break.
StandsStill(nb) == BytesFor(nb) = bitmap_bytes /\ nb = num_blocks

\* One turn of fs_format's while (true).
settle ==
    /\ pc = "loop"
    /\ LET nb == blocks_beside(bitmap_bytes) IN
       IF StandsStill(nb)
       THEN /\ pc' = "settled"
            /\ UNCHANGED <<num_blocks, bitmap_bytes>>
       ELSE /\ num_blocks' = nb /\ bitmap_bytes' = BytesFor(nb)
            /\ UNCHANGED pc
    /\ UNCHANGED <<cfg, header, inst>>

\* fs_format after its loop: header, tables and bitmap are written.  A table or
\* bitmap too large to allocate ends the process with bad_alloc.
write_image ==
    /\ pc = "settled"
    /\ IF num_blocks = 0 THEN pc' = "rejected" /\ UNCHANGED header
       ELSE IF user_table_size > Memory \/ metadata_size > Memory \/ bitmap_bytes > Memory
       THEN pc' = "terminated" /\ UNCHANGED header
       ELSE /\ pc' = "formatted"
            /\ header' = [user_table_offset |-> Stored(cfg.header_size),
                          metadata_offset |-> Stored(cfg.header_size + user_table_size),
                          bitmap_offset |-> Stored(TableBytes)]
    /\ UNCHANGED <<cfg, num_blocks, bitmap_bytes, inst>>

\* fs_init: the bytes between the two offsets of the header, and the entries
\* they make.
found_bytes == Minus(header.bitmap_offset, header.metadata_offset)
meta_count  == Stored(found_bytes \div EntryBytes)
found_size  == meta_count * EntryBytes

\* The bytes of the image file: total_size, or what fs_format wrote past it.
FileBytes ==
    LET written == (TableBytes % Wide) + bitmap_bytes
    IN  IF written > cfg.total_size THEN written ELSE cfg.total_size

\* tellg() at the end of the file: -1 once a read has failed, as that of a
\* metadata table that ends past the file.
file_end == IF header.metadata_offset + found_size > FileBytes THEN Wide - 1 ELSE FileBytes

\* The room for blocks: what header and tables leave of total_size, or, if that
\* is less than a block, what the file has behind the metadata table.
room_found == Minus(Minus(Minus(cfg.total_size, cfg.header_size), user_table_size), found_size)
candidate_content ==
    IF room_found >= cfg.block_size THEN room_found
    ELSE Minus(file_end, header.metadata_offset + found_size)

\* Faulty: the header is not taken off.
blocks_of_image_and_header ==
    Minus(Minus(cfg.total_size, user_table_size), found_size) \div cfg.block_size

\* fs_init counts the blocks anew, without the bitmap, and at least one.
blocks_of_image ==
    LET n == candidate_content \div cfg.block_size IN IF n = 0 THEN 1 ELSE n

\* fs_init on a formatted image.
fs_init ==
    /\ pc = "formatted"
    /\ IF found_bytes % EntryBytes # 0
       THEN pc' = "rejected" /\ UNCHANGED inst
       ELSE IF found_size > Memory \/ BytesFor(blocks_of_image) > Memory
       THEN pc' = "terminated" /\ UNCHANGED inst
       ELSE /\ pc' = "up"
            /\ inst' = [max_files |-> meta_count,
                        num_blocks |-> Stored(blocks_of_image),
                        bitmap_bytes |-> BytesFor(blocks_of_image),
                        blocks_offset |-> Stored(header.bitmap_offset + BytesFor(blocks_of_image))]
    /\ UNCHANGED <<cfg, num_blocks, bitmap_bytes, header>>

Next == reject \/ first_guess \/ settle \/ write_image \/ fs_init

Spec     == Init /\ [][Next]_vars
\* The calls run on.
FairSpec == Spec /\ WF_vars(Next)

-----------------------------------------------------------------------------
(* Properties. *)

\* Type invariant: what the header and the instance keep fits 32 bits.
TypeOK ==
    /\ cfg \in Config
    /\ pc \in {"format", "loop", "settled", "formatted", "up", "rejected", "terminated"}
    /\ num_blocks \in Nat /\ bitmap_bytes \in Nat
    /\ header \in [user_table_offset : 0 .. Narrow - 1, metadata_offset : 0 .. Narrow - 1,
                   bitmap_offset : 0 .. Narrow - 1]
    /\ inst \in [max_files : 0 .. Narrow - 1, num_blocks : 0 .. Narrow - 1, bitmap_bytes : Nat,
                 blocks_offset : 0 .. Narrow - 1]

\* A configuration whose header and tables fit its image, which no check asks.
TablesFit == TableBytes <= cfg.total_size

\* What the loop of fs_format computes: header, tables, bitmap and the blocks it
\* counted fit into total_size, whatever the sizes, and the bitmap has a bit
\* for every block.
FormatFits ==
    pc \in {"settled", "formatted", "up"} /\ TablesFit =>
       /\ TableBytes + bitmap_bytes + num_blocks * cfg.block_size <= cfg.total_size
       /\ num_blocks <= 8 * bitmap_bytes

\* What fs_init makes of a formatted image: it finds the tables fs_format wrote,
\* and it counts no fewer blocks than fs_format and so few more that its
\* region ends past total_size by at most its bitmap.  (It does end past it: by
\* 190 bytes with the values of default.uconf.)
ReopenOverruns ==
    pc = "up" /\ TablesFit /\ cfg.total_size < Narrow =>
       /\ inst.max_files = cfg.max_files
       /\ inst.num_blocks >= num_blocks
       /\ inst.blocks_offset + inst.num_blocks * cfg.block_size
             <= cfg.total_size + inst.bitmap_bytes

\* The sizes between which the loop swings for ever: with k bytes of bitmap there
\* is room for exactly one block more than k bytes have bits for.
Swings == \E k \in 0 .. BytesFor(available_for_blocks \div cfg.block_size) :
             available_for_blocks = (8 * k + 1) * cfg.block_size + k

\* fs_format never returns for the sizes Swings describes, each less than a
\* block from sizes that are fine.
SwingsForEver == ~Rejected /\ Swings => pc \in {"format", "loop"}

\* For all other sizes its loop ends.
FormatEnds == pc = "loop" /\ ~Swings ~> pc # "loop"
==========================================================================
