--------------------------- MODULE OFSLayoutMC ---------------------------
(* OFSLayout with the sizes of the code: default.uconf, an image one of    *)
(* whose neighbours fs_format does not settle, images too small for their  *)
(* tables, with a header past 32 bits or with tables that cross them, and  *)
(* every total size of a range of small images.                            *)
EXTENDS OFSLayout

Sizes(total, hdr, blk, users, files) ==
    [total_size |-> total, header_size |-> hdr, block_size |-> blk,
     max_users |-> users, max_files |-> files]

Default(total) == Sizes(total, 512, 4096, 50, 1000)
Small(total)   == Sizes(total, 512, 128, 1, 2)

MCConfig ==
    {Default(t) : t \in {104857600, 104845500, 104845501, 104845502, 78000, 500}}
    \cup {Small(t) : t \in 782 .. 3400}
    \cup {Sizes(100000, 100, 4096, 1, 2), Sizes(100000, 512, 64, 1, 2),
          Sizes(300000000, 268436000, 4096, 1, 2), Sizes(300000000, 268435250, 4096, 1, 2)}
==========================================================================
