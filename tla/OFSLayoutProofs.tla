------------------------- MODULE OFSLayoutProofs -------------------------
(*************************************************************************)
(* What holds of OFSLayout for every configuration and every width: the   *)
(* parts fs_format computes fit into the image, and for some sizes its    *)
(* loop never ends.  That it ends for all others is liveness, left to TLC. *)
(*************************************************************************)
EXTENDS OFSLayout, TLAPS

-----------------------------------------------------------------------------
(* Arithmetic. *)

\* \div by a positive number rounds down.
LEMMA DivBounds ==
    ASSUME NEW a \in Nat, NEW b \in Nat \ {0}
    PROVE  /\ a \div b \in Nat
           /\ (a \div b) * b <= a
           /\ a < (a \div b) * b + b
BY Z3

\* % by a positive number stays below it ...
LEMMA ModBounds ==
    ASSUME NEW a \in Int, NEW b \in Nat \ {0}
    PROVE  a % b \in 0 .. b - 1
BY Z3

\* ... and leaves alone what is below it.
LEMMA ModId ==
    ASSUME NEW b \in Nat \ {0}, NEW a \in 0 .. b - 1
    PROVE  a % b = a
BY Z3

\* A product with a positive number is monotone, and its inverse is.
LEMMA Grows ==
    ASSUME NEW p \in Nat, NEW b \in Nat \ {0}
    PROVE  p <= p * b
BY Z3
LEMMA ProductBelow ==
    ASSUME NEW p \in Nat, NEW q \in Nat, NEW b \in Nat \ {0}, p * b < q * b
    PROVE  p < q
BY Z3

\* A bitmap of n bits takes n/8 bytes, rounded up.
LEMMA BytesForBounds ==
    ASSUME NEW n \in Nat
    PROVE  /\ BytesFor(n) \in Nat
           /\ n <= 8 * BytesFor(n) /\ 8 * BytesFor(n) <= n + 7
           /\ BytesFor(n) <= n
<1>1. (n + 7) \div 8 \in Nat /\ n <= 8 * ((n + 7) \div 8) /\ 8 * ((n + 7) \div 8) <= n + 7
  BY Z3
<1>2. QED
  BY <1>1 DEF BytesFor

\* Unsigned subtraction stays in range, and is exact when it does not wrap.
LEMMA MinusRange ==
    ASSUME NEW a \in Int, NEW b \in Int
    PROVE  Minus(a, b) \in 0 .. Wide - 1
BY LayoutAssumption, ModBounds DEF Minus
LEMMA MinusExact ==
    ASSUME NEW a \in 0 .. Wide - 1, NEW b \in Nat, b <= a
    PROVE  Minus(a, b) = a - b
<1>1. a - b \in 0 .. Wide - 1
  BY LayoutAssumption
<1>2. QED
  BY <1>1, ModId, LayoutAssumption DEF Minus

-----------------------------------------------------------------------------
(* The sizes of a configuration. *)

LEMMA ConfigSizes ==
    ASSUME cfg \in Config
    PROVE  /\ cfg.total_size \in 0 .. Wide - 1 /\ cfg.header_size \in 0 .. Wide - 1
           /\ cfg.block_size \in 0 .. Wide - 1
           /\ user_table_size \in 0 .. Wide - 1 /\ metadata_size \in 0 .. Wide - 1
           /\ TableBytes \in Nat
<1>1. cfg \in SimpleConfig /\ cfg.max_users * UserBytes < Wide
                           /\ cfg.max_files * EntryBytes < Wide
  BY LayoutAssumption
<1>2. /\ cfg.total_size \in 0 .. Wide - 1 /\ cfg.header_size \in 0 .. Wide - 1
      /\ cfg.block_size \in 0 .. Wide - 1
      /\ cfg.max_users \in Nat /\ cfg.max_files \in Nat
  BY <1>1, LayoutAssumption DEF SimpleConfig
<1>3. cfg.max_users * UserBytes \in Nat /\ cfg.max_files * EntryBytes \in Nat
  BY <1>2, LayoutAssumption
<1>4. QED
  BY <1>1, <1>2, <1>3, LayoutAssumption DEF user_table_size, metadata_size, TableBytes

LEMMA AvailableRange ==
    ASSUME cfg \in Config
    PROVE  available_for_blocks \in 0 .. Wide - 1
<1>1. /\ cfg.total_size \in Int /\ cfg.header_size \in Int
      /\ user_table_size \in Int /\ metadata_size \in Int
  BY ConfigSizes, LayoutAssumption
<1>2. \A a \in 0 .. Wide - 1 : a \in Int
  BY LayoutAssumption
<1>3. Minus(cfg.total_size, cfg.header_size) \in Int
  BY <1>1, <1>2, MinusRange
<1>4. Minus(Minus(cfg.total_size, cfg.header_size), user_table_size) \in Int
  BY <1>1, <1>2, <1>3, MinusRange
<1>5. QED
  BY <1>1, <1>4, MinusRange DEF available_for_blocks

\* Nothing wraps when the tables fit.
LEMMA AvailableExact ==
    ASSUME cfg \in Config, TablesFit
    PROVE  available_for_blocks = cfg.total_size - TableBytes
<1> DEFINE t == cfg.total_size  h == cfg.header_size
           u == user_table_size  m == metadata_size
<1>1. /\ t \in 0 .. Wide - 1 /\ h \in Nat /\ u \in Nat /\ m \in Nat
      /\ h + u + m <= t
  BY ConfigSizes, LayoutAssumption DEF TablesFit, TableBytes
<1>2. available_for_blocks = Minus(Minus(Minus(t, h), u), m) /\ TableBytes = h + u + m
  BY DEF available_for_blocks, TableBytes
<1> HIDE DEF t, h, u, m
<1>3. /\ t - h \in 0 .. Wide - 1 /\ t - h - u \in 0 .. Wide - 1
      /\ h <= t /\ u <= t - h /\ m <= t - h - u
  BY <1>1, LayoutAssumption
<1>4. Minus(t, h) = t - h
  BY <1>1, <1>3, MinusExact
<1>5. Minus(t - h, u) = t - h - u
  BY <1>1, <1>3, MinusExact
<1>6. Minus(t - h - u, m) = t - h - u - m
  BY <1>1, <1>3, MinusExact
<1>7. available_for_blocks = t - (h + u + m)
  BY <1>1, <1>2, <1>4, <1>5, <1>6, LayoutAssumption
<1>8. QED
  BY <1>2, <1>7 DEF t

LEMMA NotRejected ==
    ASSUME cfg \in Config, ~Rejected
    PROVE  cfg.block_size \in Nat \ {0}
BY ConfigSizes, LayoutAssumption DEF Rejected

\* What a turn of the loop counts: as many blocks as go beside the bitmap.
LEMMA BlocksBeside ==
    ASSUME cfg \in Config, ~Rejected, NEW b \in Nat, b <= available_for_blocks
    PROVE  LET nb == blocks_beside(b) IN
           /\ nb \in Nat
           /\ nb * cfg.block_size + b <= available_for_blocks
           /\ available_for_blocks < nb * cfg.block_size + cfg.block_size + b
           /\ BytesFor(nb) <= available_for_blocks
<1> DEFINE nb == blocks_beside(b)
<1>1. Minus(available_for_blocks, b) = available_for_blocks - b
  BY AvailableRange, MinusExact
<1>2. available_for_blocks - b \in Nat
  BY AvailableRange, LayoutAssumption
<1>3. /\ nb \in Nat /\ nb * cfg.block_size <= available_for_blocks - b
      /\ available_for_blocks - b < nb * cfg.block_size + cfg.block_size
  BY <1>1, <1>2, NotRejected, DivBounds DEF blocks_beside
<1>4. nb <= nb * cfg.block_size /\ nb * cfg.block_size \in Nat
  BY <1>3, NotRejected, Grows
<1>5. BytesFor(nb) \in Nat /\ BytesFor(nb) <= nb
  BY <1>3, BytesForBounds
<1> HIDE DEF nb
<1>6. /\ nb * cfg.block_size + b <= available_for_blocks
      /\ available_for_blocks < nb * cfg.block_size + cfg.block_size + b
      /\ BytesFor(nb) <= available_for_blocks
  BY <1>2, <1>3, <1>4, <1>5, AvailableRange, NotRejected, LayoutAssumption
<1>7. QED
  BY <1>3, <1>6 DEF nb

-----------------------------------------------------------------------------
(* The inductive invariant. *)

\* The bitmap of the loop never passes the room there is, so that its
\* subtraction does not wrap; and what the loop leaves stands still.
Settled ==
    /\ num_blocks = blocks_beside(bitmap_bytes)
    /\ BytesFor(num_blocks) = bitmap_bytes
LoopInv ==
    /\ pc \in {"loop", "settled", "formatted", "up"} =>
          ~Rejected /\ bitmap_bytes <= available_for_blocks
    /\ pc \in {"settled", "formatted", "up"} => Settled

LEMMA TypeInit == Init => TypeOK
<1> SUFFICES ASSUME Init PROVE TypeOK
  OBVIOUS
<1>1. 0 \in 0 .. Narrow - 1
  BY LayoutAssumption
<1>2. QED
  BY <1>1 DEF Init, TypeOK, NoHeader, NoInst

LEMMA StoredRange ==
    ASSUME NEW x \in Int
    PROVE  Stored(x) \in 0 .. Narrow - 1
BY ModBounds, LayoutAssumption DEF Stored

LEMMA FirstBlocks ==
    ASSUME cfg \in Config, ~Rejected
    PROVE  /\ available_for_blocks \div cfg.block_size = blocks_beside(0)
           /\ blocks_beside(0) \in Nat
           /\ BytesFor(blocks_beside(0)) \in Nat
           /\ BytesFor(blocks_beside(0)) <= available_for_blocks
<1>1. available_for_blocks \in 0 .. Wide - 1 /\ 0 \in Nat /\ 0 <= available_for_blocks
  BY AvailableRange, LayoutAssumption
<1>2. Minus(available_for_blocks, 0) = available_for_blocks - 0
  BY <1>1, MinusExact
<1>3. Minus(available_for_blocks, 0) = available_for_blocks
  BY <1>1, <1>2, LayoutAssumption
<1>4. QED
  BY <1>1, <1>3, BlocksBeside, BytesForBounds DEF blocks_beside

\* What fs_init finds, before it is looked at closely.
LEMMA FoundTypes ==
    ASSUME TypeOK
    PROVE  /\ meta_count \in 0 .. Narrow - 1
           /\ ~Rejected => blocks_of_image \in Nat
<1>1. /\ cfg \in Config /\ header.bitmap_offset \in Nat /\ header.metadata_offset \in Nat
      /\ bitmap_bytes \in Nat
  BY LayoutAssumption DEF TypeOK
<1>2. \A a, b \in Int : Minus(a, b) \in Nat /\ Minus(a, b) \in Int
  <2> SUFFICES ASSUME NEW a \in Int, NEW b \in Int
               PROVE  Minus(a, b) \in Nat /\ Minus(a, b) \in Int
    OBVIOUS
  <2>1. Minus(a, b) \in 0 .. Wide - 1
    BY MinusRange
  <2>2. QED
    BY <2>1, LayoutAssumption
<1>3. found_bytes \div EntryBytes \in Nat
  <2>1. found_bytes \in Nat
    <3>1. header.bitmap_offset \in Int /\ header.metadata_offset \in Int
      BY <1>1
    <3>2. QED
      BY <1>2, <3>1 DEF found_bytes
  <2>2. QED
    BY <2>1, DivBounds, LayoutAssumption
<1>4. meta_count \in 0 .. Narrow - 1
  BY <1>3, StoredRange DEF meta_count
<1>5. found_size \in Nat
  <2>1. meta_count \in Nat
    BY <1>4, LayoutAssumption
  <2>2. QED
    BY <2>1, LayoutAssumption DEF found_size
<1>6. /\ cfg.total_size \in Nat /\ cfg.header_size \in Nat /\ user_table_size \in Nat
      /\ TableBytes % Wide \in Nat
  BY <1>1, ConfigSizes, ModBounds, LayoutAssumption
<1>7. file_end \in Int
  <2>1. FileBytes \in Nat
    BY <1>1, <1>6 DEF FileBytes
  <2>2. QED
    BY <2>1, LayoutAssumption DEF file_end
<1>8. candidate_content \in Nat
  <2>1. Minus(Minus(Minus(cfg.total_size, cfg.header_size), user_table_size), found_size) \in Nat
    <3>1. /\ cfg.total_size \in Int /\ cfg.header_size \in Int
          /\ user_table_size \in Int /\ found_size \in Int
      BY <1>5, <1>6
    <3>2. Minus(cfg.total_size, cfg.header_size) \in Int
      BY <1>2, <3>1
    <3>3. Minus(Minus(cfg.total_size, cfg.header_size), user_table_size) \in Int
      BY <1>2, <3>1, <3>2
    <3>4. QED
      BY <1>2, <3>1, <3>3
  <2>2. Minus(file_end, header.metadata_offset + found_size) \in Nat
    <3>1. header.metadata_offset + found_size \in Int
      BY <1>1, <1>5
    <3>2. QED
      BY <1>2, <1>7, <3>1
  <2>3. QED
    BY <2>1, <2>2 DEF candidate_content, room_found
<1>9. ASSUME ~Rejected PROVE blocks_of_image \in Nat
  <2>1. candidate_content \div cfg.block_size \in Nat
    BY <1>1, <1>8, <1>9, NotRejected, DivBounds
  <2>2. QED
    BY <2>1 DEF blocks_of_image
<1>10. QED
  BY <1>4, <1>9

LEMMA StepInv ==
    ASSUME TypeOK, LoopInv, [Next]_vars
    PROVE  TypeOK' /\ LoopInv'
<1> USE DEF TypeOK
<1>1. CASE UNCHANGED vars
  BY <1>1 DEF vars, LoopInv, Settled, Rejected, available_for_blocks, blocks_beside,
              user_table_size, metadata_size
<1>c. ASSUME cfg' = cfg
      PROVE  /\ available_for_blocks' = available_for_blocks /\ (Rejected' <=> Rejected)
             /\ \A b : blocks_beside(b)' = blocks_beside(b)
  BY <1>c DEF Rejected, available_for_blocks, blocks_beside, user_table_size, metadata_size
<1>2. CASE reject
  BY <1>2 DEF reject, LoopInv
<1>3. CASE first_guess
  <2>1. cfg' = cfg /\ ~Rejected /\ pc' = "loop"
    BY <1>3 DEF first_guess
  <2>2. num_blocks' \in Nat /\ bitmap_bytes' \in Nat /\ bitmap_bytes' <= available_for_blocks
    BY <1>3, FirstBlocks DEF first_guess
  <2>3. LoopInv'
    BY <2>1, <2>2, <1>c DEF LoopInv
  <2>4. UNCHANGED <<header, inst>>
    BY <1>3 DEF first_guess
  <2>5. TypeOK'
    BY <2>1, <2>2, <2>4
  <2>6. QED
    BY <2>3, <2>5
<1>4. CASE settle
  <2> DEFINE nb == blocks_beside(bitmap_bytes)
  <2>1. pc = "loop" /\ cfg' = cfg /\ ~Rejected /\ bitmap_bytes <= available_for_blocks
    BY <1>4 DEF settle, LoopInv
  <2>0. UNCHANGED <<header, inst>>
    BY <1>4 DEF settle
  <2>2. nb \in Nat /\ BytesFor(nb) \in Nat /\ BytesFor(nb) <= available_for_blocks
    BY <2>1, BlocksBeside, BytesForBounds
  <2>3. CASE StandsStill(nb)
    <3>1. pc' = "settled" /\ num_blocks' = num_blocks /\ bitmap_bytes' = bitmap_bytes
      BY <1>4, <2>3 DEF settle
    <3>2. Settled
      BY <2>3 DEF StandsStill, Settled
    <3>3. Settled'
      BY <3>1, <3>2, <2>1, <1>c DEF Settled, BytesFor
    <3>4. LoopInv'
      BY <2>1, <3>1, <3>3, <1>c DEF LoopInv
    <3>5. TypeOK'
      BY <2>0, <2>1, <3>1
    <3>6. QED
      BY <3>4, <3>5
  <2>4. CASE ~StandsStill(nb)
    <3>1. pc' = "loop" /\ num_blocks' = nb /\ bitmap_bytes' = BytesFor(nb)
      BY <1>4, <2>4, <2>1 DEF settle
    <3>2. LoopInv'
      BY <2>1, <2>2, <3>1, <1>c DEF LoopInv
    <3>3. TypeOK'
      BY <2>0, <2>1, <2>2, <3>1
    <3>4. QED
      BY <3>2, <3>3
  <2>5. QED
    BY <2>3, <2>4
<1>5. CASE write_image
  <2>1. /\ UNCHANGED <<cfg, num_blocks, bitmap_bytes, inst>>
        /\ pc = "settled" /\ pc' \in {"rejected", "terminated", "formatted"}
    BY <1>5 DEF write_image
  <2>2. header' \in [user_table_offset : 0 .. Narrow - 1, metadata_offset : 0 .. Narrow - 1,
                     bitmap_offset : 0 .. Narrow - 1]
    <3>1. /\ Stored(cfg.header_size) \in 0 .. Narrow - 1
          /\ Stored(cfg.header_size + user_table_size) \in 0 .. Narrow - 1
          /\ Stored(TableBytes) \in 0 .. Narrow - 1
      BY ConfigSizes, StoredRange, LayoutAssumption
    <3>2. QED
      BY <1>5, <3>1 DEF write_image
  <2>3. LoopInv'
    BY <2>1, <1>c DEF LoopInv, Settled, BytesFor
  <2>4. TypeOK'
    BY <2>1, <2>2
  <2>5. QED
    BY <2>3, <2>4
<1>6. CASE fs_init
  <2>1. /\ UNCHANGED <<cfg, num_blocks, bitmap_bytes, header>>
        /\ pc = "formatted" /\ pc' \in {"rejected", "terminated", "up"}
    BY <1>6 DEF fs_init
  <2>2. inst' \in [max_files : 0 .. Narrow - 1, num_blocks : 0 .. Narrow - 1, bitmap_bytes : Nat,
                   blocks_offset : 0 .. Narrow - 1]
    <3>1. header.bitmap_offset \in Nat
      BY LayoutAssumption
    <3>2. ~Rejected
      BY <2>1 DEF LoopInv
    <3>3. meta_count \in 0 .. Narrow - 1
      BY FoundTypes
    <3>4. blocks_of_image \in Nat /\ BytesFor(blocks_of_image) \in Nat
      BY <3>2, FoundTypes, BytesForBounds
    <3>5. /\ Stored(blocks_of_image) \in 0 .. Narrow - 1
          /\ Stored(header.bitmap_offset + BytesFor(blocks_of_image)) \in 0 .. Narrow - 1
      BY <3>1, <3>4, StoredRange
    <3>6. QED
      BY <1>6, <3>3, <3>4, <3>5 DEF fs_init
  <2>3. LoopInv'
    BY <2>1, <1>c DEF LoopInv, Settled, BytesFor
  <2>4. TypeOK'
    BY <2>1, <2>2
  <2>5. QED
    BY <2>3, <2>4
<1>7. QED
  BY <1>1, <1>2, <1>3, <1>4, <1>5, <1>6 DEF Next

\* Whatever the configuration, the header and the instance keep their widths.
THEOREM TypeCorrect == Spec => []TypeOK
<1>1. Init => LoopInv
  BY DEF Init, LoopInv
<1>2. QED
  BY <1>1, TypeInit, StepInv, PTL DEF Spec

THEOREM LoopCorrect == Spec => [](TypeOK /\ LoopInv)
<1>1. Init => LoopInv
  BY DEF Init, LoopInv
<1>2. QED
  BY <1>1, TypeInit, StepInv, PTL DEF Spec

-----------------------------------------------------------------------------
\* Header, tables, bitmap and blocks fit into total_size for every configuration
\* whose tables do, and every block has its bit.
THEOREM FormatFitsCorrect == Spec => []FormatFits
<1>1. TypeOK /\ LoopInv => FormatFits
  <2> SUFFICES ASSUME TypeOK, LoopInv, pc \in {"settled", "formatted", "up"}, TablesFit
               PROVE  /\ TableBytes + bitmap_bytes + num_blocks * cfg.block_size
                           <= cfg.total_size
                      /\ num_blocks <= 8 * bitmap_bytes
    BY DEF FormatFits
  <2>1. cfg \in Config /\ num_blocks \in Nat /\ bitmap_bytes \in Nat
    BY DEF TypeOK
  <2>2. /\ ~Rejected /\ bitmap_bytes <= available_for_blocks
        /\ num_blocks = blocks_beside(bitmap_bytes) /\ BytesFor(num_blocks) = bitmap_bytes
    BY DEF LoopInv, Settled
  <2>3. num_blocks * cfg.block_size + bitmap_bytes <= available_for_blocks
    BY <2>1, <2>2, BlocksBeside
  <2>4. available_for_blocks = cfg.total_size - TableBytes
    BY <2>1, AvailableExact
  <2>5. num_blocks * cfg.block_size \in Nat
    BY <2>1, <2>2, NotRejected
  <2>6. num_blocks <= 8 * bitmap_bytes
    BY <2>1, <2>2, BytesForBounds
  <2>7. QED
    BY <2>1, <2>3, <2>4, <2>5, <2>6, ConfigSizes, LayoutAssumption
<1>2. QED
  BY <1>1, LoopCorrect, PTL

-----------------------------------------------------------------------------
(* What fs_init finds. *)

\* The header of a formatted image, and what fs_init derives from it.
HeaderInv ==
    /\ pc \in {"formatted", "up"} =>
          /\ header.metadata_offset = Stored(cfg.header_size + user_table_size)
          /\ header.bitmap_offset = Stored(TableBytes)
    /\ pc = "up" =>
          /\ inst.max_files = meta_count
          /\ inst.num_blocks = Stored(blocks_of_image)
          /\ inst.bitmap_bytes = BytesFor(blocks_of_image)
          /\ inst.blocks_offset = Stored(header.bitmap_offset + BytesFor(blocks_of_image))

LEMMA HeaderStep ==
    ASSUME HeaderInv, [Next]_vars
    PROVE  HeaderInv'
<1>c. /\ cfg' = cfg /\ user_table_size' = user_table_size /\ TableBytes' = TableBytes
  <2>1. cfg' = cfg
    BY DEF Next, vars, reject, first_guess, settle, write_image, fs_init
  <2>2. QED
    BY <2>1 DEF user_table_size, metadata_size, TableBytes
<1>f. ASSUME header' = header, bitmap_bytes' = bitmap_bytes
      PROVE  meta_count' = meta_count /\ blocks_of_image' = blocks_of_image
  <2>1. meta_count' = meta_count /\ found_size' = found_size
    BY <1>f DEF meta_count, found_bytes, found_size, Minus, Stored
  <2>2. file_end' = file_end
    BY <1>c, <1>f, <2>1 DEF file_end, FileBytes
  <2>3. candidate_content' = candidate_content
    BY <1>c, <1>f, <2>1, <2>2 DEF candidate_content, room_found, Minus
  <2>4. QED
    BY <1>c, <2>1, <2>3 DEF blocks_of_image
<1>1. CASE UNCHANGED vars
  BY <1>1, <1>c, <1>f DEF vars, HeaderInv, Stored, BytesFor
<1>2. CASE reject \/ first_guess \/ settle
  BY <1>2 DEF reject, first_guess, settle, HeaderInv
<1>3. CASE write_image
  BY <1>3, <1>c DEF write_image, HeaderInv, Stored
<1>4. CASE fs_init
  <2>1. header' = header /\ bitmap_bytes' = bitmap_bytes
    BY <1>4 DEF fs_init
  <2>2. QED
    BY <1>4, <1>c, <1>f, <2>1 DEF fs_init, HeaderInv, Stored, BytesFor
<1>5. QED
  BY <1>1, <1>2, <1>3, <1>4 DEF Next

\* A whole number of entries is that number of entries.
LEMMA WholeEntries ==
    ASSUME NEW n \in Nat
    PROVE  (n * EntryBytes) \div EntryBytes = n
BY Z3, LayoutAssumption

LEMMA StoredExact ==
    ASSUME NEW x \in 0 .. Narrow - 1
    PROVE  Stored(x) = x
BY ModId, LayoutAssumption DEF Stored

\* fs_init finds the metadata table of fs_format, counts at least its blocks, and
\* passes the end of the image by no more than the bytes of the bitmap.
THEOREM ReopenOverrunsCorrect == Spec => []ReopenOverruns
<1>1. Init => HeaderInv
  BY DEF Init, HeaderInv
<1>2. TypeOK /\ LoopInv /\ HeaderInv => ReopenOverruns
  <2> SUFFICES ASSUME TypeOK, LoopInv, HeaderInv,
                      pc = "up", TablesFit, cfg.total_size < Narrow
               PROVE  /\ inst.max_files = cfg.max_files
                      /\ inst.num_blocks >= num_blocks
                      /\ inst.blocks_offset + inst.num_blocks * cfg.block_size
                            <= cfg.total_size + inst.bitmap_bytes
    BY DEF ReopenOverruns
  <2> DEFINE t == cfg.total_size  bs == cfg.block_size  a == available_for_blocks
             n == blocks_of_image  b == BytesFor(n)  tab == TableBytes
             hu == cfg.header_size + user_table_size
  <2>1. cfg \in Config /\ num_blocks \in Nat /\ bitmap_bytes \in Nat /\ ~Rejected
    BY DEF TypeOK, LoopInv
  <2>2. /\ t \in Nat /\ t < Narrow /\ bs \in Nat \ {0} /\ tab \in Nat /\ tab <= t
        /\ a = t - tab
    BY <2>1, ConfigSizes, NotRejected, AvailableExact, LayoutAssumption DEF TablesFit
  <2>3. /\ hu \in Nat /\ metadata_size \in Nat /\ tab = hu + metadata_size
        /\ cfg.max_files \in 0 .. Narrow - 1 /\ metadata_size = cfg.max_files * EntryBytes
        /\ metadata_size \in 0 .. Wide - 1
    <3>1. cfg.max_files \in 0 .. Narrow - 1
      BY <2>1, LayoutAssumption DEF SimpleConfig
    <3>2. QED
      BY <2>1, <3>1, ConfigSizes, LayoutAssumption DEF TableBytes, metadata_size
  <2>4. /\ header.metadata_offset = Stored(hu) /\ header.bitmap_offset = Stored(tab)
        /\ inst.max_files = meta_count
        /\ inst.num_blocks = Stored(n) /\ inst.bitmap_bytes = b
        /\ inst.blocks_offset = Stored(header.bitmap_offset + b)
    BY DEF HeaderInv
  <2>5. t < Wide
    BY <2>1, ConfigSizes, LayoutAssumption
  <2>6. /\ header.metadata_offset = hu /\ header.bitmap_offset = tab
    <3> HIDE DEF t, hu, tab
    <3>1. hu \in 0 .. Narrow - 1 /\ tab \in 0 .. Narrow - 1
      BY <2>2, <2>3, LayoutAssumption
    <3>2. QED
      BY <2>4, <3>1, StoredExact
  <2>7. meta_count = cfg.max_files /\ found_size = metadata_size
    <3> HIDE DEF t, hu, tab
    <3>1. tab \in 0 .. Wide - 1 /\ hu <= tab /\ tab - hu = metadata_size
      BY <2>2, <2>3, <2>5, LayoutAssumption
    <3>2. found_bytes = metadata_size
      BY <3>1, <2>3, <2>6, MinusExact DEF found_bytes
    <3>3. found_bytes \div EntryBytes = cfg.max_files
      BY <3>2, <2>3, WholeEntries, LayoutAssumption
    <3>4. meta_count = cfg.max_files
      BY <3>3, <2>3, StoredExact DEF meta_count
    <3>5. QED
      BY <3>4, <2>3 DEF found_size
  <2>8. candidate_content = a /\ a >= bs
    <3>1. room_found = a
      BY <2>7 DEF room_found, available_for_blocks
    <3>2. ~(a < bs)
      BY <2>1 DEF Rejected
    <3>3. a \in Nat /\ bs \in Nat
      BY <2>2
    <3>4. QED
      BY <3>1, <3>2, <3>3 DEF candidate_content
  <2>9. /\ n \in Nat /\ n * bs <= a /\ a < n * bs + bs /\ n * bs \in Nat
    <3>1. a \in Nat
      BY <2>2
    <3> DEFINE q == a \div bs
    <3>2. q \in Nat /\ q * bs <= a /\ a < q * bs + bs
      BY <2>2, <3>1, DivBounds
    <3>3. n = IF q = 0 THEN 1 ELSE q
      BY <2>8 DEF blocks_of_image
    <3> HIDE DEF q, n, a, bs
    <3>4. q # 0
      BY <2>2, <2>8, <3>1, <3>2
    <3>5. QED
      BY <2>2, <3>2, <3>3, <3>4
  <2>10. /\ b \in Nat /\ b <= n /\ n <= n * bs
         /\ num_blocks * bs + bitmap_bytes <= a /\ num_blocks * bs \in Nat
    <3>1. num_blocks = blocks_beside(bitmap_bytes) /\ bitmap_bytes <= a
      BY DEF LoopInv, Settled
    <3>2. b \in Nat /\ b <= n /\ n <= n * bs
      BY <2>2, <2>9, BytesForBounds, Grows
    <3>3. QED
      BY <2>1, <2>2, <3>1, <3>2, BlocksBeside
  <2> HIDE DEF t, bs, a, n, b, tab, hu
  <2>11. inst.num_blocks = n /\ inst.blocks_offset = tab + b
    <3>1. n <= a /\ b <= a
      BY <2>2, <2>9, <2>10
    <3>2. tab + n <= t /\ tab + b <= t
      BY <2>2, <2>9, <2>10, <3>1
    <3>3. n \in 0 .. Narrow - 1 /\ tab + b \in 0 .. Narrow - 1
      BY <2>2, <2>9, <2>10, <3>2, LayoutAssumption
    <3>4. QED
      BY <2>4, <2>6, <3>3, StoredExact
  <2>12. num_blocks <= n
    <3>1. num_blocks * bs < (n + 1) * bs
      <4>1. (n + 1) * bs = n * bs + bs
        BY <2>2, <2>9
      <4>2. QED
        BY <4>1, <2>1, <2>2, <2>9, <2>10
    <3>2. num_blocks < n + 1
      BY <3>1, <2>1, <2>2, <2>9, ProductBelow
    <3>3. QED
      BY <3>2, <2>1, <2>9
  <2>13. (tab + b) + n * bs <= t + b
    BY <2>2, <2>9, <2>10
  <2>14. inst.blocks_offset + inst.num_blocks * bs <= t + inst.bitmap_bytes
    BY <2>4, <2>11, <2>13
  <2>15. inst.num_blocks >= num_blocks
    BY <2>1, <2>9, <2>11, <2>12
  <2>16. QED
    BY <2>4, <2>7, <2>14, <2>15 DEF t, bs
<1>3. QED
  BY <1>1, <1>2, HeaderStep, LoopCorrect, PTL DEF Spec

-----------------------------------------------------------------------------
\* The fixpoint the loop waits for does not exist: with k bytes or fewer the
\* blocks need more, with more than k bytes they need fewer.
LEMMA NoFixpoint ==
    ASSUME cfg \in Config, ~Rejected, Swings,
           NEW b \in Nat, b <= available_for_blocks
    PROVE  BytesFor(blocks_beside(b)) # b
<1> DEFINE nb == blocks_beside(b)
           bs == cfg.block_size
<1>1. PICK k \in Nat : available_for_blocks = (8 * k + 1) * bs + k
  <2>1. BytesFor(available_for_blocks \div bs) \in Nat
    BY FirstBlocks
  <2>2. QED
    BY <2>1 DEF Swings
<1>2. bs \in Nat \ {0}
  BY NotRejected
<1>3. /\ nb \in Nat /\ nb * bs + b <= available_for_blocks
      /\ available_for_blocks < nb * bs + bs + b
  BY BlocksBeside
<1>4. BytesFor(nb) \in Nat /\ nb <= 8 * BytesFor(nb) /\ 8 * BytesFor(nb) <= nb + 7
  BY <1>3, BytesForBounds
<1> HIDE DEF nb, bs
<1>5. nb * bs \in Nat /\ (8 * k + 1) * bs \in Nat /\ (nb + 1) * bs = nb * bs + bs
  BY <1>2, <1>3
<1>6. CASE b <= k
  <2>1. (8 * k + 1) * bs < (nb + 1) * bs
    BY <1>1, <1>2, <1>3, <1>5, <1>6
  <2>2. 8 * k + 1 < nb + 1
    BY <2>1, <1>2, <1>3, ProductBelow
  <2>3. QED
    BY <2>2, <1>3, <1>4, <1>6 DEF nb
<1>7. CASE k < b
  <2>1. nb * bs < (8 * k + 1) * bs
    BY <1>1, <1>2, <1>3, <1>5, <1>7
  <2>2. nb < 8 * k + 1
    BY <2>1, <1>2, <1>3, ProductBelow
  <2>3. QED
    BY <2>2, <1>3, <1>4, <1>7 DEF nb
<1>8. QED
  BY <1>6, <1>7

\* For these sizes fs_format never gets past its loop.
THEOREM SwingsForEverCorrect == Spec => []SwingsForEver
<1>1. Init => SwingsForEver
  BY DEF Init, SwingsForEver
<1>2. TypeOK /\ LoopInv /\ SwingsForEver /\ [Next]_vars => SwingsForEver'
  <2> SUFFICES ASSUME TypeOK, LoopInv, SwingsForEver, [Next]_vars, ~Rejected', Swings'
               PROVE  pc' \in {"format", "loop"}
    BY DEF SwingsForEver
  <2>1. cfg' = cfg
    BY DEF Next, vars, reject, first_guess, settle, write_image, fs_init
  <2>2. ~Rejected /\ Swings
    BY <2>1 DEF Rejected, Swings, available_for_blocks, user_table_size, metadata_size, BytesFor
  <2>3. pc \in {"format", "loop"}
    BY <2>2 DEF SwingsForEver
  <2>4. CASE UNCHANGED vars
    BY <2>3, <2>4 DEF vars
  <2>5. CASE reject
    BY <2>2, <2>5 DEF reject
  <2>6. CASE first_guess
    BY <2>6 DEF first_guess
  <2>7. CASE settle
    <3>1. cfg \in Config /\ bitmap_bytes \in Nat /\ bitmap_bytes <= available_for_blocks
      BY <2>7 DEF settle, LoopInv, TypeOK
    <3>2. ~StandsStill(blocks_beside(bitmap_bytes))
      BY <3>1, <2>2, NoFixpoint DEF StandsStill
    <3>3. QED
      BY <2>7, <3>2 DEF settle
  <2>8. CASE write_image
    BY <2>3, <2>8 DEF write_image
  <2>9. CASE fs_init
    BY <2>3, <2>9 DEF fs_init
  <2>10. QED
    BY <2>4, <2>5, <2>6, <2>7, <2>8, <2>9 DEF Next
<1>3. QED
  BY <1>1, <1>2, LoopCorrect, PTL DEF Spec
==========================================================================
