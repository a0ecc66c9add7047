\* 2629 configurations; 2^30 and 2^28 stand for the values of 64 and 32 bits.
CONSTANTS
    Config <- MCConfig
    Wide = 1073741824
    Narrow = 268435456
    HeaderBytes = 512
    UserBytes = 128
    EntryBytes = 72
    Memory = 100000
SPECIFICATION FairSpec
INVARIANTS TypeOK FormatFits ReopenOverruns SwingsForEver
PROPERTY FormatEnds
\* fs_format and fs_init return.
CHECK_DEADLOCK FALSE
