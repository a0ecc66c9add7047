\* Two files of up to two blocks share three blocks of two bytes.
SPECIFICATION Spec
CONSTANTS
    f1 = f1
    f2 = f2
    File = {f1, f2}
    NB = 3
    BlockPayload = 2
    Byte = {0, 1}
    MaxSize = 3
SYMMETRY AnyFile
INVARIANTS TypeOK 
PROPERTY ImplementsBytes
CHECK_DEADLOCK TRUE
