\* One file in two blocks of two bytes, which nobody edits.
SPECIFICATION NoEditSpec
CONSTANTS
    f1 = f1
    f2 = f2
    File = {f1}
    NB = 2
    BlockPayload = 2
    Byte = {0, 1}
    MaxSize = 3
PROPERTY ZeroFilled
CHECK_DEADLOCK TRUE
