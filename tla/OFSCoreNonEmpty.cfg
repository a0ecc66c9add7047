\* Every directory block has room for all entries; the volume has two blocks.
CONSTANTS
    a = a
    b = b
    long = long
    NM = 4
    NB = 2
    BlockPayload = 12
    Name <- MCName
    Trunc <- MCTrunc
    ClientPath <- FewPaths
    Size <- TwoSizes
    Data <- OneWord
SPECIFICATION Spec
PROPERTY NonEmptyDirsStay
\* Nothing obliges a client to send a request.
CHECK_DEADLOCK FALSE
