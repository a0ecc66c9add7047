\* Two entries besides the root share three blocks; a directory block holds one child.
CONSTANTS
    a = a
    b = b
    long = long
    NM = 3
    NB = 3
    BlockPayload = 4
    Name <- MCName
    Trunc <- MCTrunc
    ClientPath <- ManyPaths
    Size <- ThreeSizes
    Data <- OneWord
SPECIFICATION Spec
INVARIANTS TypeOK Inv BlocksOwnedOnce ChainsEnd ChildrenMatchParents IndexedEntriesLive RootAlive
\* Nothing obliges a client to send a request.
CHECK_DEADLOCK FALSE
