\* Three entries besides the root; files of one block and of two.
CONSTANTS
    a = a
    b = b
    NM = 4
    NB = 3
    BlockPayload = 8
    Name <- MCName
    Trunc <- MCTrunc
    ClientPath <- MCPaths
    Size <- MCSizes
    Data <- OneWord
SPECIFICATION TreeSpec
INVARIANTS NoBlockLeaked EveryEntryInTree IndexIsTree  QueriesAgree StatsAddUp
PROPERTY ImplementsTree
