\* Two entries besides the root; files of one block and of two.
CONSTANTS
    a = a
    b = b
    NM = 3
    NB = 4
    BlockPayload = 8
    Name <- MCName
    Trunc <- MCTrunc
    ClientPath <- MCPaths
    Size <- MCSizes
    Data <- OneWord
SPECIFICATION PersistSpec
INVARIANTS NoFileShowsAnother FilesStayMarked
PROPERTIES DurableTree CrashKeepsReturned CleanRestartKeeps
\* After a crash the model ends; a client need not send a request.
CHECK_DEADLOCK FALSE
