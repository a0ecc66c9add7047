\* One client, two workers: the operator presses Enter.
SPECIFICATION FairSpec
CONSTANTS
    Client = {c1}
    Worker = {w1, w2}
    NFD = 1
    Session = {s1}
    Patient = {c1}
    InFlight = 1
    Sent = {"login", "logout", "call"}
    CanStop = TRUE
    None = None
PROPERTY StopEnds
\* The server really ends: no client and no thread has anything left to do.
CHECK_DEADLOCK FALSE
