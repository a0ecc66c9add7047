\* Two clients that wait for each reply, two workers, one login, and stop().
SPECIFICATION FairSpec
CONSTANTS
    Client = {c1, c2}
    Worker = {w1, w2}
    NFD = 2
    Session = {s1}
    Patient = {c1, c2}
    InFlight = 1
    Sent = {"login", "logout"}
    CanStop = TRUE
    None = None
INVARIANTS TypeOK SessionAlive BoundAlive SessionIsOwn ReplyToAsker EachCommandOnce
PROPERTIES QueuedAnswered AcceptEnds
\* The server really ends: no client and no thread has anything left to do.
CHECK_DEADLOCK FALSE
