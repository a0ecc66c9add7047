\* Two clients, one of which may leave while the other waits for a reply.
SPECIFICATION FairSpec
CONSTANTS
    Client = {c1, c2}
    Worker = {w1, w2}
    NFD = 2
    Session = {}
    Patient = {c1, c2}
    InFlight = 1
    Sent = {"login", "logout", "call"}
    CanStop = FALSE
    None = None
PROPERTY CommandsReturn
\* Clients may all be gone.
CHECK_DEADLOCK FALSE
