SPECIFICATION Live
CONSTANTS
    c1 = c1
    c2 = c2
    k1 = k1
    h1 = h1
    o1 = o1
    p1 = p1
    p2 = p2
    p3 = p3
    engine = engine
    paid = paid
    Server = Server
    Idle = Idle
    Writers = {Server, engine}
    Backend = "sqlite"
    Notes <- NoteList
    Conns = {c1, c2}
    Client <- ClientOf
    Script <- Scripts
    Method <- Methods
    Bearer <- Bearers
    Fault <- SomeFaults
    Config <- Loopback
    ReadLimit = 1
    WriteLimit = 1
    Window = 2
    TableSize = 0
    MaxClock = 2
    MaxErrors = 1
INVARIANTS AckedIsRecorded AnswersAreAudited LimitHolds
PROPERTIES CloseEnds
CHECK_DEADLOCK FALSE
