CONSTANTS
    c1 = c1
    c2 = c2
    c3 = c3
    Client = {c1, c2, c3}
    None = None
    NGroup = 1
    RingLen = 2
    MsgTimeout = TRUE
    EventRoute <- Routes
    MaxConn = 2
    MaxReq = 2
    MaxSent = 2
    MaxLife = 2
    Proc <- Procs
SYMMETRY Symmetry
SPECIFICATION Spec
INVARIANTS EveryRequestOnce AnswersReturn DisconnectLast
CHECK_DEADLOCK FALSE
