\* A server with two slots and three descriptors for three clients.
CONSTANTS
    c1 = c1
    c2 = c2
    c3 = c3
    u1 = u1
    b1 = b1
    NoSock = NoSock
    None = None
    Tcp = {c1, c2, c3}
    Udp = {}
    Back = {}
    MaxConn = 2
    MaxFd = 3
    FlowMod = 12
    LateFailure = FALSE
    MaxReq = 1
    MaxRsp = 1
    MaxFlow = 0
SPECIFICATION Spec
SYMMETRY Symmetry
INVARIANTS
    AnswersOwn
    InputOwn
    NoInputStranded
    DescriptorsOwned
    GoneOnce
