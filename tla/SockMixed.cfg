\* A client, a datagram and a backend contend for one slot and one descriptor.
CONSTANTS
    c1 = c1
    c2 = c2
    c3 = c3
    u1 = u1
    b1 = b1
    NoSock = NoSock
    None = None
    Tcp = {c1}
    Udp = {u1}
    Back = {b1}
    MaxConn = 1
    MaxFd = 1
    FlowMod = 12
    LateFailure = FALSE
    MaxReq = 1
    MaxRsp = 2
    MaxFlow = 1
SPECIFICATION Spec
INVARIANTS
    AnswersOwn
    NoInputStranded
    NoOutputStranded
    DescriptorsOwned
