\* The ring from a worker to the proxy, which also carries close requests.
CONSTANTS
    p1 = p1
    p2 = p2
    c1 = c1
    c2 = c2
    Producers = {p1}
    Consumers = {c1}
    LockType = {}
    Expiry = FALSE
    Msg <- CloseBlobs
    BlockSize = 7
    HeadSize = 2
    MaxBlob = 2
    NoOne = NoOne
    Nil = Nil
    Torn = Torn
SPECIFICATION Spec
INVARIANT
    AssertionHolds
