\* A ring with two locked producers and two locked consumers.
CONSTANTS
    p1 = p1
    p2 = p2
    c1 = c1
    c2 = c2
    Producers = {p1, p2}
    Consumers = {c1, c2}
    LockType = {"producer", "consumer"}
    Expiry = TRUE
    Msg <- Blobs
    BlockSize = 7
    HeadSize = 2
    MaxBlob = 2
    NoOne = NoOne
    Nil = Nil
    Torn = Torn
SPECIFICATION Spec
SYMMETRY Symmetry
INVARIANTS
    TypeOK
    AssertionHolds
    PendingIntact
    EmptyMeansEmpty
PROPERTIES
    PendingUntouched
    ImplementsFifo
