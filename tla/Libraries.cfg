\* The codec: bytes of eight values; buffers shorter than a header, and just as
\* long as a packet, one byte shorter and one longer.
\* The map: three nodes and two chunks of two bytes; two of the three keys share
\* a bucket.
CONSTANTS
    Radix = 8
    Requests <- MCRequests
    Cookies <- MCCookies
    Reserves = {0, 5}
    Keys = {1}
    BufLens = {29, 46, 47, 57, 63, 71}
    Room = 190
    MaxSeq = 2
    Answers <- MCAnswers
    p1 = p1
    p2 = p2
    Proc = {p1, p2}
    Key = {0, 1, 2}
    Data <- Bytes
    NodeTotal = 3
    BucketSize = 2
    ChunkTotal = 2
    ChunkSize = 2
SYMMETRY Symmetry
SPECIFICATION LibSpec
INVARIANTS
    BufferAsString
    TransitIntact
    AnswerUnderstood
    FindsItsWay
    VisitsAll
    NothingLost
PROPERTY
    ActsAsStacks
CHECK_DEADLOCK FALSE
