SPECIFICATION Spec
CONSTANTS
    Radix = 8
    Requests <- MCRequests
    Cookies <- MCCookies
    Reserves = {0, 5}
    Keys = {1}
    BufLens = {29, 46, 47, 57, 63, 71}
    Room = 190
    MaxSeq = 2
    Answers <- MCAnswers
INVARIANT BufferHolds
CHECK_DEADLOCK FALSE
