\* The ring from the proxy to a group of one worker, with crashes and restarts.
CONSTANTS
    proxy = proxy
    w1 = w1
    w2 = w2
    Producers = {proxy}
    Consumers = {w1}
    LockType = {}
    Expiry = TRUE
    MaxCrashes = 2
    Msg <- Requests
    BlockSize = 7
    HeadSize = 2
    MaxBlob = 2
    NoOne = NoOne
    Nil = Nil
    Torn = Torn
SPECIFICATION RSpec
INVARIANTS
    AssertionHolds
    OnlyWholeMessages
PROPERTIES
    RestartKeepsFifo
    HeadMoves
