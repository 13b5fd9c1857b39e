CONSTANTS
    RouteConf <- MCRouteConf
    Body <- MCBody
    Dest <- MCDest
    Junk = 0
    BackConn = 2
    FlowBound = 6
    Index = {1, 2, 3, 4}
    BlockUnit = 2
    Shifts = 2
    ExtendSet = 2
    Slot1 = 4
    Slot2 = 4
    PoolMax = 12
    WaterMax = 6
    Cache = {"r", "w"}
    ByteMod = 2
    MaxData = 4
    Lengths = {1, 3}
    MaxFault = 2
    ServType = {1, 2}
    Version = {1, 2}
    MaxChange = 1
    Program = {"worker", "proxy", "ctrl", "update", "report"}
SPECIFICATION Spec
INVARIANTS OneConnPerNode SentAsGiven CacheKeepsData PoolBounded
PROPERTIES SignalHeeded VersionFollows ReportsResume
CHECK_DEADLOCK FALSE
