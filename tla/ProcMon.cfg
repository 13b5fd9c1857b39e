\* A group of one process in a process table of three; the message queue of the
\* controller holds one report.
CONSTANTS
    NumPids = 3
    Pids <- PidTable
    MinProc = 1
    MaxProc = 1
    Sick = {1}
    QueueLen = 1
    MaxCrashes = 2
    MaxRestarts = 1
SPECIFICATION FairSpec
CHECK_DEADLOCK FALSE
INVARIANTS
    CountsMembers
PROPERTIES
    SparesLive
    Recovers
    GhostsGo
