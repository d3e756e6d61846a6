SPECIFICATION FairSpec
CONSTANTS
    s1 = s1
    s2 = s2
    Sessions = {s1, s2}
    Past = {s2}
    UidCount = 1
    Pids = {1, 2}
    MaxPerSweep = 1
    MaxTroubles = 1
    MaxCrashes = 1
    MaxPrompts = 1
INVARIANTS
    TypeOK
    UidExclusive
PROPERTIES
    WorkerSpared
    WorkspaceKept
    UidReclaimed
\* Every session may have ended and every uid be free.
CHECK_DEADLOCK FALSE
