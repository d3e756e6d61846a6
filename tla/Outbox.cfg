SPECIFICATION FairSpec
CONSTANTS
    Keys = {k1, k2}
    Comments = {k2}
    FirstWins = {k2}
    Payloads = {p, q}
    Callers = {c1}
    Flusher = flusher
    None = none
    MaxCalls = 2
    MaxFaults = 1
    MaxStalls = 1
    MaxCrashes = 1
INVARIANTS
    RepeatNeedsCause
PROPERTIES
    ImplementsFeed
    AcceptedSettles
