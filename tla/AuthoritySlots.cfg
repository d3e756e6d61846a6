\* Two sessions compete for one worker slot, with a fault and a revocation or a
\* loss of team access at any point.
SPECIFICATION Spec
CONSTANTS
    Sessions = {s1, s2}
    MaxAttempts = 1
    MaxWorkers = 1
    MaxDeferrals = 1
    MaxInputs = 1
    MaxFaults = 1
    MaxStalls = 0
    MaxCrashes = 0
    MaxDenials = 1
INVARIANTS
    SlotsBounded
