\* One session with three inputs: a run can be created, stopped or finished, and
\* prompted again; one fault and one expired lease at any point of a visit.
SPECIFICATION Spec
CONSTANTS
    Sessions = {s1}
    MaxAttempts = 2
    MaxWorkers = 1
    MaxDeferrals = 2
    MaxInputs = 3
    MaxFaults = 1
    MaxStalls = 1
    MaxCrashes = 0
    MaxDenials = 0
INVARIANTS
    TypeOK
    NothingLeaked
    StopDominates
PROPERTIES
    OutcomeIsFinal
    PromptReachesWorker
