\* One session with two inputs, a fault, and a crash or shutdown
\* with its recovery, under the fairness of the runtime.
SPECIFICATION FairSpec
CONSTANTS
    Sessions = {s1}
    MaxAttempts = 2
    MaxWorkers = 1
    MaxDeferrals = 2
    MaxInputs = 2
    MaxFaults = 1
    MaxStalls = 0
    MaxCrashes = 1
    MaxDenials = 0
PROPERTIES
    LeaseRespected
    CancellationSettles
    NoRunForgotten
    NoticeSettles
