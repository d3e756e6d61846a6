\* One delivery under three requests (a claim, its redelivery and a third that
\* slips between a failed claim and its cleanup), two database failures (enough
\* to exhaust the two attempts of a replay) and a crash with its recovery.
SPECIFICATION FairSpec
CONSTANTS
    Deliveries = {d1}
    Payloads = {p1, p2}
    Rejectable = {p2}
    Requests = {r1, r2, r3}
    Replays = {u1, u2, u3, u4}
    None = None
    MaxTries = 2
    MaxFaults = 2
    MaxCrashes = 1
INVARIANTS
    TypeOK
    ExactlyOnce
    LiveClaimHeld
    NoLeakedClaim
PROPERTIES
    RecoverySettles
\* The requests are finitely many: once all are answered nothing is left to do.
CHECK_DEADLOCK FALSE
