\* One server that was connected before, its reconnection with two callbacks,
\* two changes by an administrator and two requests of workers.
SPECIFICATION Spec
CONSTANTS
    Servers = {s1}
    Urls = {u1, u2}
    Requests = {r1, r2}
    States = {x1}
    Past = past
    Callbacks = {k1, k2}
    Edits = {e1}
    None = none
    MaxTokens = 3
    MaxLapses = 1
    MaxEdits = 2
SYMMETRY Symmetry
INVARIANTS
    SpentNotReplayed
    NewestGrant
    WaitsForLive
\* The calls are finitely many.
CHECK_DEADLOCK FALSE
