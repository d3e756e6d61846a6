\* A thread of two runs with a question and a held queue, and two lost
\* subscriptions.
SPECIFICATION StreamSpec
CONSTANTS
    Runs = {r1, r2}
    None = None
    MaxLog = 5
    MaxLosses = 2
    MaxAttempts = 1
INVARIANTS
    ViewAtCursor
PROPERTIES
    KeepsPromise
    CaughtUp
\* The thread ends.
CHECK_DEADLOCK FALSE
