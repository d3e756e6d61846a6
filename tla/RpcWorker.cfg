\* One worker with a request (a prompt or another), a call of a host tool and
\* a stop, two frames of the process not read yet.
SPECIFICATION Spec
CONSTANTS
    Requests = {r1}
    Hello = hello
    Calls = {c1}
    Stops = {k1}
    None = none
    MaxOut = 2
INVARIANTS
    NoOrphan
PROPERTIES
    ExitTold
    StopEnds
    PromptSettles
\* A worker that has stopped stays stopped.
CHECK_DEADLOCK FALSE
