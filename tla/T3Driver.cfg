\* Two turns, a run that T3 restarts, one lost request or failed read, and two
\* attempts of the authority.
SPECIFICATION Spec
CONSTANTS
    Turns = {1, 2}
    Restarts = {c1}
    Runs = {1, 2, c1}
    None = None
    MaxLog = 4
    MaxFaults = 1
    MaxOpens = 2
INVARIANTS
    OneTurn
    OutcomeIsReal
PROPERTIES
    AttemptEnds
\* The turns and the attempts are finitely many.
CHECK_DEADLOCK FALSE
