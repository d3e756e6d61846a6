\* Two queued calls and one outside the queue for one organization, with
\* an authorization, a webhook and an interruption.
SPECIFICATION FairSpec
CONSTANTS
    Orgs = {o1}
    Teams = {}
    Calls = {c1, c2}
    Direct = {d1}
    Consents = {s1}
    Callbacks = {b1}
    None = none
    MaxTokens = 3
    MaxWebhooks = 1
    MaxInterrupts = 1
INVARIANTS
    InOrder
    PairKept
    RepeatsOnlyUnread
PROPERTIES
    QueuedReturns
\* A gateway without calls is at rest.
CHECK_DEADLOCK FALSE
