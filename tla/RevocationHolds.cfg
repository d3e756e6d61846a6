\* One call that refreshes the token, and a webhook.
SPECIFICATION Spec
CONSTANTS
    Orgs = {o1}
    Teams = {t1}
    Calls = {c1}
    Direct = {}
    Consents = {s1}
    Callbacks = {b1}
    None = none
    MaxTokens = 2
    MaxWebhooks = 1
    MaxInterrupts = 0
PROPERTIES
    RevocationHolds
CHECK_DEADLOCK FALSE
