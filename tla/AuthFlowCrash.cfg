SPECIFICATION Spec
CONSTANTS
    Thread = {a}
    Streams = {}
    Modes = {"pkce", "device", "direct"}
    Prepared = FALSE
    ttl = 1
    polls = 2
    Rotates = TRUE
    AlwaysRefresh = TRUE
    Faults = {"crash", "refuse", "rpc", "stray", "port"}
    MaxGrant = 5
    MaxExpired = 2
    MaxTime = 0
    MaxRestarts = 2
CHECK_DEADLOCK FALSE
INVARIANTS
    KeyringRefreshable
