SPECIFICATION FairSpec
CONSTANTS
    Thread = {a, b}
    Streams = {b}
    Modes = {"pkce"}
    Prepared = TRUE
    ttl = 1
    polls = 2
    Rotates = TRUE
    AlwaysRefresh = TRUE
    Faults = {"refuse", "unknown", "port"}
    MaxGrant = 4
    MaxExpired = 1
    MaxTime = 2
    MaxRestarts = 0
CHECK_DEADLOCK FALSE
INVARIANTS
    
    LoginsSpaced

    
