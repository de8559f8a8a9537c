SPECIFICATION Spec
CONSTANTS
    Tasks = {plain}
    CachedTasks = {}
    plain = plain
    CacheOverwrite = FALSE
    Policies = {}
    ItemCounts = {}
    MaxCases = 2
    MaxDepth = 3
    MaxCalls = 4
CHECK_DEADLOCK FALSE
INVARIANTS
    BranchesRunAsWritten
