SPECIFICATION Spec
CONSTANTS
    Tasks = {plain, cached}
    CachedTasks = {cached}
    plain = plain
    cached = cached
    CacheOverwrite = FALSE
    Policies <- MCPolicies
    ItemCounts = {2}
    MaxCases = 3
    MaxDepth = 5
    MaxCalls = 5
CHECK_DEADLOCK FALSE
INVARIANTS
    ContextRestored
    
    FlatBranches
    UntakenRunsNothing
    FailureHandlerRuns
    ArrayMeetsMinimum
