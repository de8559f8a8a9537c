SPECIFICATION FairSpec
CONSTANTS
    Scenarios <- MCScenarios
    MaxRetries = 3
    MaxCalls = 3
    MaxFaults = 1
INVARIANTS
    SucceededHasOutputs
    DoneIsWhole
    
CHECK_DEADLOCK FALSE
PROPERTIES
    WaitNoticesEnd
