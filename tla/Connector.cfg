SPECIFICATION FairSpec
CONSTANTS
    query = query
    batch = batch
    sensor = sensor
    prompt = prompt
    AsyncTasks = {query, sensor}
    SyncTasks = {prompt}
    CoroDelete = {sensor}
    Sensors = {sensor}
    DeleteMayFail = TRUE
    MaxCalls = 3
    MaxSignals = 2
INVARIANTS
    ExitDeletesJobs
    InterruptEndsProcess
    
PROPERTIES
    CallsEnd
CHECK_DEADLOCK FALSE
