SPECIFICATION FairSpec
CONSTANTS
    c1 = c1
    c2 = c2
    c3 = c3
    t1 = t1
    t2 = t2
    x = x
    y = y
    None = None
    Call = {c1, c2}
    Entity = {t1, t2}
    Input = {x, y}
    EntityOf <- CallsOfTwoEntities
    InputOf <- InputsOfCalls
    Awaits <- NothingAwaited
    IssuedAfter <- FixedOrder
    Faults = {"launch", "sync", "kill", "convert", "publish", "signal"}
    EndPhases = {"SUCCEEDED", "FAILED"}
    MaxAttempts = 1
CHECK_DEADLOCK FALSE
PROPERTIES
    AddFinishes
    ProcessExits
    CleanupEnds
