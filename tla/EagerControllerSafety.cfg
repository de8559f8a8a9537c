SPECIFICATION Spec
CONSTANTS
    c1 = c1
    c2 = c2
    c3 = c3
    t1 = t1
    t2 = t2
    x = x
    y = y
    None = None
    Call = {c1, c2, c3}
    Entity = {t1, t2}
    Input = {x, y}
    EntityOf <- CallsOfOneEntity
    InputOf <- InputsOfCalls
    Awaits <- ThirdAwaitsFirst
    IssuedAfter <- FixedOrder
    Faults = {"reply", "sync", "kill", "terminate"}
    EndPhases = {"SUCCEEDED", "TIMED_OUT"}
    MaxAttempts = 2
CHECK_DEADLOCK FALSE
INVARIANTS
    
    NoSharedExecution
    NoDuplicateWork
PROPERTIES
    OutcomeIsFinal
    
