SPECIFICATION Spec
CONSTANTS
    Client = {a, b}
    Programs <- MCPrograms
    Operations = {"register_workflow", "register_launch_plan", "execute_local_workflow", "execute_local_launch_plan"}
    MaxCalls = 2
    MaxFaults = 1
    MaxCrashes = 1
INVARIANTS
    ExistingIsComplete
    ActiveBeforeUse
    PromisedIsRegistered
    SubWorkflowsComplete
CHECK_DEADLOCK FALSE
PROPERTIES
    ImplementsCatalog
