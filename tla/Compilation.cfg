SPECIFICATION Spec
CONSTANTS
    main = "main"
    sub = "sub"
    Workflows = {"main", "sub"}
    Dynamic = {"main"}
    Handlers <- MCHandlers
    Inputs = {"in1"}
    MaxNodes = 5
    MaxDepth = 3
    MaxCases = 3
    MaxRaises = 1
    Careless = FALSE
INVARIANTS
    
    
    ImperativeInOrder
CHECK_DEADLOCK FALSE
