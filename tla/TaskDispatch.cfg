SPECIFICATION Spec
CONSTANTS
    Workers = {w0, w1, w2}
    Rank0 = w0
    w0 = w0
    w1 = w1
    w2 = w2
    Nobody = Nobody
    TaskKinds = {"Python", "Shim", "Elastic"}
    OutputNames = {k1, k2}
    k1 = k1
    k2 = k2
    Sizes = {1, 2, 3}
    MinSize = 2
    MaxSize = 3
    Offloading = TRUE
    DistErrors = TRUE
    FailOnError = TRUE
    EnableDeck = TRUE
SYMMETRY Symmetry
CHECK_DEADLOCK FALSE
INVARIANTS
    
    OutputsResolve
    
