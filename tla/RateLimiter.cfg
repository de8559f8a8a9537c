SPECIFICATION LimiterSpec
CONSTANTS
    Coro = {a, b, c, d, e, f}
    rpm = 2
    Delay = 3
    Jitter = 2
    MaxTime = 10
SYMMETRY Symmetric
CHECK_DEADLOCK FALSE
INVARIANTS
    QueueBounded
    StampsSpaced
    RateRespected
