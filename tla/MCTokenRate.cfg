SPECIFICATION Spec
CONSTANTS
    Tokens = {a, b, c}
    Limit = 3
    Window = 3
    CacheSize = 2
    Horizon = 7
SYMMETRY Interchangeable
INVARIANTS
    TypeOK
    RateKept
    RefusalJustified
PROPERTIES
    EvictedUnderPressure
