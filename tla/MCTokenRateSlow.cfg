SPECIFICATION Spec
CONSTANTS
    Tokens = {a}
    Limit = 2
    Window = 3
    CacheSize = 1
    Horizon = 7
INVARIANTS
    RefusedAboveRate
