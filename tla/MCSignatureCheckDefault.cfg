SPECIFICATION MCSpec
CONSTANTS
    Sigs = {s1}
    Stamps = {0}
    MaxAge = 2
    CacheTtl = 2
    CacheSize = 2
    Resolution = 2
    SigHorizon = 8
    Unset = Unset
PROPERTIES
    AcceptedOnce
