SPECIFICATION MCSpec
CONSTANTS
    Sigs = {s1, s2, s3}
    Stamps = {1, 2}
    MaxAge = 1
    CacheTtl = 3
    CacheSize = 2
    Resolution = 2
    SigHorizon = 7
    Unset = Unset
INVARIANTS
    SigTypeOK
PROPERTIES
    ForgottenUnderPressure
    DuplicateJustified
    AcceptedOnce
