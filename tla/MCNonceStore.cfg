SPECIFICATION Spec
CONSTANTS
    Callers = {p1, p2, p3}
    Nonces = {n1}
    NonceTtl = 4
    MaxStall = 2
    Horizon = 9
    None = None
SYMMETRY Interchangeable
INVARIANTS
    TypeOK
PROPERTIES
    ImplementsReplayGuard
    RefusalJustified
