SPECIFICATION Spec
CONSTANTS
    Tokens = {t}
    Roles = {a}
    Requests = {r}
    Edits = {d, e}
    Lifetimes = {0, 1}
    TokenTtl = 1
    Horizon = 2
    None = None
SYMMETRY Interchangeable
INVARIANTS
    TypeOK
    AcceptedWasPermitted
    UseIsRecorded
PROPERTIES
    RevocationSticks
