SPECIFICATION Spec
CONSTANTS
    Users = {u}
    Roles = {r, s}
    Requests = {p, q}
    Seeds = {i}
    MaxEdits = 2
    None = None
SYMMETRY Interchangeable
INVARIANTS
    TypeOK
    DecisionHadItsMoment
    ChangeWasAudited
