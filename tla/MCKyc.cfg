SPECIFICATION Spec
CONSTANTS
    Users = {u}
    Reviewers = {x, y}
    Apps = {a, b}
    Uploads = {d, e}
    Reviews = {r, s}
    DocumentKey = None
    Horizon = 1
    None = None
SYMMETRY Interchangeable
INVARIANTS
    TypeOK
    DecidedIsSigned
    ReportMissesNone
    DocumentReadable
