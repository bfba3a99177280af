SPECIFICATION Spec
CONSTANTS
    Ids = {i, j}
    Emails = {e}
    Calls = {a, b, c, d}
    TokenLife = 1
    Horizon = 1
    None = None
SYMMETRY Interchangeable
INVARIANTS
    TypeOK
    OneAccountPerEmail
    UsedTokenGone
    DeletedStaysGone
PROPERTIES
    PasswordByReset
