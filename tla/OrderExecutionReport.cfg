SPECIFICATION ExecSpec
CONSTANTS
    Tasks = {t1, t2}
    Keys = {k1}
    MaxSize = 1
    None = None
INVARIANTS
    ConfirmedIsReported
