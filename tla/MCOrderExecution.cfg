SPECIFICATION MCExecSpec
CONSTANTS
    Tasks = {t1, t2, t3}
    Orders = {t1, t2}
    Keys = {k1, k2}
    MaxSize = 1
    None = None
INVARIANTS
    TypeOK
    OneOwner
    NoLeak
    NoChurn
    OwnClient
    NothingKept
    TruthfulReply
PROPERTIES
    ImplementsOwnership
    NoSecondOrder
    Answered
