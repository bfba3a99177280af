SPECIFICATION Spec
CONSTANTS
    Alerts = {a}
    Deliveries = 2
    Copies = 2
    Workers = {v, w}
    Prefetch = 1
    MaxCrashes = 2
    None = None
INVARIANTS
    NothingVanishes
PROPERTIES
    ImplementsAlertDesk
    QueuedIsTried
