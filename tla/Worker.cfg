CONSTANTS
    None = None
    Workers = {w1, w2, w3}
    Owners = {w1}
    Lone = {w3}
    Tasks = {t1}
    Kinds = {"heartbeat"}
    Duration = 1
    Interval = 2
    MaxTime = 4
    MaxRuns = 2
    MaxCrashes = 1
SPECIFICATION Spec
INVARIANTS
    TypeOK
    OneRenewedLeader
PROPERTIES
    HeldUntilExpiry
    BeatsSpaced
CHECK_DEADLOCK FALSE
