CONSTANTS
    NoSelection = NoSelection
    None = None
    Sessions = {s1, s2}
    Ledgers = {l1, l2, l3}
    Drains = {d1, d2}
    Client = {}
    Calls = {"fork", "rewind"}
    Harness = {}
    SilentEnd = TRUE
    MaxRuns = 2
    MaxEvents = 0
    MaxLate = 0
    MaxHidden = 1
    MaxRestarts = 1
    MaxSinkErrors = 0
SPECIFICATION Spec
SYMMETRY Symmetry
INVARIANTS
    HistoryOrdered
    HistoryAgreesWithWire
    RestoresKeptTurn
    FinishedIsDurable
CHECK_DEADLOCK FALSE
