CONSTANTS
    NoSelection = NoSelection
    None = None
    Sessions = {s1}
    Ledgers = {l1}
    Drains = {d1, d2}
    Client = {}
    Calls = {"rewind", "candidate"}
    Harness = {"ask", "late"}
    SilentEnd = FALSE
    MaxRuns = 3
    MaxEvents = 1
    MaxLate = 3
    MaxHidden = 0
    MaxRestarts = 0
    MaxSinkErrors = 0
SPECIFICATION Spec
SYMMETRY Symmetry
INVARIANTS
    HistoryOrdered
    LiveTurnRegistered
    LiveTurnKeepsRecord
    RestoresKeptTurn
PROPERTY SettledIsFinal
CHECK_DEADLOCK FALSE
