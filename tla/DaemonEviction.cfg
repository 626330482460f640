CONSTANTS
    NoSelection = NoSelection
    None = None
    Sessions = {s1}
    Ledgers = {l1}
    Drains = {d1, d2}
    Client = {"onFinished"}
    Calls = {"rewind"}
    Harness = {}
    SilentEnd = FALSE
    MaxRuns = 2
    MaxEvents = 1
    MaxLate = 1
    MaxHidden = 0
    MaxRestarts = 0
    MaxSinkErrors = 0
SPECIFICATION Spec
SYMMETRY Symmetry
INVARIANT LiveTurnKeepsRecord
CHECK_DEADLOCK FALSE
