CONSTANTS
    NoSelection = NoSelection
    None = None
    Sessions = {s1}
    Ledgers = {l1}
    Drains = {d1}
    Client = {}
    Calls = {"rewind"}
    Harness = {}
    SilentEnd = FALSE
    MaxRuns = 2
    MaxEvents = 1
    MaxLate = 1
    MaxHidden = 0
    MaxRestarts = 1
    MaxSinkErrors = 0
SPECIFICATION Spec
INVARIANT RewindSurvivesRestart
CHECK_DEADLOCK FALSE
