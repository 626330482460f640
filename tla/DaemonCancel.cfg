CONSTANTS
    NoSelection = NoSelection
    None = None
    Sessions = {s1}
    Ledgers = {l1}
    Drains = {d1}
    Client = {}
    Calls = {"cancel"}
    Harness = {"ask"}
    SilentEnd = FALSE
    MaxRuns = 1
    MaxEvents = 1
    MaxLate = 1
    MaxHidden = 0
    MaxRestarts = 0
    MaxSinkErrors = 0
SPECIFICATION FairSpec
PROPERTY CancelledTurnSettles
CHECK_DEADLOCK FALSE
