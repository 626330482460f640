CONSTANTS
    NoSelection = NoSelection
    None = None
    Sessions = {s1}
    Ledgers = {l1}
    Drains = {d1, d2}
    Client = {"rerun"}
    Calls = {"cancel"}
    Harness = {"ask", "late", "usage"}
    SilentEnd = FALSE
    MaxRuns = 2
    MaxEvents = 1
    MaxLate = 1
    MaxHidden = 0
    MaxRestarts = 0
    MaxSinkErrors = 1
SPECIFICATION FairSpec
INVARIANTS
    TypeOK
    FinishedIsDurable
PROPERTY TerminalEventSettles
CHECK_DEADLOCK FALSE
