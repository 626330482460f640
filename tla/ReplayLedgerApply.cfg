CONSTANTS
    NoSelection = NoSelection
    Handles = {main, branch}
    Writers = {w1}
    Idle = Idle
    Outcomes = {"Success"}
    MaxTurns = 2
    MaxEvents = 1
SYMMETRY Symmetry
SPECIFICATION Spec
INVARIANT AppliedWasSelected
CHECK_DEADLOCK FALSE
