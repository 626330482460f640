CONSTANTS
    NoSelection = NoSelection
    Handles = {main, branch}
    Writers = {w1, w2}
    Idle = Idle
    Outcomes = {"Success"}
    MaxTurns = 2
    MaxEvents = 1
SYMMETRY Symmetry
SPECIFICATION Spec
INVARIANTS TypeOK IndexContiguous
PROPERTY ImplementsTranscript
CHECK_DEADLOCK FALSE
