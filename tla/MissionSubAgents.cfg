CONSTANTS
    Main = Main
    None = None
    Children = {c1, c2}
    Streams = {1}
    MaxDepth = 2
    MaxTurns = 2
    MaxCalls = 2
    Counted = FALSE
    MaxBatch = 1
    MaxReasoningSteps = 1
    MaxExecutionSteps = 1
    AutoApprove = {TRUE}
    MaxKills = 1
    MaxEnds = 2
SPECIFICATION FairSpec
INVARIANTS
    OneOutcome
    NeverLeftRunning
PROPERTIES
    CancelStopsAll
CHECK_DEADLOCK FALSE
