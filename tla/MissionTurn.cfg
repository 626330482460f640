CONSTANTS
    Main = Main
    None = None
    Children = {c1}
    Streams = {1, 2}
    MaxDepth = 2
    MaxTurns = 2
    MaxCalls = 1
    Counted = TRUE
    MaxBatch = 2
    MaxReasoningSteps = 2
    MaxExecutionSteps = 2
    AutoApprove = {TRUE, FALSE}
    MaxKills = 0
    MaxEnds = 2
SPECIFICATION FairSpec
INVARIANTS
    TypeOK
    EndsOnce
    NothingUnanswered
    SpendReportedOnce
PROPERTY TurnEnds
CHECK_DEADLOCK FALSE
