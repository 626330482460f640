CONSTANTS
    Sessions = {s1}
    Conns = {c1, c2}
    Pane = Pane
    Nobody = Nobody
    Sizes = {1}
    Leavers = {c2}
    Queue = 2
    Capacity = 2
    Chunk = 1
    MaxOutput = 3
    MaxRead = 2
    MaxRequests = 2
SPECIFICATION FairSpec
INVARIANTS
    TypeOK
    ByteExact
    NothingWithheld
PROPERTIES
    Gapless
    EndIsLast
    MutexIsReleased
    DepartedIsForgotten
CHECK_DEADLOCK FALSE
