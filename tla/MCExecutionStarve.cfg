CONSTANTS
    a = a
    b = b
    r1 = r1
    r2 = r2
    Runs = {r1, r2}
    Tasks = {a}
    Plans <- OneTask
    Patches = {p1}
    DebugLimit = 0
    BatchLimit = 1
    Heap <- HeapOfTwo
    Origins = {"workflow", "client"}
    Executor = FALSE
    Faults = TRUE
SPECIFICATION FairSpec
PROPERTIES StaleWorkEnds
CHECK_DEADLOCK FALSE
