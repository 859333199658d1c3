CONSTANTS
    a = a
    b = b
    r1 = r1
    r2 = r2
    Runs = {r1}
    Tasks = {a}
    Plans <- OneTask
    Patches = {p1, p2, p3}
    DebugLimit = 2
    BatchLimit = 1
    Heap <- HeapOfOne
    Origins = {"workflow"}
    Executor = FALSE
    Faults = TRUE
SPECIFICATION FairSpec
INVARIANTS PatchesDistinct
PROPERTIES NoPatchOnUncertainTree AgentsEnd
CHECK_DEADLOCK FALSE
