CONSTANTS
    a = a
    b = b
    r1 = r1
    r2 = r2
    Runs = {r1}
    Tasks = {a, b}
    Plans <- PairPlans
    Patches = {p1, p2}
    DebugLimit = 1
    BatchLimit = 1
    Heap <- HeapOfOne
    Origins = {"workflow", "client"}
    Executor = TRUE
    Faults = TRUE
SPECIFICATION Spec
INVARIANTS WellFormed OnlyReadyTasksStart RecoveryOwnsTask
PROPERTIES CompletedOnEvidence EndedStaysEnded
CHECK_DEADLOCK FALSE
