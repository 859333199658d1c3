CONSTANTS
    Workflows = {w1}
    Workers = {p1, p2}
    Stages <- MCStages
    AttemptLimit = 2
    BatchLimit = 1
    Tasks = 0
    QueueBound = 2
    OldProducers = TRUE
SPECIFICATION Spec
SYMMETRY WorkerSymmetry
INVARIANTS
    TypeOK
    HistoryAlternates
    OneClaimPerGeneration
    CheckpointsInOrder
    InterruptedSourceNeverReruns
    BackoffFromOwnAttempt
PROPERTIES
    EndsForGood
