CONSTANTS
    Workflows = {w1, w2}
    Workers = {p1}
    Stages <- MCOneStage
    AttemptLimit = 1
    BatchLimit = 1
    Tasks = 0
    QueueBound = 2
    OldProducers = FALSE
SPECIFICATION FairSpec
PROPERTIES
    PendingIsTaken ImplementsLedger
