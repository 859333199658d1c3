CONSTANTS
    Workflows = {w1}
    Workers = {p1, p2}
    Stages <- MCShortStages
    AttemptLimit = 2
    BatchLimit = 1
    Tasks = 1
    QueueBound = 1
    OldProducers = FALSE
SPECIFICATION FairSpec
PROPERTIES
    ImplementsFairLedger
    Settles
