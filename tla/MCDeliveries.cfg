CONSTANTS
    Ids = {i1, i2}
    Calls = {index}
    Results = {x, y}
    Workers = {p1, p2}
    BatchLimit = 1
    Faults = TRUE
SPECIFICATION FairSpec
INVARIANTS OneAttempt RepliesAgreeWithRow
PROPERTIES VerdictIsFinal DeliveryEnds
