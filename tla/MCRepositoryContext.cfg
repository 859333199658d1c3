CONSTANTS
    a = a
    b = b
    c = c
    Chunks = {a, b, c}
    History <- TwoCommits
    Flows = {w1}
    Helpers = {h1}
    BatchSize = 1
SPECIFICATION FairSpec
INVARIANTS WellFormed ContextOfSource
PROPERTIES VectorsKept JobsEnd
