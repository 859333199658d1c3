CONSTANTS
    Streams = {"stdout", "stderr"}
    Limit = 2
    Block = 2
    PipeSize = 1
    MaxOutput = 4
    Required <- MCRequired
    Allowed <- MCAllowed
    Images <- MCImages
    MaxRuns = 2
SPECIFICATION MCSpec
INVARIANTS
    ResultFaithful
    VerdictOnEvidence
    OneTenant
PROPERTY RunReturns
CHECK_DEADLOCK FALSE
