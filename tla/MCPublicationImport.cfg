CONSTANTS
    Workers = {p1}
    AttemptLimit = 3
    Failures = 1
    Interruptions = 0
    Changes = 0
    Imports = 1
    Meddling = FALSE
SPECIFICATION FairSpec
PROPERTY ResumeReconciles
CHECK_DEADLOCK FALSE
