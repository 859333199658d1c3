CONSTANTS
    Workers = {p1, p2}
    AttemptLimit = 3
    Failures = 2
    Interruptions = 2
    Changes = 1
    Imports = 1
    Meddling = TRUE
SPECIFICATION FairSpec
INVARIANTS WellFormed OnePullRequest PublishedIsReviewed JournalFirst
PROPERTIES PublicationSettles
CHECK_DEADLOCK FALSE
