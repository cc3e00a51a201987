SPECIFICATION PartsSpec
CONSTANTS
    x = x  y = y  w1 = w1  w2 = w2  None = None
    Ids <- TwoIds
    Workers <- TwoWorkers
    Required = TRUE
    Automatic = FALSE
    MaxAttempts = 2
    Batches <- ReviewBatch
    MaxEntries = 2
    MaxRuns = 3
INVARIANTS
    OneActiveEntry
    RunsAreOwnedAndCounted
    OpenTasksAcyclic
    ReviewedIsApproved
PROPERTIES
    ClosedStaysClosed
SYMMETRY Commands
CHECK_DEADLOCK FALSE
