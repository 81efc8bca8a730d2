\* No shutdown: an earlier flush fails, the Sync after it answers nil.
SPECIFICATION Spec
CONSTANTS
    Callers = {c1, c2}
    None = None
    BatchSize = 2
    MaxAdds = 2
    StoreFails = TRUE
    Stoppable = FALSE
INVARIANT SyncMeansWritten
CHECK_DEADLOCK FALSE
