\* Two callers, a channel and batch of two, failing transactions, a shutdown.
SPECIFICATION Spec
CONSTANTS
    Callers = {c1, c2}
    None = None
    BatchSize = 2
    MaxAdds = 2
    StoreFails = TRUE
    Stoppable = TRUE
SYMMETRY Symmetry
INVARIANTS TypeOK OncePlaced SyncCovers ErrMeansLost TapExact
PROPERTY ImplementsLog
\* After a shutdown every caller may be gone: nothing is left to happen.
CHECK_DEADLOCK FALSE
