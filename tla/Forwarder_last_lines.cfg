\* A target that takes everything, no Offer after the cancellation.
SPECIFICATION Spec
CONSTANTS
    Offerers = {o1, o2}
    Sources = {"early", "late"}
    SourceOf <- EarlyThenLate
    Blank <- Third
    QueueSize = 2
    MaxBatch = 2
    MaxOffers = 4
    MaxFailures = 0
    TargetFails = FALSE
    StoreFails = FALSE
    Stoppable = TRUE
    LateOffers = FALSE
INVARIANT LastLinesReach
\* Once Run has returned nothing has to happen any more.
CHECK_DEADLOCK FALSE
