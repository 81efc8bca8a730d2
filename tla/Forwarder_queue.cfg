\* Fair runs: overflow, failing dials, writes and lookups, a cancellation.
SPECIFICATION FairSpec
CONSTANTS
    Offerers = {o1, o2}
    Sources = {"early", "late"}
    SourceOf <- EarlyThenLate
    Blank <- Third
    QueueSize = 3
    MaxBatch = 2
    MaxOffers = 5
    MaxFailures = 2
    TargetFails = TRUE
    StoreFails = TRUE
    Stoppable = TRUE
    LateOffers = TRUE
INVARIANTS TypeOK RingIsWindow NothingVanishes DropsAccounted WrittenInOrder
    NoLostWakeup
PROPERTIES QueueDrains ShutdownCompletes
\* Once Run has returned nothing has to happen any more.
CHECK_DEADLOCK FALSE
