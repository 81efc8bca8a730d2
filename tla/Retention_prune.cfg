\* Clock skew, inserts between all statements, failing statements, gaps that
\* alone exceed the limit; fair runs.
SPECIFICATION FairSpec
CONSTANTS
    Days = 1
    DayTicks = 1
    WordBits = 8
    MaxPages = 2
    PruneBatch = 2
    Overhead = 1
    MaxNow = 3
    MaxRows = 3
    MaxGaps = 2
INVARIANTS TypeOK DeletedForCause LimitMet
PROPERTIES OldestGoFirst PruneEnds
