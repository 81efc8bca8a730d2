\* Three changes of Core, three satellites, delays of 1, 2, 3 and 3.
SPECIFICATION FairSpec
CONSTANTS
    Satellites = {t1, t2, t3}
    Steady = t1
    MaxChanges = 3
    InitialBackoff = 1
    MaxBackoff = 3
    MaxCounted = 4
INVARIANTS TypeOK BackoffByFailures FallbackJustified
PROPERTIES NameStays LinkRecovers LinkEnds
\* Both goroutines end.
CHECK_DEADLOCK FALSE
