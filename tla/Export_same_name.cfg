\* Two sources whose names give one file name.
SPECIFICATION Spec
CONSTANTS
    NameOf <- Colliding
    SafeChars <- Letters
    Categories = {"general"}
    MaxTime = 2
    Now = 2
    Filters <- AllFilter
    MaxEntries = 2
    MaxGaps = 0
    MayFail = FALSE
INVARIANT OneFilePerSource
\* One export.
CHECK_DEADLOCK FALSE
