\* A source comes up while the export reads.
SPECIFICATION Spec
CONSTANTS
    NameOf <- Plain
    SafeChars <- Letters
    Categories = {"general"}
    MaxTime = 2
    Now = 2
    Filters <- AllFilter
    MaxEntries = 2
    MaxGaps = 0
    MayFail = FALSE
INVARIANT EverySourceNamed
\* One export.
CHECK_DEADLOCK FALSE
