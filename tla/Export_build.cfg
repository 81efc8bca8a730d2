\* Fair runs of one export: entries of two sources and gaps before, during and
\* after it, three filters, failing steps, a client that may stop reading.
SPECIFICATION FairSpec
CONSTANTS
    NameOf <- Plain
    SafeChars <- Letters
    Categories = {"general", "private"}
    MaxTime = 2
    Now = 2
    Filters <- ThreeFilters
    MaxEntries = 2
    MaxGaps = 1
    MayFail = TRUE
INVARIANTS TypeOK ArchiveIsTheRows SyncedIncluded TempGone
PROPERTIES NobodyWaits
\* One export.
CHECK_DEADLOCK FALSE
