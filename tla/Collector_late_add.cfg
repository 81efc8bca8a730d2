\* As Collector_shutdown, but the store works: what is settled is stored.
SPECIFICATION CollectorSpec
CONSTANTS
    Callers = {s1, syslog}
    Receivers = {syslog}
    BatchSize = 2
    MaxAdds = 1
    MaxGaps = 1
    StoreFails = FALSE
    Stoppable = TRUE
    HandlersOutlive = TRUE
    None = None
INVARIANT LastEntriesFlushed
\* The process ends.
CHECK_DEADLOCK FALSE
