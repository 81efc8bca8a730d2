\* Fair runs, a failing store, handlers that may outlive Stop.
SPECIFICATION FairCollectorSpec
CONSTANTS
    Callers = {s1, syslog}
    Receivers = {syslog}
    BatchSize = 2
    MaxAdds = 1
    MaxGaps = 1
    StoreFails = TRUE
    Stoppable = TRUE
    HandlersOutlive = TRUE
    None = None
INVARIANTS CollectorTypeOK AckMeansSettled NothingLeftBehind
PROPERTIES EntrySettles ShutdownEnds StreamAnswered
\* The process ends.
CHECK_DEADLOCK FALSE
