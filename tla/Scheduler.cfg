SPECIFICATION FairSpec
CONSTANTS
    Reminders = {r1, r2}
    Delays = {1, 3}
    IdlePolling = 2
    MaxDelay = 3
    QueueSize = 1
    MaxReports = 3
    ClockTies = FALSE
INVARIANTS TypeOK BoundedLateness ReportsBounded
PROPERTIES AddedIsHandled ShutdownCompletes
CHECK_DEADLOCK FALSE
