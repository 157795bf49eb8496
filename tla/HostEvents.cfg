CONSTANTS
    r1 = r1
    r2 = r2
    r3 = r3
    Requests <- MCRequests
    Scripts <- MCScripts
    MaxFaults = 1
SPECIFICATION Spec
INVARIANTS
    CleanAnswerHolds
    ErrorLeavesNothing
    SettledToolStays
    BlockedRunsOnlyUnheard
PROPERTY
    TimedOutStopsBeforeCommit
