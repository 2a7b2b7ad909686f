CONSTANTS
    p1 = p1
    p2 = p2
    Procs <- MCProcs
    Parents = {1}
    Moments <- MCWeeks
    Sched <- MCSched
    NoSlot = NoSlot
    MaxFailures = 2
    MaxHomework = 2
    MaxChanges = 1
    Tried <- MCTried
    Horizon = 336
SPECIFICATION MFairSpec
CHECK_DEADLOCK FALSE
INVARIANTS
    AtMostOneReport
    MarksSound
    EveryHourInOneReport
    ReportsPartitionHomework
    EmptyOnce
PROPERTIES
    DueGetsTurn
    MissedIsFinal
