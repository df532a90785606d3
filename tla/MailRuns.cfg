SPECIFICATION MailFairSpec
CONSTANTS
    Guest <- PortCall
    Handler <- Verdict
    Shown <- Published
    Scenarios <- WaitingTests
    RunIds = {1, 2, 3, 4}
    LockKeys = {"k"}
    w1 = w1
    w2 = w2
    Workers = {w1, w2}
    Nobody = Nobody
    MaxCrashes = 1
CHECK_DEADLOCK FALSE
INVARIANTS
    MailTypeOK
    SignalsAreConsumedOnceInOrder
    ParkedRunsHaveNothingToHear
    BudgetIsForAllTheWaits
    ResultsMatchTheDeliveries
    LocksPassByReleaseOrByTime
    UpdatesAreHandledOnceInOrder
    WaitsLeaveNoUpdatePending
    
    SuspendedRunsCanBeRead
    KeyedRunsDoNotOverlap
PROPERTIES
    DeadlinesDoNotMove
    EveryWaitEnds
