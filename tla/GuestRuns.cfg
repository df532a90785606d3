SPECIFICATION FairSpec
CONSTANTS
    Guest <- HostCall
    Scenarios <- AllScenarios
    RunIds = {1, 2, 3, 4, 5}
    w1 = w1
    w2 = w2
    Workers = {w1, w2}
    Nobody = Nobody
    MaxCrashes = 1
CHECK_DEADLOCK FALSE
INVARIANTS
    EffectsHappenOnce
    WorkOwedIsDone
    RequestsComeInOrder
    CleanupWaitsForTheEnd
    CancelStopsItsTargetsOnly
    ClosedParentsLeaveNothingRunning
    ParentSeesTheLastIteration
PROPERTIES
    EveryRunEnds
