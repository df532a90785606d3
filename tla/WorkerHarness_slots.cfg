SPECIFICATION Spec
CONSTANTS
    Invocations = {1, 2, 3}
    Pids = {1, 2, 3, 4, 5, 6}
    Slots = {"A", "A2"}
    Sessions = {"A"}
    Ports = {"8098", "8099", "8100"}
    Databases = {"A"}
    Verbs = {"ensure", "crash", "stop", "stop-worker"}
    SessionOf <- OneSession
    ApiPort <- OwnPorts
    FixturePort <- OneFixture
    Db <- OneDb
    NoPid = NoPid
    NoSlot = NoSlot
    OnePerSession = TRUE
    Flaky = FALSE
    Postgres = FALSE
    MaxFaults = 1
    MaxInterrupts = 1
INVARIANTS
    CrashKilledItsWorker
    LiveWorkersAreTracked
PROPERTIES
    SignalsOnlyItsOwn
    OnlyStopEndsTheFixture
