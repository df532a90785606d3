SPECIFICATION Spec
CONSTANTS
    Invocations = {1, 2, 3}
    Pids = {1, 2, 3, 4, 5, 6}
    Slots = {A, B}
    Sessions = {A, B}
    Ports = {"8098", "8099", "8100"}
    Databases = {A, B}
    Verbs = {"ensure", "stop"}
    SessionOf <- TwoSessions
    ApiPort <- SharedPort
    FixturePort <- SharedFixturePort
    Db <- OwnDb
    NoPid = NoPid
    NoSlot = NoSlot
    OnePerSession = TRUE
    Flaky = FALSE
    Postgres = FALSE
    MaxFaults = 0
    MaxInterrupts = 0
SYMMETRY Symmetry
PROPERTIES
    SignalsOnlyItsOwn
    StopLeavesNoWorker
