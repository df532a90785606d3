SPECIFICATION Spec
CONSTANTS
    Invocations = {1, 2}
    Pids = {1, 2, 3, 4}
    Slots = {"A"}
    Sessions = {"A"}
    Ports = {"8098", "8099", "8100"}
    Databases = {"A"}
    Verbs = {"ensure"}
    SessionOf <- OneSlot
    ApiPort <- OnePort
    FixturePort <- OneFixture
    Db <- OneDb
    NoPid = NoPid
    NoSlot = NoSlot
    OnePerSession = TRUE
    Flaky = FALSE
    Postgres = FALSE
    MaxFaults = 0
    MaxInterrupts = 0
PROPERTIES
    DroppedFixturePidfileIsStale
