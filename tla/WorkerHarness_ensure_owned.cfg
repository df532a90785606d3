SPECIFICATION Spec
CONSTANTS
    Invocations = {1, 2}
    Pids = {1, 2, 3, 4}
    Slots = {"A", "B"}
    Sessions = {"A", "B"}
    Ports = {"8098", "8099", "8100"}
    Databases = {"A"}
    Verbs = {"ensure"}
    SessionOf <- TwoSessions
    ApiPort <- SharedPort
    FixturePort <- SharedFixturePort
    Db <- DefaultDb
    NoPid = NoPid
    NoSlot = NoSlot
    OnePerSession = TRUE
    Flaky = FALSE
    Postgres = FALSE
    MaxFaults = 0
    MaxInterrupts = 0
PROPERTIES
    EnsureIsOwned
