SPECIFICATION FairSpec
CONSTANTS
    Invocations = {1, 2}
    Pids = {1, 2, 3, 4}
    Slots = {"A", "B"}
    Sessions = {"A", "B"}
    Ports = {"8098", "8099", "8100"}
    Databases = {"A", "B"}
    Verbs = {"ensure", "crash", "stop"}
    SessionOf <- TwoSessions
    ApiPort <- SharedPort
    FixturePort <- SharedFixturePort
    Db <- OwnDb
    NoPid = NoPid
    NoSlot = NoSlot
    OnePerSession = TRUE
    Flaky = FALSE
    Postgres = TRUE
    MaxFaults = 1
    MaxInterrupts = 0
PROPERTIES
    ReadyKeyAuthenticates
    
