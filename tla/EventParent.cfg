CONSTANTS
    ServerLimit = 3
    DaemonsLimit = 2
    ThreadsPerChild = 3
    StartServers = 2
    MinSpare = 1
    MaxSpare = 5
    MaxSpawnRate = 2
    HoldOff = 1
    Signals = {"usr1", "hup"}
    SelfQuits = {}
    Crashes = TRUE
    Disables = FALSE
    ForkFails = TRUE
    EarlyEnds = {}
    MaxRestarts = 1
    MaxUnread = 1
    Loads = {0, 3}
SPECIFICATION Spec
INVARIANTS TypeOK LimitCoversChildren   GenerationEndsLast
CHECK_DEADLOCK FALSE
