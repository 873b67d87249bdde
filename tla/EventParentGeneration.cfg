SPECIFICATION Spec
CONSTANTS
    ServerLimit = 2
    DaemonsLimit = 2
    ThreadsPerChild = 1
    StartServers = 2
    MinSpare = 1
    MaxSpare = 3
    MaxSpawnRate = 1
    HoldOff = 0
    Signals = {"usr1"}
    SelfQuits = {}
    Crashes = FALSE
    ForkFails = FALSE
    Disables = FALSE
    EarlyEnds = {1}
    Loads = {0}
    MaxRestarts = 1
    MaxUnread = 1
INVARIANTS
    GenerationEndsLast
\* The parent ends.
CHECK_DEADLOCK FALSE
