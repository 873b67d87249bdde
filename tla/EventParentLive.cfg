SPECIFICATION FairSpec
CONSTANTS
    ServerLimit = 2
    DaemonsLimit = 2
    ThreadsPerChild = 1
    StartServers = 2
    MinSpare = 1
    MaxSpare = 3
    MaxSpawnRate = 1
    HoldOff = 0
    Signals = {"usr1", "term", "winch"}
    SelfQuits = {"sick"}
    Crashes = FALSE
    ForkFails = FALSE
    Disables = TRUE
    EarlyEnds = {0}
    Loads = {0}
    MaxRestarts = 1
    MaxUnread = 1
INVARIANT GenerationEndsLast
PROPERTIES
    OldChildrenLeave
    ServerRecovers
    
\* The parent ends.
CHECK_DEADLOCK FALSE
