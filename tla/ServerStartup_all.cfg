\* Two servers on one port, the second with AUTO_KILL_PORT.
CONSTANTS
    Server = {s1, s2}
    Nobody = nobody
    AutoKill = {s2}
    MaxPolls = 2
    MaxWork = 1
SPECIFICATION FairSpec
INVARIANTS
    OneServerTakesWork
    TunnelEndsWithMain
    CleanShutdownIsQuiet
PROPERTIES
    StartSettles
    ShutdownEnds
CHECK_DEADLOCK FALSE
