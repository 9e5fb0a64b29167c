\* Two frames and settings, ids that wrap around, three delays; stops when stopped.
CONSTANTS
    Frames = {f1, f2}
    Settings = {s1, s2}
    IdModulus = 2
    Backoffs = 3
    MayOverrun = TRUE
SPECIFICATION FairSpec
INVARIANT DaemonReleased
PROPERTY ImplementsService
PROPERTY Recovers
CHECK_DEADLOCK FALSE
