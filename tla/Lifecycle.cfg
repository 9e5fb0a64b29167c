\* Two jobs; either stop() may time out and the set-up fail, or the connection breaks and its
\* subscription is refused, or the service starts in the middle of a job.
CONSTANTS
    MaxJobs = 2
    MaxQueue = 2
    Scenarios = {{"overrun", "setup"}, {"cut", "deaf"}, {"boot", "deaf"}}
SPECIFICATION LifecycleFairSpec
INVARIANT ActsOnJudgedPrint
INVARIANT WindowIsOnePrint
INVARIANT ScopeIsThisPrint
PROPERTY ImplementsGuard
PROPERTY PrintIsWatched
PROPERTY IdleIsReleased
CHECK_DEADLOCK FALSE
