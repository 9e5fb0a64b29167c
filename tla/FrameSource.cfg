\* Two waiters; two invalid parts end a connection; three frames and two faults.
CONSTANTS
    Waiters = {w1, w2}
    MaxInvalid = 2
    MaxFrames = 3
    MaxFaults = 2
SPECIFICATION FairSpec
PROPERTY ImplementsFeed
PROPERTY StreamResumes
PROPERTY ClosedComesToRest
CHECK_DEADLOCK FALSE
