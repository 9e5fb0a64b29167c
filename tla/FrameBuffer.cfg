\* Two consumers, room for two candidates, lifetimes shorter than the clock.
CONSTANTS
    Consumers = {c1, c2}
    Scores = {0, 1}
    Capacity = 2
    MaxAge = 2
    MaxTime = 4
    MaxEpoch = 1
SPECIFICATION Spec
INVARIANT NoLostWakeup
PROPERTY TakesBestEligible
PROPERTY EvictsOnlyWhenFull
