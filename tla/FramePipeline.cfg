\* Two saves, each of which may change the criteria, the capacity and the switch.
CONSTANTS
    Capacities = {4, 5}
    MaxSaves = 2
SPECIFICATION PipelineFairSpec
INVARIANT PipelineTypeOK
INVARIANT ScoredBegunUnderCriteria
PROPERTY ScoringContinues
