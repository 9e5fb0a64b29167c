\* One channel or none; two places for each kind of command.
CONSTANTS
    MaxControls = 2
    MaxCommands = 2
    MaxConsecutive = 3
    Configurations = {{}, {"telegram"}, {"discord"}}
SPECIFICATION FairSpec
INVARIANT ControlWaitsForOne
PROPERTY ControlIsRun
PROPERTY GatewayRecovers
PROPERTY ChannelsComeToRest
CHECK_DEADLOCK FALSE
