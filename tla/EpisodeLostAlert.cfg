\* Alert only, a quota of one, and a first send that fails.
CONSTANTS
    Actions = {0}
    HasChannel = TRUE
    Cap = 1
    HasGap = FALSE
    MaxCount = 2
SPECIFICATION EpisodeFairSpec
PROPERTY UndeliveredAlertIsRetried
