\* All three actions, a quota of one and an interval; one further message would show.
CONSTANTS
    Actions = {0, 1, 2}
    HasChannel = TRUE
    Cap = 1
    HasGap = TRUE
    MaxCount = 2
SPECIFICATION EpisodeFairSpec
INVARIANT EpisodeTypeOK
INVARIANT QuotaPerPrint
PROPERTY ActsOncePerEpisode
PROPERTY ActionIsRetried
