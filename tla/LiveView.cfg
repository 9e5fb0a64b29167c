\* One stream and one request for a single picture; two browsers for one proxy slot.
CONSTANTS
    Streams = {s1}
    Snapshots = {r1}
    Pumps = {p1, p2}
    ProxyViewers = 1
    Visits = {{s1, r1}, {p1, p2}}
    MaxPublished = 2
SPECIFICATION ViewFairSpec
INVARIANT ViewTypeOK
PROPERTY NewestIsSent
PROPERTY ViewSettles
PROPERTY SlotsComeBack
PROPERTY ServerComesToRest
CHECK_DEADLOCK FALSE
