\* Warm-up and window bounds small enough that entries age out, reset and refill.
CONSTANTS
    CountTimes = {1, 3}
    Ratios = {3, 6}
    MinFrames = 2
    MinSeconds = 1
    MaxTime = 5
    MaxFrames = 4
    MaxSkew = 1
SPECIFICATION WindowSpec
INVARIANT WindowTypeOK
PROPERTY VerdictIsReference
