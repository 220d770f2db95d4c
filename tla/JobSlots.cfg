SPECIFICATION LiveSpec
CONSTANTS
    j1 = j1  j2 = j2  j3 = j3  i1 = i1
    Jobs = {j1, j2, j3}
    Keys = {i1}
    NoKey = NoKey
    NoLock = NoLock
    KeyOf <- MixedKeys
    MaxConcurrent = 1
    KeepFinished = 1
    CancelTargets = {j2}
    MaxFaults = 0
    MaxCrashes = 0
INVARIANT AtMostMaxConcurrent
PROPERTY CancelNeedsNoSlot
