SPECIFICATION Spec
CONSTANTS
    j1 = j1  j2 = j2  j3 = j3  i1 = i1
    Jobs = {j1, j2, j3}
    Keys = {i1}
    NoKey = NoKey
    NoLock = NoLock
    KeyOf <- OneKey
    MaxConcurrent = 2
    KeepFinished = 1
    CancelTargets = {j2}
    MaxFaults = 1
    MaxCrashes = 1
INVARIANT SameInstanceRunsSerially
INVARIANT NoOrphanedRow
INVARIANT StatusTellsWhetherItRan
PROPERTY FinalMeansFinal
