SPECIFICATION Spec
CONSTANTS
    r1 = r1  r2 = r2  r3 = r3
    Reporters = {r1, r2, r3}
    Body = Body
    NoInstance = NoInstance
    NewInstance = NewInstance
    Scripts <- BulkOrLaunch
    Share = 30
    MaxActive = 2
    MaxFaults = 1
\* The job ends.
CHECK_DEADLOCK FALSE
SYMMETRY Alike
INVARIANT FinalSaveIsComplete
INVARIANT EveryStepIsKept
PROPERTY ProgressOnlyGrows
