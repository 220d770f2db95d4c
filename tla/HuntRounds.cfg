SPECIFICATION Spec
CONSTANTS
    t1 = t1  t2 = t2  a1 = a1  a2 = a2  w1 = w1  w2 = w2
    Tasks = {t1}
    Accounts = {a1}
    AccountOf <- SameAccount
    Workers = {w1, w2}
    NoTask = NoTask
    Limit = 1
    MaxAttempts = 0
    MaxRetries = 1
    MaxBuilt = 2
    MaxRequests = 2
    MaxLate = 1
    MaxLost = 1
    MaxFaults = 1
    MaxCrashes = 1
\* The bounds run out and every task may have ended.
CHECK_DEADLOCK FALSE
SYMMETRY Interchangeable
INVARIANT OneRoundPerTask
INVARIANT CheckedLaunchIsSafe
INVARIANT SuccessNamesInstance
PROPERTY PauseHolds
