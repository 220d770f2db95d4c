SPECIFICATION FairSpec
CONSTANTS
    t1 = t1  t2 = t2  a1 = a1  a2 = a2  w1 = w1  w2 = w2
    Tasks = {t1, t2}
    Accounts = {a1, a2}
    AccountOf <- TwoAccounts
    Workers = {w1}
    NoTask = NoTask
    Limit = 1
    MaxAttempts = 0
    MaxRetries = 0
    MaxBuilt = 1
    MaxRequests = 0
    MaxLate = 0
    MaxLost = 0
    MaxFaults = 1
    MaxCrashes = 1
\* The bounds run out and every task may have ended.
CHECK_DEADLOCK FALSE
PROPERTY RunningTaskIsTried
