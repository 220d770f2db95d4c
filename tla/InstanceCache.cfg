SPECIFICATION FairSpec
CONSTANTS
    i1 = i1  All = All  account = account  c1 = c1
    Instances = {i1}
    Syncs = {All, account}
    Callers = {c1}
    MaxRequests = 2
    MaxFaults = 1
    MaxCrashes = 1
INVARIANT OneLoopPerInstance
PROPERTY LiveRowIsKept
PROPERTY CacheConverges
