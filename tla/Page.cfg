SPECIFICATION PageSpec
CONSTANTS
    Jobs = {j1}
    Buffer = 2
    MaxLists = 2
    MaxOutages = 2
    Instances = {i1}
    MaxChanges = 2
    MaxReads = 1
    MaxRequests = 1
    MaxClicks = 3
    MaxLost = 1
    Rows = {r}
    Accounts = {"a", "b"}
    Machines = {"i", "j", "k"}
    First <- MCFirst
    OwnerOf <- MCOwner
    Proxies = {"p"}
    NoProxy = NoProxy
    MaxAsked = 2
\* The bounds run out.
CHECK_DEADLOCK FALSE
INVARIANT CallbackRunsOnce
INVARIANT EndIsAnnounced
 
 
INVARIANT InstancesHaveAccounts
PROPERTY ListCatchesUp
PROPERTY StatesSettle
