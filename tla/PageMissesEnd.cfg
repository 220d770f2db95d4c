SPECIFICATION FairSpec
CONSTANTS
    Jobs = {j1}
    Buffer = 1
    MaxLists = 0
    MaxOutages = 0
\* A page that has shown the end has nothing left to do.
CHECK_DEADLOCK FALSE
PROPERTY DroppedEventsDoNoHarm
