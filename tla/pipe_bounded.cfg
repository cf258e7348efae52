CONSTANTS
    Capacity = 2
    Buffer = 2
    MaxMessages = 5
    Inherited = TRUE
SPECIFICATION FairSpec
INVARIANTS BoundedLoss
PROPERTIES Released
CHECK_DEADLOCK FALSE
