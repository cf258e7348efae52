CONSTANTS
    Jobs = {a}
    Nobody = Nobody
    MaxRetries = 1
    MaxRows = 4
    MaxEnqueues = 2
    MaxOps = 3
    MaxFaults = 2
SPECIFICATION FairSpec
INVARIANTS NotForgotten ActivationsDistinct TrailAgrees
PROPERTIES SkipHasGrounds RetriedRuns
CHECK_DEADLOCK FALSE
