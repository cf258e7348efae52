CONSTANTS
    Job = {"a", "b", "c", "d"}
    Capacities = {"workers"}
    Rates = {"api"}
    Cap <- PoolCap
    Interval <- PoolInterval
    Needs <- PoolNeeds
    Requests = {2}
    MaxSuspend = 1
    MaxSignals = 1
    MaxTime = 2
    MaxSkew = 1
SPECIFICATION Spec
INVARIANTS CapacityKept SuspensionsKept
PROPERTIES RateKept
CHECK_DEADLOCK FALSE
