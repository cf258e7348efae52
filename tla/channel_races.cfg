CONSTANTS
    Exec = {x, y}
    MaxSignals = 1
    PipeFaults = TRUE
SPECIFICATION FairSpec
INVARIANTS ResultsCount SignalsArrive NoWorkerLeft
PROPERTIES EveryExecutionSettled
CHECK_DEADLOCK FALSE
