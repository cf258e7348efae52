CONSTANTS
    Job = {a, b}
    GraceSeconds = 2
    GapRounds = 3
    PollWait = 1
    MaxDelay = 3
    MaxHandled = 2
SPECIFICATION GovernorFairSpec
PROPERTIES FullWait GraceEnds
CHECK_DEADLOCK FALSE
