CONSTANTS
    a = a
    b = b
    c = c
    Uid = {a, b, c}
    Deps <- KnotDeps
    Trigger <- KnotTriggers
    Spawns <- KnotSpawns
    Registered = {a, c}
    Invalid = {c}
    Contended = {}
    Slots = 2
    MaxRetries = 1
    Threshold = 1
    Interrupts = FALSE
    Limits <- KnotLimits
SPECIFICATION FairSpec
PROPERTIES EverySettled
