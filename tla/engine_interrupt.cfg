CONSTANTS
    a = a
    b = b
    c = c
    Uid = {a, b}
    Deps <- PairDeps
    Trigger <- PairMixed
    Spawns <- PairSpawns
    Registered = {a, b}
    Invalid = {}
    Contended = {b}
    Slots = 2
    MaxRetries = 1
    Threshold = 2
    Interrupts = TRUE
    Limits <- InterruptLimits
SPECIFICATION Spec
INVARIANTS NoLostJob Exclusive RetryBudget OneBody
PROPERTIES DependencyBarrier
