CONSTANTS
    a = a
    b = b
    c = c
    Uid = {a, b}
    Deps <- PairDeps
    Trigger <- PairOnce
    Spawns <- PairSpawns
    Registered = {a, b}
    Invalid = {}
    Contended = {b}
    Slots = 2
    MaxRetries = 1
    Threshold = 2
    Interrupts = FALSE
    Limits <- FaultLimits
SPECIFICATION Spec
INVARIANTS MemoryMirrorsDisk
PROPERTIES OnceNotRerun KeepsLedger
