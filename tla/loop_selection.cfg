SPECIFICATION FairSpec
CONSTANTS
    a = a b = b c = c
    Order <- MCOrder
    Custom = {a}
    Slots = 2
    Grace = 1
    Shapes <- MCShapes
    MaxOddities = 2
    MaxEvents = 1
INVARIANTS VerdictsGrounded SkipRecoverable
PROPERTIES SelectionKept NoBusyLoop RunEnds
CHECK_DEADLOCK FALSE
