CONSTANTS
    LastItem = 4
    Bad = {2}
    OtherGroup = {o, p}
    Alike = {p}
    PageSize = 2
    Limits = {1, 3}
    MaxScans = 3
    MaxSlips = 1
SPECIFICATION FairSpec
INVARIANTS CleanScansFind
PROPERTIES MissingIsGone ScanEnds
CHECK_DEADLOCK FALSE
