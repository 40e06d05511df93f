\* A restore with a target, one without, and one of another release.
SPECIFICATION FairSpec
CONSTANTS
    r1 = r1
    r2 = r2
    r3 = r3
    c1 = c1
    NoRequest = NoRequest
    NoTarget = NoTarget
    Restores = {r1, r2, r3}
    Claims = {c1}
    Target <- OneTarget
    HandledRestores = {r1, r2}
    MaxUid = 1
    Budget <- ProgressFaults
PROPERTIES
    EveryRestoreFinishes
CHECK_DEADLOCK FALSE
