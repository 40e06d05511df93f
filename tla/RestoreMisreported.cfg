\* One restore, no faults.
SPECIFICATION Spec
CONSTANTS
    r1 = r1
    r2 = r2
    r3 = r3
    c1 = c1
    NoRequest = NoRequest
    NoTarget = NoTarget
    Restores = {r1}
    Claims = {c1}
    Target <- SameTarget
    HandledRestores = {r1}
    MaxUid = 1
    Budget <- NoFaults
INVARIANTS
    FailedMeansNotRestored
CHECK_DEADLOCK FALSE
