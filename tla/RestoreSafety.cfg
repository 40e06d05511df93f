\* Two restores of one claim, deleted and created again; a user may create the claim.
SPECIFICATION Spec
CONSTANTS
    r1 = r1
    r2 = r2
    r3 = r3
    c1 = c1
    NoRequest = NoRequest
    NoTarget = NoTarget
    Restores = {r1, r2}
    Claims = {c1}
    Target <- SameTarget
    HandledRestores = {r1, r2}
    MaxUid = 2
    Budget <- AllFaults
INVARIANTS
    TypeOK
    NeverOverwrites
    SucceededMeansRestored
    NoLostWakeup
PROPERTIES
    ResultIsFinal
SYMMETRY RestoreSymmetry
CHECK_DEADLOCK FALSE
