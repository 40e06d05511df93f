\* Two Jobs of one claim at a time, one rotation, each fault once.
SPECIFICATION FairSpec
CONSTANTS
    Pods = {p1, p2}
    MaxPassword = 2
    ResticEnv <- ConfiguredEnv
    BackoffLimit = 1
    Budget <- EachFaultOnce
INVARIANTS
    TypeOK
    Openable
    SucceededMeansStored
    SucceededMeansMoved
PROPERTIES
    RotationFinishes
