\* One Job at a time; a node fails while restic holds its lock.
SPECIFICATION FairSpec
CONSTANTS
    Pods = {p1}
    MaxPassword = 2
    ResticEnv <- ConfiguredEnv
    BackoffLimit = 1
    Budget <- NodeFailures
PROPERTIES
    StaleLockRemoved
