\* Two backups, one slot: a restart, a lagging cache, failing calls, a failing Job.
SPECIFICATION Spec
CONSTANTS
    b1 = b1
    b2 = b2
    b3 = b3
    c1 = c1
    c2 = c2
    NoRequest = NoRequest
    Backups = {b1, b2}
    Claims = {c1}
    PVCName <- SameClaim
    NamespaceOf <- OneNamespace
    TTL <- LongTTL
    MaxRunningBackups = 1
    Namespaces <- All
    ExcludeNamespaces <- None
    MaxUid = 1
    MaxTime = 1
    Budget <- LimitFaults
INVARIANTS
    TypeOK
    RunningLimit
    SucceededMeansBackedUp
    NoLostWakeup
PROPERTIES
    ImplementsLifecycle
    FinishedIsFinal
    NoResurrection
SYMMETRY BackupSymmetry
CHECK_DEADLOCK FALSE
