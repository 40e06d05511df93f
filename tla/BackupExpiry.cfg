\* Two backups of one claim, one slot: run in turn, cleaned up, deleted when their TTL passes.
SPECIFICATION FairSpec
CONSTANTS
    b1 = b1
    b2 = b2
    b3 = b3
    c1 = c1
    c2 = c2
    NoRequest = NoRequest
    Backups = {b1, b2}
    Claims = {c1}
    PVCName <- SameClaim
    NamespaceOf <- OneNamespace
    TTL <- ShortTTL
    MaxRunningBackups = 1
    Namespaces <- All
    ExcludeNamespaces <- None
    MaxUid = 1
    MaxTime = 1
    Budget <- RestartOnce
INVARIANTS
    NewestFinishedKept
PROPERTIES
    ExpiredIsDeleted
    EveryBackupFinishes
