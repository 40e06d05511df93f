\* The cache lags more than 2s behind when a backup finishes.
SPECIFICATION FairSpec
CONSTANTS
    b1 = b1
    b2 = b2
    b3 = b3
    c1 = c1
    c2 = c2
    NoRequest = NoRequest
    Backups = {b1, b2}
    Claims = {c1, c2}
    PVCName <- OwnClaim
    NamespaceOf <- OneNamespace
    TTL <- LongTTL
    MaxRunningBackups = 1
    Namespaces <- All
    ExcludeNamespaces <- None
    MaxUid = 1
    MaxTime = 0
    Budget <- PollFaults
PROPERTIES
    EveryBackupFinishes
