\* One slot, one backup here and one in a namespace that another release handles.
SPECIFICATION FairSpec
CONSTANTS
    b1 = b1
    b2 = b2
    b3 = b3
    c1 = c1
    c2 = c2
    NoRequest = NoRequest
    Backups = {b1, b3}
    Claims = {c1, c2}
    PVCName <- OwnClaim
    NamespaceOf <- TwoNamespaces
    TTL <- LongTTL
    MaxRunningBackups = 1
    Namespaces <- All
    ExcludeNamespaces <- Other
    MaxUid = 1
    MaxTime = 0
    Budget <- ProgressFaults
INVARIANTS
    SlotsOnlyHandled
PROPERTIES
    EveryBackupFinishes
    CleanedUp
