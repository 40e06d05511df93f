\* One backup that users delete and create again, and whose claim they delete.
SPECIFICATION FairSpec
CONSTANTS
    b1 = b1
    b2 = b2
    b3 = b3
    c1 = c1
    c2 = c2
    NoRequest = NoRequest
    Backups = {b1}
    Claims = {c1}
    PVCName <- OwnClaim
    NamespaceOf <- OneNamespace
    TTL <- LongTTL
    MaxRunningBackups = 1
    Namespaces <- All
    ExcludeNamespaces <- None
    MaxUid = 2
    MaxTime = 0
    Budget <- DeleteFaults
INVARIANTS
    NoLostWakeup
    NoLeakedSlot
PROPERTIES
    NotCleanedEarly
    DeletedFreesSlot
CHECK_DEADLOCK FALSE
