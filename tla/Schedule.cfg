\* PVCBackups that outlast the interval, any fault: what is made, where and when.
SPECIFICATION FairSpec
CONSTANTS
    c1 = c1
    Claims = {c1}
    Namespaces = {"a"}
    NamespaceOf <- OneClaim
    FlagSettings <- SomeFlags
    DefaultSchedule = 2
    Schedules <- Annotations
    TolerancePercent = 60
    DefaultTTL = 3
    ClockSkew <- Behind
    MaxUid = 2
    MaxTime = 6
    Faults <- AnyFault
    MaxFaults = 1
INVARIANTS
    TypeOK
    ScheduledOnce
    OnlyWanted
PROPERTIES
    DueIsMade
CHECK_DEADLOCK FALSE
