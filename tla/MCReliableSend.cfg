SPECIFICATION FairSpec
CONSTANTS
    m1 = m1
    i1 = i1
    NoRow = NoRow
    NoInstance = NoInstance
    Kinds = {"sync", "async"}
    Message <- OneMessage
    Instance <- OneInstance
    RetryLimit = 2
    PageSize = 2
    FaultLimit = 1
    CrashLimit = 1
INVARIANTS
    TypeOK
    Tracked
    NormalIsSent
    NoPrematureDeath
    Evidence
    BoundedAttempts
PROPERTIES
    UnsentIsKept
    DeathIsFinal
    KeepsPromise
    Drains
