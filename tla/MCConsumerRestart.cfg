SPECIFICATION FairSpec
CONSTANTS
    m1 = m1
    m2 = m2
    bad = bad
    c1 = c1
    c2 = c2
    NoOffset = NoOffset
    NoOne = NoOne
    Message <- SomeBroken
    Broken = {bad}
    Consumer <- OneConsumer
    BatchSize = 2
    MaxPoll = 2
    LogLimit = 2
    StartLimit = 2
    RebalanceLimit = 1
    FaultLimit = 1
    CrashLimit = 1
INVARIANTS
    TypeOK
    NoSkip
    ConsumedIsHandled
    CleanStop
PROPERTIES
    AllHandled
CHECK_DEADLOCK FALSE
