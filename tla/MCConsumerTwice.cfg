SPECIFICATION Spec
CONSTANTS
    m1 = m1
    m2 = m2
    bad = bad
    c1 = c1
    c2 = c2
    NoOffset = NoOffset
    NoOne = NoOne
    Message <- OneMessage
    Broken = {}
    Consumer <- OneConsumer
    BatchSize = 2
    MaxPoll = 2
    LogLimit = 2
    StartLimit = 1
    RebalanceLimit = 0
    FaultLimit = 0
    CrashLimit = 0
INVARIANTS
    HandledOnce
CHECK_DEADLOCK FALSE
