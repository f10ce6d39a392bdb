SPECIFICATION Spec
CONSTANTS
    m1 = m1
    m2 = m2
    bad = bad
    c1 = c1
    c2 = c2
    NoOffset = NoOffset
    NoOne = NoOne
    Message <- TwoMessages
    Broken = {}
    Consumer <- TwoConsumers
    BatchSize = 2
    MaxPoll = 2
    LogLimit = 2
    StartLimit = 1
    RebalanceLimit = 1
    FaultLimit = 0
    CrashLimit = 0
SYMMETRY Symmetry
INVARIANTS
    NoSkip
PROPERTIES
    KeepsUp
CHECK_DEADLOCK FALSE
