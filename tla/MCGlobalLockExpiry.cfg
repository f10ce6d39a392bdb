SPECIFICATION Spec
CONSTANTS
    t1 = t1
    t2 = t2
    t3 = t3
    j1 = j1
    j2 = j2
    Thread <- TwoThreads
    Jvm = {j1}
    Home <- HomeOfTwo
    Key = {k1}
    Serial = {s1, s2}
    s1 = s1
    s2 = s2
    NoValue = NoValue
    Nested = FALSE
    Alive = 1
    MillisPerSecond = 1000
    CleanLimit = 0
    FaultLimit = 0
    CrashLimit = 0
INVARIANT GoneInTime
