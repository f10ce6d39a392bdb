SPECIFICATION Spec
CONSTANTS
    w1 = w1
    w2 = w2
    Worker = {w1, w2}
    MaxRecords <- OneRecord
INVARIANTS
    TypeOK
    HandledForReal
    OwnEntriesKept
    QuietClose
PROPERTY Terminates
