SPECIFICATION Spec
CONSTANTS
    m1 = m1
    m2 = m2
    p1 = p1
    p2 = p2
    None = None
    Message = {m1, m2}
    Request = {m1, m2}
    Async = {m1}
    Producer = {p1, p2}
    Limit = 3
    Start = {4}
    MaxTime = 1
INVARIANTS
    TypeOK
    IdsDiffer
    WorkedAtEnd
PROPERTIES
    Stops
    Answered
