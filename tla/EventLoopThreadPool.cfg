SPECIFICATION PoolSpec
CONSTANTS
    Callers = {c1, c2}
    Owner = owner
    Worker = worker
    NoThread = NoThread
    EarlyThread = FALSE
    ThreadNum = 3
    Detail = 1
    IndexHalf = 4
    SizeRange = 32
    MaxGets = 9
CHECK_DEADLOCK FALSE
INVARIANTS
    HandsOutLoops
    EvenLoad
PROPERTIES
    CallsEnd
