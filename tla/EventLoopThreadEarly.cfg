SPECIFICATION Spec
CONSTANTS
    Callers = {c1, c2, c3}
    Owner = owner
    Worker = worker
    NoThread = NoThread
    EarlyThread = TRUE
CHECK_DEADLOCK FALSE
PROPERTIES
    LoopGetsAvailable
