SPECIFICATION Spec
CONSTANTS
    Base = 2
    kBufferOffset = 2
    InitCap = 2
    ExtBuffer = 2
    IntLens = {2}
    MaxLen = 3
    MaxSize = 12
VIEW MCView
INVARIANTS
    BufferInv
    FrontInt
PROPERTIES
    ImplementsByteQueue
