SPECIFICATION Spec
CONSTANTS
    Cap = 2
    MaxUnits = 5
    MaxSend = 2
    MaxIn = 2
    MaxIdle = 2
INVARIANTS
    StreamIntact
    EdgeInv
    ConnectionInv
PROPERTIES
    IdleCloses
    OutputDrained
