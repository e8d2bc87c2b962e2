SPECIFICATION HttpSpec
CONSTANTS
    MaxConns = 3
    MaxFds = 3
    MaxMsgs = 1
    MaxBacklog = 2
    InitEvents = 1
INVARIANTS
    ServerInv
    NothingLeaked
    DestroyedOnce
    ContextInv
    NoLostAccept
PROPERTIES
    BacklogServed
