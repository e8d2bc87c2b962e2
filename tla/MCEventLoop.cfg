SPECIFICATION Spec
CONSTANTS
    l1 = l1
    l2 = l2
    main = main
    NoThread = NoThread
    f1 = f1
    f2 = f2
    f3 = f3
    Loops <- MCLoops
    Callers <- MCCallers
    Fns = {f1, f2, f3}
    Posts <- MCPosts
    Stoppable <- MCStoppable
    PipeCap = 2
    EdgeOnEveryWrite <- MCEveryWrite
INVARIANTS
    LoopInv
    
    FifoExactlyOnce
    NoLostWakeup
PROPERTIES
    CallsReturn
    ImplementsTaskQueue
