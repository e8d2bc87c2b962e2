SPECIFICATION ContextSafetySpec
CONSTANTS
    MaxBody = 6
    MaxChunk = 2
    MaxLine = 3
    MaxPosts = 3
    MaxGiven = 2
    Inputs <- MCInputs
INVARIANTS
    RequestInv
    Served
    OneAnswerEach
PROPERTIES
    SentMeansOut
CHECK_DEADLOCK FALSE
