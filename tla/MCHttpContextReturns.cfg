SPECIFICATION ContextSpec
CONSTANTS
    MaxBody = 6
    MaxChunk = 2
    MaxLine = 3
    MaxPosts = 1
    MaxGiven = 2
    Inputs <- MCOneInput
PROPERTIES
    EveryParseReturns
CHECK_DEADLOCK FALSE
