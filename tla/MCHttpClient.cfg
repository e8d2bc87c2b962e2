SPECIFICATION HttpSpec
CONSTANTS
    MaxIn = 2
    Responses <- MCResponses
    MaxBody = 9
    MaxChunk = 2
    MaxLine = 3
    MaxIdle = 2
    Site = site
    Hosts = {site}
    Lists = {{"v4", "v6"}}
    Retry = 2
    MaxText = 3
INVARIANTS
    ClientInv
    NoLostInput
    RequestArrives
PROPERTIES
    ConnectAnswered
    InputServed
    DnsServes
    GetEnds
