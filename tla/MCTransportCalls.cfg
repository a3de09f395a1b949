SPECIFICATION FairSpec
CONSTANTS
    MaxRetries = 2
    BaudRates <- OneRate
    InitialBaud = "9600"
    RpcRxCapacity = 1
    MaxFlipperData = 0
    MaxChunks = 1
    MaxSessions = 1
PROPERTIES
    CallsReturn
    LinkKeepsPromises
