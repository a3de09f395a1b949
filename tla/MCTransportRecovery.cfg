SPECIFICATION FairSpec
CONSTANTS
    MaxRetries = 2
    BaudRates <- OneRate
    InitialBaud = "9600"
    RpcRxCapacity = 1
    MaxFlipperData = 1
    MaxChunks = 0
    MaxSessions = 1
PROPERTIES
    LossClosesProxy
    LossIsRetried
    RetryIsHonoured
