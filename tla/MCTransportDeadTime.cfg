SPECIFICATION Spec
CONSTANTS
    MaxRetries = 2
    BaudRates <- Rates
    InitialBaud = "9600"
    RpcRxCapacity = 1
    MaxFlipperData = 1
    MaxChunks = 1
    MaxSessions = 1
PROPERTY DeadTimeIsSilent
