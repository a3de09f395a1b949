SPECIFICATION CountedSpec
CONSTANTS
    MaxRetries = 3
    BaudRates <- Rates
    InitialBaud = "9600"
    RpcRxCapacity = 1
    MaxFlipperData = 0
    MaxChunks = 0
    MaxSessions = 0
INVARIANT RetryBudget
