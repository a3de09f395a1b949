SPECIFICATION Spec
CONSTANTS
    MaxRetries = 1
    BaudRates <- OneRate
    InitialBaud = "9600"
    RpcRxCapacity = 1
    MaxFlipperData = 2
    MaxChunks = 1
    MaxSessions = 3
INVARIANTS
    TypeOK
    SessionStreamIntact
    AcknowledgedIsKept
    SingleUartReader
