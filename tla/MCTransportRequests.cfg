SPECIFICATION Spec
CONSTANTS
    MaxRetries = 2
    BaudRates <- Rates
    InitialBaud = "9600"
    RpcRxCapacity = 1
    MaxFlipperData = 0
    MaxChunks = 2
    MaxSessions = 2
INVARIANTS
    EstablishmentOwnsMachine
    ConfirmedMeansReceived
    RpcReadyIsAgreed
    ReadyIsAgreed
    NotStranded
    BaudIsAgreed
PROPERTY
    ImplementsLink
