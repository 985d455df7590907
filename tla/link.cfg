\* A client and a server of this library, two exchanges, resets and GOAWAY.
\* Nothing is left to do when every exchange is over.
CHECK_DEADLOCK FALSE
SPECIFICATION Spec
CONSTANTS
    I32Max = 31
    USizeMod = 256
    DefaultWindow = 4
    DefaultMaxFrame = 3
    DefaultMaxConcurrent = 2
    MaxTraffic = 27
    MaxCredit = 30
    MaxQueue = 12
    MaxEvents = 1
    Requests <- Fitting
    Refusals = {"RESET", "GOAWAY"}
INVARIANTS
    LedgersExact
    StreamWindowsAgree
    ConnectionWindowsAgree
PROPERTIES
    MessagesArrive
    RequestsAnswered
    UploadsArrive
