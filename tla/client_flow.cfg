\* Flow control of the client over a TLS transport: two streams, of which the
\* peer addresses the first; it resizes
\* the initial window and the frames, grants credit, sends DATA and GOAWAY while
\* the client uploads; handshake, writes taken in part, shutdown and errors.
SPECIFICATION Spec
CONSTANTS
    I32Max = 15
    USizeMod = 128
    DefaultWindow = 4
    DefaultMaxFrame = 3
    DefaultMaxConcurrent = 2
    PeerFrames = {"SETTINGS", "WINDOW_UPDATE", "DATA", "GOAWAY"}
    PeerSettings <- FlowSettings
    PeerLens = {0, 3}
    PeerIncrements = {7}
    PeerIds = {1}
    PeerEnds = {FALSE}
    AppLens = {4}
    AppEnds = {FALSE}
    MaxTraffic = 6
    MaxCredit = 14
    MaxQueue = 3
    MaxEvents = 1
    InitTransport = "Handshaking"
    WriteLimit = 3
    Failures = {"Closed", "Error"}
    MaxRequests = 2
INVARIANTS
    TypeOK
    ConnLedger
    ConnWindowNonNegative
    PeerNotStarved
    StreamLedger
    DataDelivered
    HeadersFirst
