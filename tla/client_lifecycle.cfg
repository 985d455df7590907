\* Life of two streams under every frame and call, with END_STREAM and resets.
SPECIFICATION Spec
CONSTANTS
    I32Max = 15
    USizeMod = 128
    DefaultWindow = 4
    DefaultMaxFrame = 3
    DefaultMaxConcurrent = 2
    PeerFrames = {"SETTINGS", "PING", "GOAWAY", "DATA", "HEADERS", "RST_STREAM", "BAD"}
    PeerSettings <- EmptySettings
    PeerLens = {0, 1}
    PeerIncrements = {7}
    PeerIds = {1, 3, 5}
    PeerEnds = {FALSE, TRUE}
    AppLens = {0, 1}
    AppEnds = {FALSE, TRUE}
    MaxTraffic = 1
    MaxCredit = 14
    MaxQueue = 1
    MaxEvents = 1
    InitTransport = "Ready"
    WriteLimit = 100
    Failures = {}
    MaxRequests = 2
INVARIANTS
    StreamStateJustified
    AcceptedEndRecorded
PROPERTIES
    StreamForwardOnly
    DrainingIsFinal
