\* Life of requests under every frame and call, with END_STREAM, resets,
\* removal and GOAWAY in both directions; DATA is empty, the increments are too
\* large and rejected.
SPECIFICATION Spec
CONSTANTS
    I32Max = 15
    USizeMod = 128
    DefaultWindow = 4
    DefaultMaxFrame = 3
    DefaultMaxConcurrent = 2
    PeerFrames = {"SETTINGS", "WINDOW_UPDATE", "PING", "GOAWAY", "DATA", "HEADERS", "RST_STREAM", "BAD"}
    PeerSettings <- EmptySettings
    PeerLens = {0}
    PeerIncrements = {14}
    PeerIds = {1, 2, 3}
    PeerEnds = {FALSE, TRUE}
    AppLens = {0}
    AppEnds = {FALSE, TRUE}
    MaxTraffic = 0
    MaxCredit = 14
    MaxQueue = 1
    MaxEvents = 1
    AppCalls = {"HEADERS", "GOAWAY", "RESET", "REMOVE"}
INVARIANTS
    TypeOK
    StreamStateJustified
    EndStreamRecorded
PROPERTIES
    StreamForwardOnly
    DrainingIsFinal
    RequestIdsGrow
    GoAwayCoversRequests
