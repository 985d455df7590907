\* The last HEADERS of a request, its trailers, end it and are refused.
SPECIFICATION Spec
CONSTANTS
    I32Max = 15
    USizeMod = 128
    DefaultWindow = 4
    DefaultMaxFrame = 3
    DefaultMaxConcurrent = 2
    PeerFrames = {"SETTINGS", "HEADERS"}
    PeerSettings <- EmptySettings
    PeerLens = {0}
    PeerIncrements = {14}
    PeerIds = {1, 3}
    PeerEnds = {FALSE, TRUE}
    AppLens = {0}
    AppEnds = {FALSE}
    MaxTraffic = 0
    MaxCredit = 14
    MaxQueue = 1
    MaxEvents = 1
    AppCalls = {"HEADERS"}
INVARIANTS
    PeerEndRecorded
