\* A send window made negative by SETTINGS limits nothing.
SPECIFICATION Spec
CONSTANTS
    I32Max = 15
    USizeMod = 128
    DefaultWindow = 4
    DefaultMaxFrame = 3
    DefaultMaxConcurrent = 2
    PeerFrames = {"SETTINGS"}
    PeerSettings <- ResizeSettings
    PeerLens = {0, 2}
    PeerIncrements = {7}
    PeerIds = {1}
    PeerEnds = {FALSE}
    AppLens = {1, 4}
    AppEnds = {FALSE}
    MaxTraffic = 6
    MaxCredit = 14
    MaxQueue = 1
    MaxEvents = 1
    InitTransport = "Ready"
    WriteLimit = 100
    Failures = {}
    MaxRequests = 1
PROPERTIES
    StreamSendWithinWindow
