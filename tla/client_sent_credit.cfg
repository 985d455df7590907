\* DATA received refills the window that bounds what is sent.
SPECIFICATION Spec
CONSTANTS
    I32Max = 15
    USizeMod = 128
    DefaultWindow = 4
    DefaultMaxFrame = 3
    DefaultMaxConcurrent = 2
    PeerFrames = {"SETTINGS", "DATA"}
    PeerSettings <- EmptySettings
    PeerLens = {0, 2}
    PeerIncrements = {7}
    PeerIds = {1}
    PeerEnds = {FALSE}
    AppLens = {2, 3}
    AppEnds = {FALSE}
    MaxTraffic = 12
    MaxCredit = 14
    MaxQueue = 1
    MaxEvents = 1
    InitTransport = "Ready"
    WriteLimit = 100
    Failures = {}
    MaxRequests = 2
INVARIANTS
    SentWithinCredit
