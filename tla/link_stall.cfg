\* A response longer than the initial window of its stream.
\* Nothing is left to do when the exchange is over, or stuck.
CHECK_DEADLOCK FALSE
SPECIFICATION Spec
CONSTANTS
    I32Max = 31
    USizeMod = 256
    DefaultWindow = 4
    DefaultMaxFrame = 3
    DefaultMaxConcurrent = 2
    MaxTraffic = 30
    MaxCredit = 30
    MaxQueue = 12
    MaxEvents = 1
    Requests <- TooLong
    Refusals = {}
PROPERTIES
    RequestsAnswered
