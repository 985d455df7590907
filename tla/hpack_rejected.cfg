\* A server that rejects a HEADERS frame does not decode its block.
\* Another library stops after its last block.
CHECK_DEADLOCK FALSE
SPECIFICATION Spec
CONSTANTS
    Fields <- AllFields
    Size <- FieldSize
    StaticFields <- StaticF
    StaticNames <- StaticN
    TableSize = 4
    HeaderLists <- Lists
    SettingsSizes = {}
    RefusedLists <- Lists
    MaxBlocks = 2
    OtherLists <- OtherL
    UpdateSizes = {}
    MaxOtherBlocks = 0
PROPERTIES
    HeadersArrive
