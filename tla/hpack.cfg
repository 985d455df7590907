\* Header blocks and table sizes up to the default, in any order.
\* Another library stops after its last block.
CHECK_DEADLOCK FALSE
SPECIFICATION Spec
CONSTANTS
    Fields <- AllFields
    Size <- FieldSize
    StaticFields <- StaticF
    StaticNames <- StaticN
    TableSize = 4
    HeaderLists <- Lists
    SettingsSizes = {0, 2, 3, 4}
    RefusedLists <- StaticOnly
    MaxBlocks = 4
    OtherLists <- OtherL
    UpdateSizes = {0, 2, 4}
    MaxOtherBlocks = 3
INVARIANTS
    TypeOK
    TablesInStep
PROPERTIES
    HeadersArrive
