SPECIFICATION CodingSpec
CHECK_DEADLOCK FALSE
CONSTANTS
    WordBits = 15
    Octets <- OctetsOf
    IntegerData <- IntegerSamples
    IntegerValues <- ValueSamples
    HuffmanData <- DataSamples
    HuffmanTexts <- TextSamples
    Fields <- FieldSamples
    Tables <- TableSamples
    FieldData <- FieldDataSamples
    FrameData <- FrameDataSamples
    FrameValues <- FrameSamples
    Junk <- JunkBytes
    Nothing = Nothing
INVARIANTS
    IntegerDecodedExactly
    IntegerRoundTrip
    HuffmanUnambiguous
    HuffmanRoundTrip
    FieldRoundTrip
    FieldDelimitsItself
    FrameRoundTrip
    FrameAsOutlined
