SPECIFICATION Spec
CHECK_DEADLOCK FALSE
CONSTANTS
    sniffBuffSize = 2
    BufferSizes = {0, 1, 3}
    MaxLength = 4
    MaxRanges = 4
    MaxNesting = 2
INVARIANTS
    TypeOK
    BufferedInOrder
    TypeFromStart
    RangeInOrder
PROPERTIES
    SnifferIsReader
    RangesEnd
