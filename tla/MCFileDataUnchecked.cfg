CONSTANTS
    BlockSize = 3
    MaxSize = 8
    MaxLength = 8
    NANOS_PER_SECOND = 4
    INT64_MAX = 14
    Buffers <- MCBuffersAndEmpty
    NewSizes <- MCSizesAndNegative
SPECIFICATION Spec
INVARIANTS
    NeverAborts
