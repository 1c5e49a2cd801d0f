CONSTANTS
    BlockSize = 3
    MaxSize = 8
    MaxLength = 8
    NANOS_PER_SECOND = 4
    INT64_MAX = 14
    Buffers <- MCBuffers
    NewSizes <- MCSizes
SPECIFICATION Spec
INVARIANTS
    TypeOK
    BlocksMatchSize
    ReadsReturnContents
    NeverAborts
PROPERTIES
    ImplementsBytes
