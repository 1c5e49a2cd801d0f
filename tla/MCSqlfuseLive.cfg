CONSTANTS
    a = a
    b = b
    Names = {a}
    MaxIno = 3
    MaxLookups = 2
SPECIFICATION FuseLiveSpec
PROPERTIES
    ForgottenIsPurged
    UnmountEnds
