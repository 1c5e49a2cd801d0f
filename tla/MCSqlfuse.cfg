CONSTANTS
    a = a
    b = b
    Names <- MCNames
    MaxIno = 3
    MaxLookups = 2
SPECIFICATION FuseSpec
SYMMETRY NameSymmetry
INVARIANTS
    FuseTypeOK
    LookupBalance
    HeldInodesExist
    UnlinkedIsAccountedFor
