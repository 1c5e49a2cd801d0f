CONSTANTS
    a = a
    b = b
    Names <- MCNames
    MaxIno = 4
SPECIFICATION SpecAnyCaller
SYMMETRY NameSymmetry
PROPERTIES
    NothingCreatedInRemovedDir
