CONSTANTS
    a = a
    b = b
    Names <- MCNames
    MaxIno = 4
SPECIFICATION Spec
SYMMETRY NameSymmetry
INVARIANTS
    TypeOK
    DirentsMatchMetadata
    NlinkCountsRows
    ParentAgrees
    RemovedDirsAreEmpty
    LinkedIsReachable
    NoOrphanData
    NeverAborts
PROPERTIES
    ImplementsTree
