CONSTANTS
    a = a
    b = b
    Names <- MCNames
    MaxIno = 3
    AutoRollback = TRUE
SPECIFICATION TxSpec
INVARIANTS
    TxTypeOK
    SavepointsPaired
PROPERTIES
    ImplementsSqlfs
