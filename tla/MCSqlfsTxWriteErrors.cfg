CONSTANTS
    a = a
    b = b
    Names <- MCNames
    MaxIno = 3
    AutoRollback = FALSE
SPECIFICATION TxSpec
INVARIANTS
    WriteErrorsReturned
