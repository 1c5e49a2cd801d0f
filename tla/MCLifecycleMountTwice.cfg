CONSTANTS
    p = p
    q = q
    Procs <- MCProcs
    Commands <- MCCommands
    MaxWal = 1
SPECIFICATION Spec
INVARIANTS
    OneWritableMount
