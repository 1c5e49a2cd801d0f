CONSTANTS
    MaxName = 4
    Capacities = {3}
    ReadErrors = FALSE
SPECIFICATION Spec
INVARIANTS
    ReaddirNeverAborts
