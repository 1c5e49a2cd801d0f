CONSTANTS
    MaxName = 4
    Capacities = {1, 2, 3}
    ReadErrors = TRUE
SPECIFICATION Spec
INVARIANTS
    TypeOK
    NoEntryTwice
    StableEntriesListed
PROPERTIES
    ListingEnds
