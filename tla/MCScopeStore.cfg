CONSTANTS
    Characters = {"/", "#", "a", "b", "f", "m", "x", "y"}
    Places <- MCPlaces
    Threads = {"t1"}
    Texts = {"A", "B"}
    MaxPathLevel = 2
    MaxCalls = 3
SPECIFICATION StoreSpec
INVARIANTS
    TypeOK
    OwnedOnce
    WalkKeepsScopes
PROPERTIES
    ImplementsScopeMap
