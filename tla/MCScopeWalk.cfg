CONSTANTS
    Characters = {"/", "#", "a", "b", "f", "m", "x", "y"}
    Places <- MCPlaces
    Threads = {"t1"}
    Texts = {"A"}
    MaxPathLevel = 2
    MaxCalls = 2
SPECIFICATION StoreSpec
INVARIANT WalkExact
