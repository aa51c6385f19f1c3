SPECIFICATION Spec
CONSTANTS
    Threads = {"t1", "t2"}
    NoDomain = "none"
    NoGroup = "none"
    Internal = "$/"
    MaxNesting = 1
    ParentOf <- MCParentOf
    LoggersOf <- MCLoggersOf
    OnceCalls <- MCOnceCalls
    DataKeys <- MCDataKeys
    Clients <- MCClients
INVARIANTS
    
    OnceExact
    NothingLeaked
CHECK_DEADLOCK FALSE
