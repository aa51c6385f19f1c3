CONSTANTS
    l1 = l1  l2 = l2  l3 = l3
    Loggers = {l1, l2, l3}
    NameOf <- MCNameOf
    Domains = {"/", "/NET", "/NET/TCP", "$"}
    Within <- MCWithin
    MainRoot = "/"
    InternalRoot = "$"
    Predefined = {}
    Clients <- MCClients
    PrioSource = 100
    PrioProtected = 1000
    ConfigPriority = 200
    Config <- MCConfig
    NoRule = NoRule
    NotAttached = NotAttached
SPECIFICATION Spec
SYMMETRY Symmetry
INVARIANTS
    TypeOK
    PriorityMonotone
    ConfigurationRead
    IndexAligned
    NestedCallAdds
    AttachedAreRegistered
PROPERTIES
    ImplementsVerbositySettings
