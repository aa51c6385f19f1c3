SPECIFICATION RegistrySpec
CONSTANTS
    main = main  f1 = f1  f2 = f2
    o1 = o1  o2 = o2  o3 = o3
    p1 = p1  p2 = p2  p3 = p3
    Foreign = {main, f1, f2}
    Main = main
    Objects = {o1, o2, o3}
    PlatformIds = {p1, p2, p3}
SYMMETRY Symmetry
INVARIANTS
    UniqueIdentity
    FreshIsItself
    NoDeletedObject
CHECK_DEADLOCK FALSE
