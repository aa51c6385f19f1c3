CONSTANTS
    Threads = {t1, t2, t3}
    NoThread = NoThread
    MaxDepth = 2
    WaitWarningTimeLimit = 1
    RecursionWarningThreshold = 2
SPECIFICATION Spec
INVARIANTS
    TypeOK
    OwnerHolds
    DbgCountOfHolder
    NoLostWakeup
PROPERTIES
    LockPassedOn
    ImplementsRecursiveLock
