CONSTANTS
    t1 = t1  t2 = t2  t3 = t3
    lox1 = lox1  lox2 = lox2  lox3 = lox3
    Threads = {t1, t2, t3}
    NoThread = NoThread
    Loxes = {lox1, lox2, lox3}
    Anonymous = Anonymous
    MaxAnonymous = 2
SPECIFICATION Spec
SYMMETRY Symmetry
CHECK_DEADLOCK FALSE
INVARIANTS
    TypeOK
    MutualExclusion
    NoStaleMode
    SafeWhenShared
