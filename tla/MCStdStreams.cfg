CONSTANTS
    t1 = t1  t2 = t2  t3 = t3
    lox1 = lox1  lox2 = lox2  lox3 = lox3
    screen = screen  printer = printer
    Threads = {t1, t2, t3}
    NoThread = NoThread
    Loxes = {lox1, lox2, lox3}
    NoLox = NoLox
    Loggers = {screen, printer}
    LoxesOf <- SharedLoxes
    Std = Std
    Anonymous = Anonymous
SPECIFICATION Spec
SYMMETRY Symmetry
CHECK_DEADLOCK FALSE
INVARIANTS
    TypeOK
    OneWriter
    SafeForTwo
    RegisteredBeforeUse
    CounterExact
