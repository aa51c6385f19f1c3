SPECIFICATION Spec
CONSTANTS
    Threads = {t1, t2, t3}
    Nobody = Nobody
    MaxCalls = 2
INVARIANT NoReportLost
PROPERTY CallsReturnWhenApart
CHECK_DEADLOCK FALSE
