SPECIFICATION ProcessSpec
CONSTANTS
    t1 = t1
    t2 = t2
    t3 = t3
    n1 = n1
    Threads = {t1, t2, t3}
    Nodes = {n1}
    Nobody = Nobody
    MaxConns = 2
    MaxPending = 2
    Burst = 1
    MaxJobs = 3
INVARIANTS OneConnection NoMapRace ReportIsComplete
PROPERTIES ImplementsCache ProcessReturns
\* The tester ends.
CHECK_DEADLOCK FALSE
