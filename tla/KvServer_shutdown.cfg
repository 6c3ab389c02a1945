SPECIFICATION FairSpec
CONSTANTS
    u1 = u1
    s1 = s1
    Updaters = {u1}
    Servers = {s1}
    Stoppable = {s1}
    Nobody = Nobody
    MaxSwaps = 2
    MaxListeners = 1
PROPERTIES UpdateReturns
CHECK_DEADLOCK FALSE
