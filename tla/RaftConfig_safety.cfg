SPECIFICATION Spec
CONSTANTS
    n1 = n1
    n2 = n2
    c1 = c1
    Nodes = {n1, n2}
    Calls = {c1}
    MaxIncarnation = 2
SYMMETRY Symmetry
INVARIANTS AckedPersisted NeverTorn LinksMatchConnected OldEndsDisabled
CHECK_DEADLOCK FALSE
