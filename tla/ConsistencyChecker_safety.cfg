SPECIFICATION CheckerSpec
CONSTANTS
    w1 = w1
    w2 = w2
    w3 = w3
    r1 = r1
    Writers = {w1, w2, w3}
    Readers = {r1}
    NoValue = NoValue
    TTL = 1
    TtlCheckBuffer = 0
    MaxTime = 2
    FirstSetFails = FALSE
    LateSets = FALSE
SYMMETRY Symmetry
INVARIANTS NoFalsePositive OverlapIsDetected StaleIsRejected
\* A behaviour ends when every Set is done and the clock has reached its bound.
CHECK_DEADLOCK FALSE
