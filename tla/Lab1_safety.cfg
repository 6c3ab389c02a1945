SPECIFICATION Lab1Spec
CONSTANTS
    a = a
    b = b
    d = d
    gone = gone
    f1 = f1
    f2 = f2
    c1 = c1
    r1 = r1
    r2 = r2
    n1 = n1
    Calls = {c1}
    Known = {a, b, d}
    Requests <- MCRequests
    Configs <- MCConfigs
    TopPicks <- MCTopPicks
    MaxBatchSize = 2
    MaxSets = 2
    FrontendUsers = {a, gone}
    TopVideos = {"right", "wrong", "error"}
    Conns = {n1}
    USER_ID_OFFSET = 4
    MIN_USER_COUNT = 2
    RecAnswers = {"ok", "stale", "error"}
    Latencies = {1}
    Word = 16
    MaxRequests = 2
    MaxReports = 1
    Rankers = {r1, r2}
    CoeffMaps <- MCCoeffMaps
    Modulus = 8
    Fnv32 <- MCFnv32
INVARIANTS OneConfigExplains TrendingCanBeFetched ReportExplained RankIsDeterministic AcceptsOwnPasswordOnly
PROPERTIES Lab1CallsEnd
\* Everything rests when all calls are done.
CHECK_DEADLOCK FALSE
