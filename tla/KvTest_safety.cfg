SPECIFICATION TestSpec
CONSTANTS
    n1 = n1
    n2 = n2
    n3 = n3
    s1 = s1
    s2 = s2
    Nodes = {n1, n2, n3}
    Shards = {s1, s2}
    c1 = c1
    c2 = c2
    Callers = {c1, c2}
    Tester = Tester
    NoThread = NoThread
    Targets = {n1}
    Methods = {"Get", "Set"}
    MaxSent = 2
INVARIANTS AlwaysValid WorkflowResult
PROPERTIES GracefulKeepsData AnswerIsCurrent TestCallsReturn
\* A request to a server that is nil panics, and the process ends.
CHECK_DEADLOCK FALSE
