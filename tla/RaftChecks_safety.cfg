SPECIFICATION ChecksSpec
CONSTANTS
    N = 2
    x = x
    y = y
    Cmds = {x, y}
    NoCmd = NoCmd
    Submitted = {x}
    MaxIndex = 2
    MaxRestarts = 1
    MaxMsgs = 3
    MaxCalls = 1
    AgreeWait = 1
    GiveUp = 2
    WaitIters = 2
    Peers = 2
    MaxTerm = 1
    MaxSteps = 4
    Iters = 2
INVARIANTS WrongRaftIsCaught NoFalseAlarm OneKeepsItsWord LeaderVerdict
PROPERTIES EveryCallEnds
CHECK_DEADLOCK FALSE
