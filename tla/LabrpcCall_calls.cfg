SPECIFICATION RpcFairSpec
CONSTANTS
    n1 = n1
    c1 = c1
    c2 = c2
    Scalar = Scalar
    Args = Args
    PArgs = PArgs
    PPArgs = PPArgs
    Inner = Inner
    Rep = Rep
    PReply = PReply
    Nodes = {n1}
    Calls = {c1}
    MaxIncarnation = 1
    Types = {Scalar, Args, PArgs, PPArgs, Inner, Rep, PReply}
    Kind <- MCKind
    Parts <- MCParts
    Upper <- MCUpper
    MaxPath = 4
    Threads <- MCThreads
    ArgsType = PArgs
    ReplyType = PReply
    DecodeType = PPArgs
    Methods <- MCMethods
    Called <- MCCalled
    Registered = {PReply}
    MaxChanges = 7
    ArgValues <- MCArgValues
    ReplyValues <- MCReplyValues
    OldReplies <- MCOldReplies
INVARIANTS LossIsReported ComplainsOnce
PROPERTIES AtMostOnce CallReturns
CHECK_DEADLOCK FALSE
