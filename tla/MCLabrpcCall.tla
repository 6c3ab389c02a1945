---------------------------- MODULE MCLabrpcCall ----------------------------
(* Arguments with a lower-case field and a recursive type, a reply with a     *)
(* nested struct that has one too.                                            *)
EXTENDS LabrpcCall, TLC

CONSTANT Scalar, Args, PArgs, PPArgs, Inner, Rep, PReply

MCKind == (Scalar :> "basic") @@ (Args :> "struct") @@ (PArgs :> "ptr") @@ (PPArgs :> "ptr") @@
          (Inner :> "struct") @@ (Rep :> "struct") @@ (PReply :> "ptr")
MCParts == (Scalar :> <<>>) @@ (Args :> <<Scalar, Scalar, PArgs>>) @@ (PArgs :> <<Args>>) @@
           (PPArgs :> <<PArgs>>) @@ (Inner :> <<Scalar, Scalar>>) @@
           (Rep :> <<Scalar, Inner>>) @@ (PReply :> <<Rep>>)
MCUpper == [t \in Types |->
    [i \in DOMAIN MCParts[t] |-> t \notin {Args, Inner} \/ i # 2]]

MCThreads == CallThreads
Direct == <<1, 1>>
Deep == <<1, 2, 1>>
Lower == <<1, 2, 2>>
MCArgValues == {{<<1, 1>>, <<1, 2>>}}
MCReplyValues == {{Deep, Lower}}
MCOldReplies == {{}, {Direct, Deep}}
MCMethods == {[name |-> "RequestVote", exported |-> TRUE, ins |-> 3, ptr |-> TRUE, outs |-> 0],
              [name |-> "Kill", exported |-> TRUE, ins |-> 1, ptr |-> FALSE, outs |-> 0]}
MCCalled == {"RequestVote", "Kill"}
=============================================================================
