--------------------------- MODULE ShardWorkflows ---------------------------
(***************************************************************************)
(* The replica adjustment and shard movement workflows of                  *)
(* lab4/kv/test/test_setup.go: how they compute assignments of shards to   *)
(* nodes and in which order they publish them with UpdateShardMapping.     *)
(*                                                                         *)
(* Workflows run one at a time, and UpdateShardMapping returns after the   *)
(* servers processed the new assignment (SecondUpdateWaits of KvServer).   *)
(* What servers do with it is external: a node that gains a shard copies   *)
(* it from a node that is assigned it too and has it; a node that loses a  *)
(* shard deletes it.  A random choice of nodes is a choice of a set; their *)
(* order in the new list is arbitrary.                                     *)
(***************************************************************************)
EXTENDS Naturals, FiniteSets, Sequences, FiniteSetsExt, SequencesExt

CONSTANTS Nodes,      \* keys of smState.Nodes; the workflows never change them
          Shards      \* 1 .. NumShards

ASSUME SetsAssumption == IsFiniteSet(Nodes) /\ IsFiniteSet(Shards)

VARIABLES
    published,   \* ShardsToNodes of the ShardMap
    holders,     \* nodes that have the data of a shard
    wf,          \* the workflow that runs, or ran last: name, arguments, result
    before       \* history: published when it began

vars == <<published, holders, wf, before>>

Assignments == [Shards -> Seq(Nodes)]
NumNodes == Cardinality(Nodes)
Hosts(s) == ToSet(published[s])

TypeOK ==
    /\ published \in Assignments /\ before \in Assignments
    /\ holders \in [Shards -> SUBSET Nodes]
    /\ wf.name \in {"none", "RemoveNode", "DrainNode", "MoveShard", "MoveRandomShard", "DropShard"}
    /\ wf.result \in {"running", "ok", "error"}

\* ShardMapState.IsValid: the listed nodes exist and none is listed twice.
IsValid(assignment) ==
    \A s \in DOMAIN assignment :
        /\ s \in Shards
        /\ ToSet(assignment[s]) \subseteq Nodes
        /\ Cardinality(ToSet(assignment[s])) = Len(assignment[s])

Init ==
    /\ published \in [Shards -> {SetToSeq(P) : P \in SUBSET Nodes}]
    /\ holders = [s \in Shards |-> Hosts(s)]
    /\ wf = [name |-> "none", result |-> "ok"]
    /\ before = published

\* UpdateShardMapping, and what the servers make of it.
Publish(assignment) ==
    /\ published' = assignment
    /\ holders' = [s \in Shards |->
                    IF ToSet(assignment[s]) \cap holders[s] = {} THEN {}
                    ELSE ToSet(assignment[s])]

-----------------------------------------------------------------------------
(* addReplicasForShard and dropReplicasForShard on the list of one shard:  *)
(* the lists they may produce, none if they return an error.               *)

\* Mutant of AddReplicas: dstNodes are not compared with the nodes there.
AddReplicasBlindly(nodes, num, dstNodes) ==
    LET rest == Nodes \ ToSet(nodes \o dstNodes)
    IN  IF Len(nodes) + num > NumNodes THEN {}
        ELSE {nodes \o dstNodes \o SetToSeq(P) : P \in kSubset(num - Len(dstNodes), rest)}

AddReplicas(nodes, num, dstNodes) ==
    LET rest == Nodes \ ToSet(nodes \o dstNodes)
    IN  IF \/ Len(nodes) + num > NumNodes
           \/ ToSet(nodes) \cap ToSet(dstNodes) # {}
           \/ Cardinality(ToSet(dstNodes)) # Len(dstNodes)
        THEN {}
        ELSE {nodes \o dstNodes \o SetToSeq(P) : P \in kSubset(num - Len(dstNodes), rest)}

DropReplicas(nodes, num, srcNodes) ==
    LET candidates == ToSet(nodes) \ ToSet(srcNodes)
    IN  IF \/ Len(nodes) < num \/ Len(srcNodes) > num
           \/ ~(ToSet(srcNodes) \subseteq ToSet(nodes))
        THEN {}
        ELSE {SetToSeq(P) : P \in kSubset(Len(nodes) - num, candidates)}

\* dropReplicasForShard(&smState, shard, 1, []string{node}) for several shards.
DropNodeFrom(node, shards) ==
    {m \in [Shards -> UNION {DropReplicas(published[s], 1, <<node>>) : s \in shards}
                      \cup {published[s] : s \in Shards}] :
        \A s \in Shards : IF s \in shards THEN m[s] \in DropReplicas(published[s], 1, <<node>>)
                                          ELSE m[s] = published[s]}

ShardsForNode(node) == {s \in Shards : node \in Hosts(s)}

-----------------------------------------------------------------------------
(* The workflows                                                           *)

Idle == wf.result # "running"
Begin(w) == Idle /\ wf' = w /\ before' = published

RemoveNode(node) ==
    /\ Begin([name |-> "RemoveNode", result |-> "ok", node |-> node])
    /\ \E m \in DropNodeFrom(node, ShardsForNode(node)) : Publish(m)

\* Mutant of ReplicasToAdd: a shard that lacks one node only is left alone.
ReplicasToAddFewer(s) ==
    IF Len(published[s]) < NumNodes - 1 THEN AddReplicas(published[s], 1, <<>>)
    ELSE {published[s]}

\* A shard on every node gets no new replica, any other one gets one.
ReplicasToAdd(s) ==
    IF Len(published[s]) < NumNodes THEN AddReplicas(published[s], 1, <<>>)
    ELSE {published[s]}

\* DrainNode, up to its first UpdateShardMapping ...
DrainCopy(node) ==
    LET shards == ShardsForNode(node)
        choices == [s \in Shards |-> IF s \in shards THEN ReplicasToAdd(s) ELSE {published[s]}]
    IN  /\ Begin([name |-> "DrainNode", result |-> "running", node |-> node, shards |-> shards])
        /\ \E m \in [Shards -> UNION {choices[s] : s \in Shards}] :
            /\ \A s \in Shards : m[s] \in choices[s]
            /\ Publish(m)

\* ... and from there to its end.
DrainDrop ==
    /\ wf.name = "DrainNode" /\ ~Idle
    /\ \E m \in DropNodeFrom(wf.node, wf.shards) : Publish(m)
    /\ wf' = [wf EXCEPT !.result = "ok"]
    /\ UNCHANGED before

MoveCall(shard, src, dst, result) ==
    [name |-> "MoveShard", result |-> result, shard |-> shard, src |-> src, dst |-> dst]

\* MoveShard with nothing to do, or with a destination it cannot add.
MoveReturns(shard, src, dst) ==
    /\ \/ src = dst /\ Begin(MoveCall(shard, src, dst, "ok"))
       \/ /\ src # dst /\ AddReplicas(published[shard], 1, <<dst>>) = {}
          /\ Begin(MoveCall(shard, src, dst, "error"))
    /\ UNCHANGED <<published, holders>>

\* MoveShard, up to its first UpdateShardMapping ...
MoveCopy(shard, src, dst) ==
    /\ src # dst
    /\ Begin(MoveCall(shard, src, dst, "running"))
    /\ \E nodes \in AddReplicas(published[shard], 1, <<dst>>) :
        Publish([published EXCEPT ![shard] = nodes])

\* Mutant of MoveDrop: the copy made before the first update is edited.
MoveDropStale ==
    /\ wf.name = "MoveShard" /\ ~Idle
    /\ \/ /\ \E nodes \in DropReplicas(before[wf.shard], 1, <<wf.src>>) :
                Publish([published EXCEPT ![wf.shard] = nodes])
          /\ wf' = [wf EXCEPT !.result = "ok"]
       \/ /\ DropReplicas(before[wf.shard], 1, <<wf.src>>) = {}
          /\ wf' = [wf EXCEPT !.result = "error"]
          /\ UNCHANGED <<published, holders>>
    /\ UNCHANGED before

\* ... and from there to its end: if the source does not host the shard, an
\* error, which leaves the new replica in place.
MoveDrop ==
    /\ wf.name = "MoveShard" /\ ~Idle
    /\ \/ /\ \E nodes \in DropReplicas(published[wf.shard], 1, <<wf.src>>) :
                Publish([published EXCEPT ![wf.shard] = nodes])
          /\ wf' = [wf EXCEPT !.result = "ok"]
       \/ /\ DropReplicas(published[wf.shard], 1, <<wf.src>>) = {}
          /\ wf' = [wf EXCEPT !.result = "error"]
          /\ UNCHANGED <<published, holders>>
    /\ UNCHANGED before

Searching == wf.name = "MoveRandomShard" /\ ~Idle

\* MoveRandomShard draws shards ...
MoveRandomShard ==
    /\ Begin([name |-> "MoveRandomShard", result |-> "running"])
    /\ UNCHANGED <<published, holders>>

Suitable(s) == Len(published[s]) > 0 /\ Len(published[s]) < NumNodes

\* ... until it meets one that is on some nodes but not on all, and goes on as
\* MoveShard from one of its nodes to one of the others.
MoveRandomHit(shard) ==
    /\ Searching /\ Suitable(shard)
    /\ \E src \in Hosts(shard), dst \in Nodes \ Hosts(shard) :
        /\ wf' = MoveCall(shard, src, dst, "running")
        /\ \E nodes \in AddReplicas(published[shard], 1, <<dst>>) :
            Publish([published EXCEPT ![shard] = nodes])
    /\ UNCHANGED before

MoveRandomMiss(shard) == Searching /\ ~Suitable(shard) /\ UNCHANGED vars

\* DropShard and DropRandomShard
DropShard(shard) ==
    /\ Begin([name |-> "DropShard", result |-> "ok", shard |-> shard])
    /\ \E nodes \in DropReplicas(published[shard], Len(published[shard]), <<>>) :
        Publish([published EXCEPT ![shard] = nodes])

-----------------------------------------------------------------------------
Next ==
    \/ \E n \in Nodes : RemoveNode(n) \/ DrainCopy(n)
    \/ DrainDrop
    \/ \E s \in Shards, src, dst \in Nodes : MoveReturns(s, src, dst) \/ MoveCopy(s, src, dst)
    \/ MoveDrop
    \/ MoveRandomShard
    \/ \E s \in Shards : MoveRandomHit(s) \/ MoveRandomMiss(s) \/ DropShard(s)

Spec == Init /\ [][Next]_vars

\* A workflow that has begun runs on, and rand draws every shard again and again.
Fairness ==
    /\ WF_vars(DrainDrop) /\ WF_vars(MoveDrop)
    /\ \A s \in Shards : SF_vars(MoveRandomHit(s))

-----------------------------------------------------------------------------
(* Properties                                                              *)

\* Every assignment that reaches the servers is valid, those between the two
\* steps of a workflow too.
AlwaysValid == IsValid(published)

\* "Through this process, no keys should be lost" (integration_test.go): only
\* RemoveNode and DropShard may leave a shard without a node that has its data;
\* DrainNode and MoveShard, failed ones included, never do.  (Of a cluster of one
\* node it is not true: DrainNode drops what it had nowhere to copy to.)
GracefulKeepsData ==
    [][\A s \in Shards : (holders[s] # {} /\ holders'[s] = {}) =>
            wf'.name \in {"RemoveNode", "DropShard"}]_vars

\* Every workflow returns, except a MoveRandomShard that begins when each shard is
\* on all nodes or on none: its loop has no other exit and nothing changes the
\* assignment meanwhile.
WorkflowReturns ==
    LET movable == \E s \in Shards : Hosts(s) \notin {{}, Nodes}
    IN  (~Idle) ~> (Idle \/ (Searching /\ ~movable))

\* What a workflow that succeeded leaves behind.  DrainNode: the shards of the node
\* where else they were and on one more node, if there was one without them; the
\* other shards untouched.  MoveShard: the shard on dst instead of src and all
\* others where they were.
WorkflowResult ==
    /\ wf.name = "DrainNode" /\ wf.result = "ok" =>
        /\ ShardsForNode(wf.node) = {}
        /\ \A s \in Shards :
            IF wf.node \in ToSet(before[s])
            THEN /\ ToSet(before[s]) \ {wf.node} \subseteq Hosts(s)
                 /\ Len(published[s]) = IF Len(before[s]) < NumNodes THEN Len(before[s]) ELSE NumNodes - 1
            ELSE published[s] = before[s]
    /\ wf.name = "MoveShard" /\ wf.result = "ok" /\ wf.src # wf.dst =>
        \A s \in Shards :
            Hosts(s) = IF s = wf.shard THEN (ToSet(before[s]) \ {wf.src}) \cup {wf.dst}
                                       ELSE ToSet(before[s])
=============================================================================
