---------------------------- MODULE ShardBarrier ----------------------------
(***************************************************************************)
(* What UpdateShardMapping of lab4/kv/test/test_setup.go promises the      *)
(* tests: a barrier.  It announces a new shard map and returns only when   *)
(* every server that took part at that moment has processed it, in a round *)
(* of processing that began after the announcement, or has left.           *)
(***************************************************************************)
CONSTANTS Updaters, Servers

VARIABLES members,  \* servers that take part
          active,   \* updaters in UpdateShardMapping
          waits,    \* servers that have yet to process an updater's shard map
          covered   \* updaters whose shard map the current round of a server includes

barrierVars == <<members, active, waits, covered>>

Init ==
    /\ members = {} /\ active = {}
    /\ waits = [u \in Updaters |-> {}]
    /\ covered = [s \in Servers |-> {}]

Announce(u) ==
    /\ u \notin active
    /\ active' = active \cup {u}
    /\ waits' = [waits EXCEPT ![u] = members]
    /\ UNCHANGED <<members, covered>>

Join(s) ==
    /\ members' = members \cup {s}
    /\ UNCHANGED <<active, waits, covered>>

\* A server leaves between two rounds; nobody waits for it any longer.
Leave(s) ==
    /\ s \in members /\ covered[s] = {}
    /\ members' = members \ {s}
    /\ waits' = [u \in Updaters |-> waits[u] \ {s}]
    /\ UNCHANGED <<active, covered>>

Begin(s) ==
    /\ s \in members /\ covered[s] = {}
    /\ covered' = [covered EXCEPT ![s] = {u \in Updaters : s \in waits[u]}]
    /\ UNCHANGED <<members, active, waits>>

End(s) ==
    /\ waits' = [u \in Updaters |-> IF u \in covered[s] THEN waits[u] \ {s} ELSE waits[u]]
    /\ covered' = [covered EXCEPT ![s] = {}]
    /\ UNCHANGED <<members, active>>

Return(u) ==
    /\ u \in active /\ waits[u] = {}
    /\ active' = active \ {u}
    /\ UNCHANGED <<members, waits, covered>>

Next ==
    \/ \E u \in Updaters : Announce(u) \/ Return(u)
    \/ \E s \in Servers : Join(s) \/ Leave(s) \/ Begin(s) \/ End(s)

Spec == Init /\ [][Next]_barrierVars
=============================================================================
