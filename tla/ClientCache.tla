----------------------------- MODULE ClientCache -----------------------------
(***************************************************************************)
(* What the interface ClientPool of lab4/kv/clientpool.go promises: a      *)
(* cache with one client per node, for good, that answers each call at one *)
(* moment.  An error is returned only while there is no client, and is not *)
(* cached.                                                                 *)
(***************************************************************************)
EXTENDS Integers

CONSTANTS Threads, Nodes

Absent == 0

VARIABLES clients,  \* the client of each node
          conns,    \* clients made
          called,   \* threads in GetClient
          node,     \* the node they ask for
          result    \* what they got last
vars == <<clients, conns, called, node, result>>

Init ==
    /\ clients = [n \in Nodes |-> Absent]
    /\ conns = 0
    /\ called = {}
    /\ node \in [Threads -> Nodes]
    /\ result = [t \in Threads |-> Absent]

Call(t) ==
    /\ t \notin called
    /\ called' = called \cup {t}
    /\ \E n \in Nodes : node' = [node EXCEPT ![t] = n]
    /\ UNCHANGED <<clients, conns, result>>

Return(t, client) ==
    /\ t \in called
    /\ called' = called \ {t}
    /\ result' = [result EXCEPT ![t] = client]
    /\ UNCHANGED node

Hit(t) ==
    /\ clients[node[t]] # Absent
    /\ Return(t, clients[node[t]])
    /\ UNCHANGED <<clients, conns>>

Create(t) ==
    /\ clients[node[t]] = Absent
    /\ conns' = conns + 1
    /\ clients' = [clients EXCEPT ![node[t]] = conns + 1]
    /\ Return(t, conns + 1)

Fail(t) ==
    /\ clients[node[t]] = Absent
    /\ Return(t, Absent)
    /\ UNCHANGED <<clients, conns>>

Next == \E t \in Threads : Call(t) \/ Hit(t) \/ Create(t) \/ Fail(t)

Spec == Init /\ [][Next]_vars
=============================================================================
