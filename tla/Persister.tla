----------------------------- MODULE Persister -----------------------------
(***************************************************************************)
(* lab2/raft/persister.go: the contents of a Persister.  Every method      *)
(* holds ps.mu throughout, so each is one step on the record below.  Both  *)
(* byte arrays are abstracted to the set of updates they contain.          *)
(***************************************************************************)
MakePersister == [raftstate |-> {}, snapshot |-> {}]

PersisterType(Updates) == [raftstate : SUBSET Updates, snapshot : SUBSET Updates]

\* Copy() and the two Reads return what is stored.
Copy(ps) == ps
ReadRaftState(ps) == ps.raftstate
ReadSnapshot(ps) == ps.snapshot

SaveRaftState(ps, state) == [ps EXCEPT !.raftstate = state]

SaveStateAndSnapshot(ps, state, snapshot) ==
    [ps EXCEPT !.raftstate = state, !.snapshot = snapshot]
=============================================================================
