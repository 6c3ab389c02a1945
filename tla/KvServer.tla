------------------------------ MODULE KvServer ------------------------------
(***************************************************************************)
(* lab4/kv/server.go: what a KvServerImpl does with shard map updates, on  *)
(* top of the ShardMap.  MakeKvServer registers a listener, starts the     *)
(* listen loop and runs handleShardMapUpdate once itself; the loop runs it *)
(* once per notification; Shutdown stops the loop, then closes the         *)
(* listener.                                                               *)
(*                                                                         *)
(* The body of handleShardMapUpdate is left to be written (a TODO in the   *)
(* repository).  It is modelled as what its callers need of it: it reads   *)
(* the shard map state after it began, takes some time, and returns.       *)
(***************************************************************************)
EXTENDS ShardMap

CONSTANT Stoppable      \* servers whose owner may call Shutdown()

ASSUME StoppableAssumption == Stoppable \subseteq Servers

VARIABLES
    spc,      \* control point of the thread that owns the server
    loop,     \* control point of shardMapListenLoop
    begun,    \* history: swaps when the loop last began handleShardMapUpdate
    handled,  \* history: the begun of the last one the loop completed
    ctor      \* history: swaps when MakeKvServer began handleShardMapUpdate

serverVars == <<spc, loop, begun, handled, ctor>>
vars == <<swaps, mutex, mapVars, updaterVars, serverVars>>

TypeOK ==
    /\ ShardMapTypeOK
    /\ spc \in [Servers -> {"absent", "makeLock", "made", "init", "up",
                            "stopping", "close", "closeLock", "down"}]
    /\ loop \in [Servers -> {"none", "select", "handling", "exited"}]
    /\ begun \in [Servers -> Nat]
    /\ handled \in [Servers -> Nat]
    /\ ctor \in [Servers -> Nat]

Init ==
    /\ ShardMapInit
    /\ spc = [s \in Servers |-> "absent"]
    /\ loop = [s \in Servers |-> "none"]
    /\ begun = [s \in Servers |-> 0]
    /\ handled = [s \in Servers |-> 0]
    /\ ctor = [s \in Servers |-> 0]

-----------------------------------------------------------------------------
(* MakeKvServer                                                            *)

MakeLock(s) ==
    /\ spc[s] = "absent"
    /\ LockAnnounce(s)
    /\ spc' = [spc EXCEPT ![s] = "makeLock"]
    /\ UNCHANGED <<loop, begun, handled, ctor>>

MakeRegister(s) ==
    /\ spc[s] = "makeLock"
    /\ MakeListener(s)
    /\ spc' = [spc EXCEPT ![s] = "made"]
    /\ UNCHANGED <<loop, begun, handled, ctor>>

\* Mutant of MakeStartLoop: no handleShardMapUpdate for the state found.
MakeStartLoopOnly(s) ==
    /\ spc[s] = "made"
    /\ loop' = [loop EXCEPT ![s] = "select"]
    /\ spc' = [spc EXCEPT ![s] = "init"]
    /\ UNCHANGED <<swaps, mutex, mapVars, updaterVars, begun, handled, ctor>>

\* go server.shardMapListenLoop(), then handleShardMapUpdate in this thread.
MakeStartLoop(s) ==
    /\ spc[s] = "made"
    /\ loop' = [loop EXCEPT ![s] = "select"]
    /\ spc' = [spc EXCEPT ![s] = "init"]
    /\ ctor' = [ctor EXCEPT ![s] = swaps]
    /\ UNCHANGED <<swaps, mutex, mapVars, updaterVars, begun, handled>>

MakeHandled(s) ==
    /\ spc[s] = "init"
    /\ spc' = [spc EXCEPT ![s] = "up"]
    /\ UNCHANGED <<swaps, mutex, mapVars, updaterVars, loop, begun, handled, ctor>>

-----------------------------------------------------------------------------
(* shardMapListenLoop                                                      *)

\* Mutant of LoopNotified: go server.handleShardMapUpdate().
LoopNotifiedAsync(u, s) ==
    /\ loop[s] = "select"
    /\ UpdateSend(u, s)
    /\ begun' = [begun EXCEPT ![s] = swaps]
    /\ UNCHANGED <<spc, loop, handled, ctor>>

\* case <-listener: the rendezvous with the sending Update().
LoopNotified(u, s) ==
    /\ loop[s] = "select"
    /\ UpdateSend(u, s)
    /\ loop' = [loop EXCEPT ![s] = "handling"]
    /\ begun' = [begun EXCEPT ![s] = swaps]
    /\ UNCHANGED <<spc, handled, ctor>>

LoopHandled(s) ==
    /\ loop[s] = "handling"
    /\ loop' = [loop EXCEPT ![s] = "select"]
    /\ handled' = [handled EXCEPT ![s] = begun[s]]
    /\ UNCHANGED <<swaps, mutex, mapVars, updaterVars, spc, begun, ctor>>

-----------------------------------------------------------------------------
(* Shutdown                                                                *)

ShutdownCall(s) ==
    /\ s \in Stoppable
    /\ spc[s] = "up"
    /\ spc' = [spc EXCEPT ![s] = "stopping"]
    /\ UNCHANGED <<swaps, mutex, mapVars, updaterVars, loop, begun, handled, ctor>>

\* server.shutdown <- struct{}{} meets case <-server.shutdown.
ShutdownLoop(s) ==
    /\ spc[s] = "stopping"
    /\ loop[s] = "select"
    /\ loop' = [loop EXCEPT ![s] = "exited"]
    /\ spc' = [spc EXCEPT ![s] = "close"]
    /\ UNCHANGED <<swaps, mutex, mapVars, updaterVars, begun, handled, ctor>>

ShutdownCloseLock(s) ==
    /\ spc[s] = "close"
    /\ LockAnnounce(s)
    /\ spc' = [spc EXCEPT ![s] = "closeLock"]
    /\ UNCHANGED <<loop, begun, handled, ctor>>

ShutdownClose(s) ==
    /\ spc[s] = "closeLock"
    /\ Close(s)
    /\ spc' = [spc EXCEPT ![s] = "down"]
    /\ UNCHANGED <<loop, begun, handled, ctor>>

-----------------------------------------------------------------------------
\* An updater's step that no server takes part in.
Updating(u) == UpdateStep(u) /\ UNCHANGED serverVars

OwnerStep(s) ==
    \/ MakeRegister(s) \/ MakeStartLoop(s) \/ MakeHandled(s)
    \/ ShutdownLoop(s) \/ ShutdownClose(s)

\* The explored workload is over: nobody is in a call and no bound allows one.
Finished ==
    /\ \A u \in Updaters : upc[u] = "idle"
    /\ \A s \in Servers : spc[s] \in {"up", "down"} /\ loop[s] # "handling"
    /\ swaps + 2 > MaxSwaps
    /\ UNCHANGED vars

Next ==
    \/ \E u \in Updaters : Updating(u)
    \/ \E u \in Updaters, s \in Servers : LoopNotified(u, s)
    \/ \E s \in Servers :
        \/ MakeLock(s) \/ ShutdownCall(s) \/ ShutdownCloseLock(s)
        \/ OwnerStep(s) \/ LoopHandled(s)
    \/ Finished

Spec == Init /\ [][Next]_vars

\* A thread inside a call runs on; whether a call is started is up to the
\* caller.  Waiting for the writer side of the RWMutex and for a channel is
\* first-come-first-served in Go's runtime, hence strong fairness there.
Fairness ==
    /\ \A u \in Updaters :
        /\ WF_vars(upc[u] # "idle" /\ Updating(u))
        /\ \A s \in Servers : SF_vars(LoopNotified(u, s))
    /\ \A s \in Servers :
        /\ WF_vars(OwnerStep(s))
        /\ WF_vars(LoopHandled(s))
        /\ SF_vars(ShutdownLoop(s))
        /\ SF_vars(ShutdownCloseLock(s))

FairSpec == Spec /\ Fairness

-----------------------------------------------------------------------------
(* Properties                                                              *)

\* No thread touches the channel map under the wrong lock: while an Update()
\* walks the map nobody is changing it, so a channel it is about to send on is
\* still registered and not closed (a send on a closed channel panics).
NeverSendOnClosed ==
    \A u \in Updaters : upc[u] = "send" =>
        /\ updateChannels[target[u]] # Nobody
        /\ updateChannels[target[u]] \notin closed

\* UpdateShardMapping relies on its second Update(): when that returns, every
\* server registered at the first one whose loop is still running has completed
\* a handleShardMapUpdate that began after the first Swap, even with other
\* updaters and servers coming and going in between.
SecondUpdateWaits ==
    \A u \in Updaters : \A s \in base[u] :
        (upc[u] = "idle" /\ loop[s] # "exited") => handled[s] >= goal[u]

\* UpdateShardMapping implements the barrier of ShardBarrier: the servers it waits
\* for are those whose listener was registered at its first Swap, a server leaves
\* when Shutdown() has stopped its loop, and a round counts for an updater only if
\* the loop began it after that Swap.
BarrierWaits(u) == {s \in base[u] : loop[s] # "exited" /\ handled[s] < goal[u]}
BarrierCovered(s) ==
    {u \in Updaters : loop[s] = "handling" /\ s \in BarrierWaits(u) /\ begun[s] >= goal[u]}
Barrier == INSTANCE ShardBarrier WITH
    members <- {s \in Servers : Registered(s) /\ loop[s] # "exited"},
    active <- {u \in Updaters : upc[u] # "idle"},
    waits <- [u \in Updaters |-> BarrierWaits(u)],
    covered <- [s \in Servers |-> BarrierCovered(s)]
ImplementsBarrier == Barrier!Spec

\* No notification is lost: when no Update() is in progress, every running
\* server began a handleShardMapUpdate (in its loop or in MakeKvServer) after
\* the last Swap, including a server registered while an Update() was running.
NoLostUpdate ==
    (\A u \in Updaters : upc[u] = "idle") =>
        \A s \in Servers : loop[s] \in {"select", "handling"} =>
            begun[s] = swaps \/ ctor[s] = swaps

\* Update() blocks only until the listeners have received the notification, as
\* long as no server is being shut down.
UpdateReturnsUnlessStopped ==
    \A u \in Updaters : (upc[u] = "rlock") ~>
        (\/ upc[u] \in {"again", "idle"}
         \/ \E s \in Servers : spc[s] \in {"stopping", "close", "closeLock"})

\* shardmap.go: Update() "may block until listeners receive the notification",
\* and only until then.
UpdateReturns == \A u \in Updaters : (upc[u] = "rlock") ~> (upc[u] \in {"again", "idle"})
=============================================================================
