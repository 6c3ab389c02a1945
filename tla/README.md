# A TLA+ verification of the CS 426 labs

This directory specifies and verifies the code of the repository that has
behaviour of its own to get wrong: the services, the simulated network, the test
harnesses and the libraries the labs build on. Large parts of the repository are
exercises. Their bodies are `TODO`s (the Raft of lab 2, the key-value operations
of lab 4, `GetTopVideos` of lab 1) and there is nothing to verify in them yet.
What *is* written is the machinery that students' answers are judged by: if the
harness blames a correct Raft, loses a notification or hangs, every result
obtained with it is worthless. That machinery is concurrent, and it is what the
modules below model.

* [Inventory](#inventory): the parts of the system
* [Plan](#plan): order of work, and what is left
* [Modules](#modules): how state and actions correspond to the code
* [Runs](#runs): what TLC checks, within which bounds and under which fairness
* [Proofs](#proofs): what TLAPS proves, and how
* [Findings and observations](#findings-and-observations)
* [Not modelled](#not-modelled)

All paths below are relative to `src/`.

## Inventory

### Lab 4: a sharded key-value store

| Part | State | Operations | Talks to |
|---|---|---|---|
| `ShardMap` (`lab4/kv/shardmap.go`) | current assignment (an atomic pointer), map of listener channels under an `RWMutex`, id counter | `Update`, `MakeListener`, `Close` | an unbuffered channel per listener |
| `KvServerImpl` (`lab4/kv/server.go`) | its listener, a `shutdown` channel, the listen loop | `MakeKvServer`, `shardMapListenLoop`, `Shutdown` | ShardMap; peers through the client pool |
| `FileShardMap` (`lab4/kv/file_shardmap.go`) | the fsnotify watcher, a `done` channel | `WatchShardMapFile`, `applyFromFile`, `watchForUpdates`, `Shutdown` | the file system; `ShardMap.Update` |
| `GrpcClientPool` (`lab4/kv/clientpool.go`) | cached clients under an `RWMutex` | `GetClient` | ShardMap (addresses), gRPC |
| Shard movement workflows (`lab4/kv/test/test_setup.go`) | none of their own: they compute assignments | `RemoveNode`, `DrainNode`, `MoveShard`, `MoveRandomShard`, `DropShard`, `UpdateShardMapping` | `ShardMap.Update`, twice |
| Consistency checker (`lab4/checker/checker.go`) | per key: accepted and overwritten values, version, count of writes under way | `BeginRead`, `CheckReadCorrect`, `BeginWrite`, `CompleteWrite`, ... | called by the stress tester around each request |
| Stress tester (`lab4/cmd/stress/tester.go`) | counters, a semaphore, a wait group, rate limiters | `stressLoop`, `stressGets`, `stressSets`, `main` | Kv client, checker |
| `TestClientPool` (`lab4/kv/test/test_clientpool.go`) | per node: overrides, request count, an `RWMutex` | `GetClient`, the overrides and their removal, the methods of `TestClient` | servers of the same process |

Hard here: `Update` holds a read lock while it blocks on channels whose receivers
come and go; readers and writers of the pool's map race; a file is seen half
written, and its events can be dropped; the checker must judge from outside which
of several overlapping writes a read may see; the tester's report must not be printed
before the last request has been counted; a test changes injected failures under
requests that are already on their way.

### Lab 2: Raft and its harness

| Part | State | Operations | Talks to |
|---|---|---|---|
| `labrpc` (`lab2/labrpc/labrpc.go`) | enabled ends, connections, servers, reliability flags, counts | `Call`, the dispatch loop, `processReq`, `Server.dispatch`, `Service.dispatch`, `Enable`, `AddServer`, `DeleteServer`, `Cleanup` | goroutines and channels; labgob |
| `labgob` (`lab2/labgob/labgob.go`) | the types checked so far and an error count, under a mutex | `Encode`, `Decode`, `Register`, `checkType`, `checkDefault` | `encoding/gob` |
| `Persister` (`lab2/raft/persister.go`) | Raft state and snapshot | `SaveRaftState`, `SaveStateAndSnapshot`, `Copy`, reads | the Raft under test, the harness |
| harness (`lab2/raft/config.go`) | per node: Raft, connectivity, end names, Persister, committed log | `crash1`, `start1`, `connect`, `disconnect`, `checkLogs`, `applier`, `nCommitted`, `wait`, `one`, leader checks | labrpc, Persister, Raft |

Hard here: RPCs in flight while their server is deleted, restarted or cut off;
replies dropped, delayed or reordered; the state of a crashed node carried over
while the old incarnation still runs; a test that counts commits, or asks for the
leader, one server at a time while things change; goroutines that meet a type for the
first time at once.

### Lab 1: video recommendation

`UserService` and `VideoService` (`lab1/*/server_lib`) are databases that are
built once and then only read, with failure injection
(`lab1/failure_injection`): a process-wide config that may be replaced while
requests sleep, fail or are never answered. The mock clients call both services
in one process, which then share that config. The frontend calls the services in
order, each call under a deadline. The load generator counts requests in five atomic
counters and reports them while they move. The ranker sums products modulo 2^64 and
hashes the sum with `det_bcrypt`. `VideoRecService` is a stub.

### Lab 0

Interfaces of string sets whose constructors are left to be written.

### What makes each part correct

`PROJECT.json` lists the hazards, each at its line. In short:

* ShardMap and KvServer: never send on a closed channel; every running server
  handles every assignment; the return of a second `Update` means that the first
  has been processed; nobody waits for ever.
* FileShardMap: no version of the file is overlooked, and a bad file does no harm.
* Client pool: one connection per node, no data race, no stuck caller.
* Workflows: every intermediate assignment is valid, and graceful ones keep the data.
* Checker: no false positives; stale reads are caught.
* labrpc and harness: an acknowledged update is durable, carried-over state is
  whole, links are exactly as asked, a call returns and is executed at most once.
* labgob: what gob loses is reported, and reported once.
* Agreement and leader checks: a wrong Raft is caught, a correct one is not blamed, and
  every check ends.
* Stress tester: the report is complete, and it is printed.
* Test client pool: answers follow from the overrides in force, overrides are not held up.
* Lab 1: the fate of a request follows from one injection config; programs end, reports
  can be accounted for, scores are deterministic.

## Plan

Order of work, most important first. Everything marked *done* has its runs, and
its proofs where listed.

1. *done* `RWMutex`, `ShardMap`, `KvServer`: the barrier every lab 4 test relies on. Proofs.
2. *done* `Labrpc`, `Persister`, `RaftConfig`: crash, restart and the network. Proofs.
3. *done* `ConsistencyChecker`. Proofs.
4. *done* `FileShardMap`, `ClientPool`. Proofs.
5. *done* `ShardWorkflows`, `RaftAgreement`, `Backends`.
6. *done* `RaftLeaders`, composed with `RaftAgreement` in `RaftChecks`.
7. *done* `Labgob` and `LabrpcCall`: a call from the caller's variables to the method and
   back, and its abstract specification `AtMostOnceRpc`.
8. *done* `StressTester`, `ClientCache` (the abstract client pool), `StressProcess`.
9. *done* `LoadGen`, `Frontend`, `DetBcrypt`, `Ranker`, `Lab1`.
10. *done* `TestClientPool`, composed with the workflows in `KvTest`.
11. *done* `ShardBarrier`, the abstract barrier that `UpdateShardMapping` promises the tests.
12. *done* Proofs of every safety property and all three refinements that the passing runs check.
13. *later* The exercises, once they are written: each has its place in the models (the body of
    `handleShardMapUpdate`, the Raft under `RaftConfig`, `GetTopVideos` behind `LoadGen`).

## Modules

Components are modules with `VARIABLES`, `Init`, one action per step between two
points at which another thread can intervene, and `Next`. A method that holds a
mutex from beginning to end is one action. `MC*` modules only give values to
constants; `*Proofs` modules and `FoldTheorems` hold theorems. Operators described as *Mutant of X* are
deliberately wrong variants of `X`; no specification uses them. Substituting one for
`X` makes some property fail, which shows that the property does depend on that line
of the code.

### RWMutex

Go's `sync.RWMutex` (standard library) as a record of readers, queued readers and
the announced writer. It keeps the two facts that matter to the callers: an announced
writer keeps new readers out, and its unlock lets in the readers that queued up.
Instantiated by `ShardMap` and `ClientPool`.

### ShardMap and KvServer

`ShardMap` has the mutex, the channel map and `Update` as four steps: swap, `RLock`,
one blocking send per channel, `RUnlock`. The assignment is abstracted to the number
of swaps so far, which stands for the pointer stored. Its threads, `Updaters`, run
`UpdateShardMapping` of the tests, that is `Update` twice. `KvServer` extends it with
the servers: `MakeKvServer` (register, start the loop, handle once), the loop, and
`Shutdown` (stop the loop, then close the listener). A send and the receive that meets
it are one action, `LoopNotified`, because the channel is unbuffered.
`handleShardMapUpdate` has a beginning and an end (`begun`, `handled`); in between
the server may do anything. `goal` and `base` are history variables: the first swap
of an updater and the servers registered at it.

`ShardBarrier` is what `UpdateShardMapping` promises its callers: an announcement waits for
the servers that take part at that moment, a server is released by a round of processing that
began after the announcement or by leaving, and the call returns when nobody is waited for.
`ImplementsBarrier` states that `KvServer` implements it; of the two `Update`s, the first begins
the round and the second only returns when it is over.

### Labrpc, Persister and RaftConfig

`Labrpc` has one slot per `Call`, with the control points of `Call`, of the dispatch
loop, of `processReq` and of the handler's goroutine: refused, dropped, handled,
replied, dropped again, delayed. `processReq` keeps what it read at its start
(`cserver`, `creliable`, `clong`) while the network changes. `Persister` has the
contents of a Persister, as sets of updates. `RaftConfig` composes them: the test
thread (`dpc`) runs `connect`, `disconnect`, `crash1`, `start1` and `cleanup`, one lock
section at a time, while RPCs and handlers go on. The Raft is external; the model has
only what the harness requires of it, a handler that saves an update before it returns.
`inc` numbers the incarnations of a node; an end `<<i, k, j>>` belongs to incarnation
`k` of `i`, which stands for the random end names of `start1`.

### Labgob, LabrpcCall and AtMostOnceRpc

`Labgob` checks types: a graph of types (kind, parts, which field names are upper case),
a stack per thread for the recursion of `checkType`, and one action per critical section
of `mu`, so that other goroutines can come in between. A value is the set of paths to its
non-zero leaves. gob itself is external: it sends the leaves without a lower-case field on
their path and leaves all others of the receiving variable alone. `LabrpcCall` extends
`Labrpc` and `Labgob`: the caller encodes, the network carries, the server looks the
service and the method up, the handler's goroutine decodes, runs and encodes, the caller
decodes into a variable that may already hold something. The network's owner makes ends and
servers, connects, enables and deletes them in any order, within `MaxChanges` operations.
`log.Fatalf`, on a method that does not exist, ends everything: `fatal`. So does the panic of
`checkDefault1` on a lower-case scalar at most three levels deep (`Panics`).
`Losses` collects what went wrong: the lower-case fields through which a leaf got lost or was left
as it was, and the stale leaves that `checkDefault1` reaches. `LossIsReported` compares their
number with `errorCount`, so that one complaint does not excuse another loss. The argument and
the reply of the run lose data through different fields, and a stale leaf through none; its types do
not panic.
`AtMostOnceRpc` is what a caller can rely on: *true* means executed exactly once, *false*
means nothing, also not that the method will not run later. `AtMostOnce` states that
`LabrpcCall` implements it.

### RaftAgreement

The other half of `config.go`. One applier per incarnation checks each committed entry
against all logs (`checkLogs`) and, when it finds an error, ends the process at a
later step (`log.Fatalf` after the unlock). The test runs `one` or `wait`, and
`nCommitted` looks at one server per step. What the Raft commits, where and in
which order is unrestricted, as is what `Start` answers.

### RaftLeaders and RaftChecks

`checkOneLeader`, `checkTerms` and `checkNoLeader` ask one connected server per step,
while leaders come and go and terms grow in any way (external: `RaftMoves`). `moved` records which
servers changed since the check, or its current round, began and `claims` who ever led which
term; the properties say what a verdict put together from answers of different moments is
still good for. `RaftChecks` runs either these or the calls of `RaftAgreement`: the leader
checks read nothing that appliers write.

### ConsistencyChecker

All methods of the checker for one key (keys do not interact), called in the order in
which the stress tester calls them. The service under test is external: a register with
a TTL. Two switches say what the service may do: `FirstSetFails`, a Set may fail before
any Set has reached the key, and `LateSets`, a failed Set may take effect after it
returned. `overlapped` is a history variable, the truth that `version` and `rc` try to
recognise.

### FileShardMap

The watcher's goroutine from `WatchShardMapFile` on, with `applyFromFile` as three
steps (read; parse and swap; wait for `Update`). Editors may write the file in two
steps (in between it is torn), replace it by a rename, remove it, and touch other files.
The queue of events is bounded and drops what does not fit, with an overflow report on
the error channel. File names are sequences of path elements, as `filepath.Dir` and the
naming of events matter: `Dir` cleans the directory (`.`, `..`, doubled slashes), and events are
named after what is left.

### ClientPool

`GetClient` with both looks at the cache, unknown nodes and failing connections.
A client is the number of the connection it was made with. `ClientCache` is the
pool as its callers see it, an atomic cache; `ImplementsCache` states the refinement, with
the identity as the mapping but for the set of threads inside a call.

### StressTester and StressProcess

The two loops of the tester, one goroutine per request, the semaphore, the wait group, the
counters and the report. A request asks the error log limiter before it counts an
inconsistency, as the code does. What `Kv` and the checker answer is open: how the checker
is called is in `ConsistencyChecker`. `StressProcess` is the process: pool and tester.

### ShardWorkflows

The replica arithmetic of the workflows and their order of publication. Random choices
are choices of sets. `holders` (external) is where the data is: a node that gains a
shard copies it from a node that has it and is assigned it too; a node that loses it
deletes it. A workflow's two publications are two steps; `UpdateShardMapping` itself is
one, which `SecondUpdateWaits` of `KvServer` justifies. `MoveRandomShard` is a loop: it draws
a shard (`MoveRandomHit`, `MoveRandomMiss`) until one can be moved.

### TestClientPool and KvTest

`TestClientPool`: a request holds its client's read lock from its count to its answer, an
override announces itself as a writer and waits. Both use `RWMutex`. There is one thread of
the test, and only it writes what the pool's own mutex protects, so that mutex is never
waited for and a method of the pool is one step. A request to a client without a server panics,
and the process ends (`Panicked`). `KvTest` is the test process: workflows or
injected failures.

### Backends

Both lab 1 services with their injection config, in processes of their own or, behind mock
clients, in one. A rate is never, always or sometimes, or negative: then `rand.Int63n` panics
and the process goes down with all its handlers (`Panic`), as it does with the nil config that
`SetInjectionConfig` stores unchecked. A handler loads the config, sleeps, then draws its fate
from what it loaded. Clients behind gRPC have a deadline. `ServeUser`, `ServeVideo` and the
constructors of the mock clients are how a service comes up, also again after a panic.
`--batch-size` is any number: 10 to 19 trending videos are drawn, the default is 250, `lab1.md`
sets 5. `TrendingCanBeFetched` is about every batch of consecutive ids that a client may cut out
of the list.

### Frontend, LoadGen, DetBcrypt, Ranker and Lab1

`Frontend` extends `Backends` with the program that calls them. `LoadGen` has a goroutine per
request with one step per atomic addition, and a reporter with one step per atomic load; `order`
and `marks` are history variables, the order in which responses were counted and how far it had
come when the reporter looked. `DetBcrypt` has the text form of a hash, its parser and its
comparison as operators over records with sizes; the cipher is opaque, and injective. Encoded
bytes have spare bits, which the decoder ignores. `Ranker` adds products in any order modulo
`Modulus` and hashes the sum (`scoreText`, of which `Rank` returns the FNV-64 hash; what FNV
makes of it is left out), and then damages the text or not before it is compared. `Lab1` puts
them side by side.

### Compositions

`Lab1`, `StressProcess`, `KvTest` and `RaftChecks` compose parts of which some share no
state. There `Init` (in `RaftChecks`, the first step) picks which part runs. An interleaving
of parts without common state adds no behaviour to any of them, and the properties speak of
one part each, so the disjoint union shows what the product would.

## Runs

All constants are small sets of model values or numbers. The bounds `MaxSwaps`,
`MaxListeners`, `MaxIncarnation`, `MaxTime`, `MaxVersion`, `MaxOther`, `MaxConns`,
`MaxMsgs`, `MaxRestarts`, `MaxCalls`, `MaxIndex`, `MaxSets`, `MaxChanges`, `MaxPath`,
`MaxTerm`, `MaxSteps`, `MaxRequests`, `MaxReports`, `MaxJobs` and `MaxSent` are guards of the
actions that count (`MaxPath` cuts values of recursive types). `Word` and `Modulus` stand for
2^64, `Iters`, `WaitIters`, `AgreeWait` and `GiveUp` for the numbers of rounds in the code,
`MaxPending` and `Burst` for the flag and the limiter of the tester.

| Run | Instance | Checks |
|---|---|---|
| `shardmap` | 2 updaters, 1 server that can stop, 4 swaps | `NeverSendOnClosed`, `SecondUpdateWaits`, `NoLostUpdate`, `ImplementsBarrier` (refinement), `UpdateReturnsUnlessStopped` |
| `shardmap_shutdown` | 1 updater, 1 server | `UpdateReturns`: **violated** |
| `raft_harness_safety` | 2 nodes started twice, 1 call | `AckedPersisted`, `NeverTorn`, `LinksMatchConnected`, `OldEndsDisabled` |
| `labrpc_calls` | 1 call to either of 2 methods, 7 types (one recursive, two with a lower-case field), 7 operations of the network's owner | `LossIsReported`, `ComplainsOnce`, `AtMostOnce` (refinement), `CallReturns` |
| `checker_safety` | 3 Sets, 1 reader, TTL 1, clock to 2 | `NoFalsePositive`, `OverlapIsDetected`, `StaleIsRejected` |
| `checker_first_set` | the same, a first Set may fail | `NoFalsePositive`: **violated** |
| `filemap` | 4 versions, queue of 2, 2 other events | `NothingMissed`, `KeepsLastGood`, `Converges` |
| `filemap_bare_name` | a file name without directory | `Converges`: **violated** |
| `stress_process` | pool: 3 threads, 1 node, 2 connections; tester: 3 requests, 2 pending, 1 log line | `OneConnection`, `NoMapRace`, `ImplementsCache` (refinement); `ReportIsComplete`; `ProcessReturns` |
| `kvtest` | 3 nodes, 2 shards, any valid initial assignment; test clients: 1 node, 2 callers, 2 methods | `AlwaysValid`, `WorkflowResult`, `GracefulKeepsData`; `AnswerIsCurrent`; `TestCallsReturn` |
| `raft_checks` | 2 servers; agreement: 1 restart, 2 commands, 2 indices, 3 commits, 1 call; leaders: 2 terms, 4 changes | `WrongRaftIsCaught`, `NoFalseAlarm`, `OneKeepsItsWord`; `LeaderVerdict`; `EveryCallEnds` |
| `lab1` | 1 request of any kind, 2 changes of config; frontend; 2 requests and 1 report of the load generator; 2 rankers | `OneConfigExplains`, `TrendingCanBeFetched`; `ReportExplained`; `RankIsDeterministic`, `AcceptsOwnPasswordOnly`; `Lab1CallsEnd` |

`ProcessReturns`, `TestCallsReturn` and `Lab1CallsEnd` are conjunctions of the liveness
properties of the parts. Every module has a type invariant: those of the shard map, the file
watcher, the harness, the checker, the pool, the tester and the Raft checks are theorems. The
others document the variables, and the definitions are there to be checked while a module is
edited (add them to the `INVARIANTS` of its run).

**Why these bounds reach the interesting cases.** `shardmap`: two updaters with two swaps each
interleave both of their Updates; one server that registers, runs and stops meets both at every
point of its life. What several listeners add is covered by the proofs, which hold for any
number. `raft_harness_safety`: one call between two nodes, either of which is replaced once, is
enough for every race between a call and a crash; two nodes give links in both directions.
`checker_safety`: it takes two Sets to overlap and a third to overwrite, and a clock that passes
the TTL. `filemap`: with a queue of two, events overflow, and four versions let the file change
before, during and after the first load. `stress_process`: three threads are a reader, a writer
and one queued behind it; a second connection would be possible within `MaxConns` and must not
happen; three requests for two places make a loop wait for the semaphore, and one log line for
up to three errors drowns some. `labrpc_calls`: one call has two goroutines that meet the same
types as the one that registers them, and seven operations are enough to bring a server up,
delete it, add it again or call `Cleanup` at every point of the call; calls interact through the
checked types only. `kvtest`: three nodes allow shards on none, some and all of them; two
callers are one inside the client and one queued behind an override; `Get` and `Set` stand for
the methods whose overrides are removed and are not. `raft_checks`: two servers and one restart
give three appliers, the smallest number at which a restarted server can disagree with its own
past and with another server; three commits allow agreement, disagreement and a gap; `AgreeWait`
and `GiveUp` allow two rounds of `one`; four changes of two servers are enough for a leader to
change hands between two answers, in both rounds. `lab1`: two changes of config put one before
and one under a request; requests do not interact, but for a panic that takes other handlers
with it, so one is enough for the run (two make 12.7 million states; the proof has any number);
the longest list of trending videos is longer than a batch; two requests can finish between two
loads of the reporter; two rankers show that scores agree, and `Modulus` 8 is passed by the
sums.

**Fairness.** Nothing is assumed of the environment: of callers, editors, handlers and the
Raft under test, of message delivery, or of whether a crash or a shutdown happens. The
liveness properties use

* weak fairness of every goroutine that is inside a call: Go's scheduler lets a runnable
  goroutine run;
* strong fairness for the writer's announcement in an `RWMutex` and for a rendezvous on a
  channel (`KvServer`, `ClientPool`), as the Go runtime queues both first come, first
  served, so a waiting thread is not overtaken for ever. `TestClientPool` needs none: its
  only writer is the test;
* in `LabrpcCall`, that the goroutines of a call run on, but not that a method returns:
  `CallReturns` excepts a method that hangs at a live server, and a network whose dispatch
  loop `Cleanup` has ended before it took the request;
* in `RaftChecks`, that the test thread and the appliers run on; every loop there is
  bounded by time, and time passes in the test's own sleeps;
* in `Lab1`, that deadlines fire in the end, which gRPC and contexts guarantee, and that
  goroutines run on;
* in `StressTester`, that the time is up at some point, and that requests end: the tester gives
  each a context with a timeout (`lab4/cmd/stress/tester.go:136`), and it is an assumption about
  the client to be written that it heeds it;
* in `TestClientPool`, that servers answer and injected sleeps end;
* in `ShardWorkflows`, strong fairness of drawing each shard: `rand` does not avoid one
  for ever.

**Deadlock checking** is off where a behaviour may end: all calls made, the clock at its
bound, the process ended by `log.Fatalf` or a panic, or the deadlock that `shardmap_shutdown`
reports. That nobody waits for ever is stated by the liveness properties instead.

## Proofs

TLAPS checks the theorems of eight modules, for every value of the constants that satisfies
the `ASSUME`s of the modules (finite sets, model values distinct from others, bounds in
`Nat`). The bounds themselves are arbitrary, so the theorems hold for any number of threads,
servers, nodes, calls, restarts, versions, types and writes. Each argument rests on an inductive
invariant: the initial predicate implies it, every action preserves it (one lemma per action or
group of actions), and the properties follow from it.

* **KvServerProofs**: `TypeCorrect`, `SendsAreSafe`, `SecondUpdateIsABarrier`, `NoUpdateIsLost`,
  `UpdateShardMappingIsABarrier`. None of the properties is inductive. `LockInv` ties a walk
  over the map to the read lock, `ChannelInv` says that the map holds exactly the open listeners
  under distinct ids, `LoopInv` relates owner and loop, and `SyncInv` and `NotifyInv` say for
  every updater and server what has been achieved or is still to be sent. `SyncInv` is the
  heart: in the first `Update` a server is either still to be notified or has begun to handle
  it; in the second it is either still to be notified or has *finished*, because it can only
  receive again after it returned from the first. The refinement of `ShardBarrier` goes action
  by action: `FirstSwap` announces, `LoopNotified` begins a round, `LoopHandled` ends it, and
  `UpdateReturn` of the second `Update` finds, by `SyncInv`, nobody left to wait for.
* **NetworkProofs**, the harness: `TypeCorrect`, `AcknowledgedIsDurable`,
  `CarriedStateIsWhole`, `LinksAreAsAsked`, `OldInstanceIsCutOff`. `AckInv` follows an update
  from the old Persister into the copy: as long as the server was still registered at the second
  check, `crash1` has not copied yet, so the copy will have it. `ServerInv` says who owns the state
  at each step of `crash1` and `start1`, `PairInv` that no snapshot is newer than the state stored
  with it, `LinkInv` which ends are enabled while a connect or disconnect is half done.
* **NetworkProofs**, the calls: `CallsAtMostOnce` is the refinement of `AtMostOnceRpc`.
  `OnceInv` ties the control points of caller, network and handler to the number of executions;
  with it each action is a move of `PhaseMove` on one call and a stutter on the others.
  `ComplaintsAreCountedOnce` and `LossesAreReported` follow from `RpcInv`. `CriesInv` is an
  equation between sums: complaints made plus complaints still on some goroutine's stack are the
  lower-case fields of the checked types plus the stale replies. Marking a type moves its fields
  from one side to the other in one step, which is why it must happen in the same critical
  section as the lookup. `SeenInv` says that every part of a checked type is checked or on a
  stack. So when no goroutine has work left, the checked types are closed under parts, and every
  type on the way to a lost leaf is among them (by induction over the length of paths,
  `TypesOnWalk`). A leaf that was lost or left alone has a lower-case field on its way
  (`LeavesWalk`, `DifferAre`); each such field is one of the fields that `CriesInv` counts, and
  each stale leaf within reach is one of the stale values it counts, so the sums bound the
  number of losses (`CoverCount`). `ValueInv` relates what is on the wire to what was passed.
  Assumed of the constants: finitely many types and calls, and values that belong to their types
  (`CallAssumption`, `GraphAssumption`).
* **StressProofs**, the checker: `CheckerTypesCorrect`, `OverlapsAreDetected`,
  `StaleValuesAreRejected`, `NoFalseAlarm`. `CountInv` (`rc` is the number of writes under
  way) and `OverlapInv` make `version` and `rc` exact; `HistoryInv` orders completed and running
  writes; `StoreInv` and `ReadInv` relate the register to what the checker accepts, expiry
  included. `NoFalseAlarm` needs `WellBehaved`, i.e. both switches off; either one alone
  refutes it.
* **StressProofs**, pool and tester: `TypesCorrect`, `ConnectsOnce`, `CallersShareClients`,
  `MapIsProtected`, from `MutexInv` (who is inside the lock) and `CacheInv` (a thread about to
  connect has found no client, and none can appear). `PoolIsCache` is the refinement of
  `ClientCache`: every call takes effect in the step that returns. `ReportComplete` is about the
  tester: `ResourceInv` equates the semaphore and the wait group with the requests under way,
  `TallyInv` the counters with the requests that got so far; when `main` is past `Wait`, none is
  under way.
* **FileShardMapProofs**: `TypeCorrect`, `NoVersionIsMissed` (where events carry the name the
  code compares with, `EventName = Filename`), `LastGoodIsKept` (an action property).
  `VersionInv` orders the versions of file, buffer and map; `FreshInv` says that a newer
  version is announced, about to be read, or read.
* **KvTestProofs**: `AnswersAreCurrent` (an action property), because the overrides that a request
  has looked at cannot change while it holds the read lock (`RequestInv`). `WorkflowsValid`,
  `WorkflowsKeepPromise` (where each shard of a drained node is afterwards, and that all other shards
  are untouched) and `GracefulWorkflows`: `AssignmentInv`, `DrainInv` and `MoveInv` say what
  holds between the two publications of a workflow, where the old and the new replica are both
  assigned. `GracefulWorkflows` has the hypothesis `NumNodes # 1`. It is needed: in a cluster of one
  node `DrainNode` finds no other node, drops the last replica and reports success.
* **RaftChecksProofs**: `ChecksTypesCorrect`, `WrongRaftCaught`, `RightRaftNotBlamed`, `OneIsTrue`,
  `LeaderVerdictRight`. For the appliers, `RecordInv` says which commits the logs hold and
  `CleanInv` that they are consistent as long as no applier has found an error, `BlameInv` that
  an error is found only if something went wrong; `CountInv` that what `nCommitted` has counted is
  still on record, and `CallInv` what `one` and `wait` return on. For the leader checks, `AskedInv`
  says that the answers got so far are still true of the servers that did not move.
* **Lab1Proofs**: `OneConfig` (`HandlerInv`: a handler decides by the config it loaded, which was in
  force during its request), `TrendingIsFetchable` (for any drawn list and any batch
  size: what has no duplicates has none in any part of it), `ReportIsExplained` (`CountersInv` and
  `ReportInv` compare the loads of the reporter with the order of the additions; `LoadAssumption`
  says that fewer than 2^64 requests are made), `RankingIsDeterministic` and `OwnPasswordOnly`
  (`RankInv`: after any number of summands the sum is the sum over the coefficients walked so far,
  modulo `Modulus`).
* **FoldTheorems**: lemmas about the folds of the community modules, that is sums over finite
  sets, functions defined by recurrence, how a sum changes with one summand and how many elements
  sets of bounded sizes have together. The library's
  induction theorems take an operator as parameter, which the installed provers cannot
  instantiate; `CountUp` takes a *set* of numbers instead and is proved from the
  well-foundedness of `<`. The facts about what a fold computes (the ids without duplicates,
  the dot product, the leaves of a type, the complaints) follow from it.

Only model-checked: the liveness properties (`UpdateReturnsUnlessStopped`, `CallReturns`,
`Converges`, `ProcessReturns`, `TestCallsReturn`, `EveryCallEnds`, `Lab1CallsEnd`), as fairness and
`ENABLED` are beyond what TLAPS 1.4.5 proves, and the three violations.

## Findings and observations

Three runs show that the code does not do what its comments say.

1. **`shardmap_shutdown`**: `Shutdown` stops the listen loop before it closes the listener
   (`lab4/kv/server.go:52`). An `Update` that holds the read lock and has not yet sent to this
   server then blocks for ever, `Close` waits for ever for the write lock, and every later
   `Update` queues behind it.
2. **`checker_first_set`**: a Set that fails before any Set succeeded leaves its value among
   the possible ones; a correct "not found" is then reported as inconsistent
   (`lab4/checker/checker.go:205`), although "care is taken to avoid false positives".
3. **`filemap_bare_name`**: with `--shardmap three.json` fsnotify names the events
   `./three.json`, which never equals the file name (`lab4/kv/file_shardmap.go:82`): the file is
   read once and never again.

Observations made while modelling, for a reader of the code:

* `MakeKvServer` starts the loop and then calls `handleShardMapUpdate` itself
  (`lab4/kv/server.go:45`), so two calls of it can run at the same time in one server. An
  implementation has to be ready for that.
* With `LateSets`, a failed Set that takes effect after a later, successful one makes the
  checker report a false positive. It cannot know.
* When the watcher's queue overflows the error is logged and the file is not read again
  (`lab4/kv/file_shardmap.go:94`); the map stays behind until the next event. `NothingMissed` and
  `Converges` therefore say "unless an event was dropped", and no property covers the
  case itself.
* `FileShardMap.done` is never made (`lab4/kv/file_shardmap.go:71`): `Shutdown` blocks for ever
  on a nil channel, and the goroutine is never told to stop.
* `DrainNode` in a cluster of one node drops all shards, and a node drained earlier may be
  given shards when another is drained (`lab4/kv/test/test_setup.go:314`).
* `MoveRandomShard` never returns when no shard is on some, but not all, of the nodes
  (`lab4/kv/test/test_setup.go:363`).
* `log.Fatalf` in `applier` (`lab2/raft/config.go:168`) ends the process, so `cfg.applyErr` is never
  set and the code after it never runs.
* `TestClient.ClearOverrides` does not clear `setResponse` and `deleteResponse`
  (`lab4/kv/test/test_clientpool.go:191`); the tests that exist clear only before they use
  `Get`. `ClearServerImpls`, which nothing calls, changes clients without their lock.
* An inconsistency is counted only if the error log limiter allows a line
  (`lab4/cmd/stress/tester.go:163`): a run with many errors reports too few.
  `ReportIsComplete` says when the number can be trusted.
* `reportStats` loads `totalResponses` before `totalSuccesses`
  (`lab1/cmd/loadgen/loadgen.go:84`), and their unsigned difference can wrap around.
  `ReportExplained` says by how much a report is off.
* `checkDefault1` (`lab2/labgob/labgob.go:130`) sees stale values in scalars up to three
  levels deep; others stay in a reused reply without a word. For a lower-case scalar field that
  close to the root, `value.Interface()` panics (`lab2/labgob/labgob.go:159`), whatever its value.
* A negative rate or a missing config, which the `SetInjectionConfig` RPCs store unchecked, makes
  the next request panic (`lab1/failure_injection/failure_injection.go:45` and `:54`).
* With a `--batch-size` below 19, as in `lab1.md`, `GetVideo` may refuse the trending videos in one
  request; any way of splitting them is accepted.
* `bcEncoding` is not `Strict()` (`lab1/det_bcrypt/det_bcrypt.go:28`): the last of the 22
  characters of a salt has four spare bits, and `CompareHashAndPassword` accepts all 16 forms of
  it.
* A shard map file directly in `/` is not reloaded either: its events are named `//name`.
* An omitted response of a mock client hangs its caller for ever
  (`lab1/failure_injection/failure_injection.go:60`); a gRPC client has its deadline.
* The order check in `applier` looks at a log that outlives restarts (`lab2/raft/config.go:146`):
  a gap of a restarted server is filled by what its predecessor committed. `WrongRaftIsCaught` is
  therefore limited to servers that never restarted.

## Not modelled

* Stubs: the Raft of lab 2, the Kv client and the key-value methods of the lab 4 server,
  `GetTopVideos`, lab 0. Where they interact with what is modelled, they appear as external,
  unrestricted actions. The stats reader of lab 1 prints what it gets from a stub.
* Generated protocol code (`*.pb.go`), which is more than a third of the implementation's
  lines; blowfish and FNV (opaque functions); commands, flags, logging, formatting and
  statistics output; `GetShardForKey`, a hash modulo the number of shards.
* Data: keys, values, videos, users, RPC arguments and byte encodings are model values, and
  the content of a shard map file is a version number.
