------------------------------ MODULE Backends ------------------------------
(***************************************************************************)
(* lab1: the UserService and the VideoService with their failure           *)
(* injection (failure_injection.go, server_lib.go of both) as their        *)
(* clients meet them: each in a process of its own behind gRPC, or both in *)
(* the test's process behind the mock clients, which call the server       *)
(* directly and share its one injection config.                            *)
(*                                                                         *)
(* An id stands for the record it names, and a call for the thread that    *)
(* makes it.  A rate is 0 (never), 1 (always), 2 (sometimes: one in n) or  *)
(* negative: rand.Int63n() panics, and so does MaybeInject() with a nil    *)
(* config, which SetInjectionConfig stores as well; it counts as negative. *)
(* SleepNs only takes time, which passes between Load and Draw.  The       *)
(* expiration time of the trending videos is left out.                     *)
(***************************************************************************)
EXTENDS Integers, Sequences, FiniteSets, SequencesExt

CONSTANTS Calls,         \* requests
          Known,         \* ids in the database of either service
          Requests,      \* lists of ids that are asked for
          Configs,       \* injection configs that are set
          MaxBatchSize,  \* options.MaxBatchSize
          TopPicks,      \* lists that makeRandomVideos() may draw
          MaxSets        \* bound on changes of the config

Services == {"user", "video"}
Rates == -1 .. 2
Config == [fail : Rates, omit : Rates]
Cleared == [fail |-> 0, omit |-> 0]

\* --batch-size is any number: 250, or less than the list of top videos is long.
ASSUME BatchAssumption == MaxBatchSize \in Int /\ TopPicks \subseteq Seq(Known)
ASSUME ConfigsAssumption == Configs \subseteq Config /\ MaxSets \in Nat

VARIABLES
    mocks,      \* both services behind mock clients, in one process
    config,     \* gInjectionConfig of the process of each service
    made,       \* services constructed
    sets,       \* changes of a config so far
    topVideos,  \* the VideoService's list
    cpc,        \* each call: idle, waiting, done
    req,        \* its request: service, method and ids
    ans,        \* its answer
    hpc,        \* the goroutine that handles it; it may panic or go down with others
    snap,       \* the config this has loaded
    seen        \* history: configs in force since the request was sent

vars == <<mocks, config, made, sets, topVideos, cpc, req, ans, hpc, snap, seen>>
callVars == <<cpc, req, ans, hpc, snap>>

Request == [service : Services, method : {"get"}, ids : Requests \cup {<<>>}] \cup
           [service : {"video"}, method : {"trending"}, ids : {<<>>}]
Answer == [status : {"none", "internal", "invalid", "notFound", "ok", "deadline"},
           ids : Seq(Known)]
NoAnswer == [status |-> "none", ids |-> <<>>]

TypeOK ==
    /\ mocks \in BOOLEAN
    /\ config \in [Services -> Config]
    /\ made \in SUBSET Services
    /\ sets \in 0 .. MaxSets
    /\ topVideos \in Seq(Known)
    /\ cpc \in [Calls -> {"idle", "waiting", "done"}]
    /\ req \in [Calls -> Request]
    /\ ans \in [Calls -> Answer]
    /\ hpc \in [Calls -> {"none", "load", "draw", "handle", "hung", "answered", "panicked", "killed"}]
    /\ snap \in [Calls -> Config]
    /\ seen \in [Calls -> SUBSET Config]

-----------------------------------------------------------------------------
(* Data                                                                    *)

\* The first occurrence of each id.
deduplicateIds(ids) ==
    FoldLeft(LAMBDA acc, id : IF Contains(acc, id) THEN acc ELSE Append(acc, id), <<>>, ids)

\* Mutant of MakeTopVideos: the list is used as drawn.
MakeTopVideosAsDrawn(picks) == picks

MakeTopVideos(picks) == deduplicateIds(picks)

Ok(ids) == [status |-> "ok", ids |-> ids]
Error(status) == [status |-> status, ids |-> <<>>]

\* The records of all ids, or none if one is missing.
Lookup(ids) == IF ToSet(ids) \subseteq Known THEN Ok(ids) ELSE Error("notFound")

\* GetUser and GetVideo past the injection.
GetUser(ids) ==
    IF ids = <<>> \/ Len(ids) > MaxBatchSize THEN Error("invalid") ELSE Lookup(ids)

GetVideo(ids) ==
    IF ids = <<>> \/ Len(ids) > MaxBatchSize \/ Len(deduplicateIds(ids)) # Len(ids)
    THEN Error("invalid") ELSE Lookup(ids)

GetTrendingVideos == Ok(topVideos)

\* What oneIn(n) may return; nothing if it panics.
OneIn(n) ==
    IF n < 0 THEN {} ELSE IF n = 0 THEN {FALSE} ELSE IF n = 1 THEN {TRUE} ELSE BOOLEAN
Drawable(cfg) == OneIn(cfg.fail) # {} /\ OneIn(cfg.omit) # {}

Init ==
    /\ mocks \in BOOLEAN
    /\ config = [s \in Services |-> Cleared]
    /\ made = {}
    /\ sets = 0
    /\ topVideos \in {MakeTopVideos(p) : p \in TopPicks}
    /\ cpc = [c \in Calls |-> "idle"]
    /\ req = [c \in Calls |-> [service |-> "user", method |-> "get", ids |-> <<>>]]
    /\ ans = [c \in Calls |-> NoAnswer]
    /\ hpc = [c \in Calls |-> "none"]
    /\ snap = [c \in Calls |-> Cleared]
    /\ seen = [c \in Calls |-> {}]

-----------------------------------------------------------------------------
(* The config of a process                                                 *)

\* gInjectionConfig.Store in the process of service s.
SetInjectionConfigPb(s, new) ==
    /\ config' = [t \in Services |-> IF mocks \/ t = s THEN new ELSE config[t]]
    /\ seen' = [c \in Calls |->
                   IF hpc[c] \in {"load", "draw"}
                   THEN seen[c] \cup {config'[req[c].service]} ELSE seen[c]]

\* A server is made with its database and the config of its options.
MakeServer(s, new) ==
    /\ s \notin made
    /\ made' = made \cup {s}
    /\ SetInjectionConfigPb(s, new)
    /\ UNCHANGED <<mocks, sets, topVideos, callVars>>

MakeUserServiceServer(new) == MakeServer("user", new)
MakeVideoServiceServer(new) == MakeServer("video", new)

\* main() of either server: it listens, or else the process ends before it has
\* made anything, and serves.  One that has panicked may be started again.
ServeUser(new) == ~mocks /\ MakeUserServiceServer(new)
ServeVideo(new) == ~mocks /\ MakeVideoServiceServer(new)

\* The mock clients make the server they call.
MakeMockUserServiceClient(new) == mocks /\ MakeUserServiceServer(new)
MakeMockVideoServiceClient(new) == mocks /\ MakeVideoServiceServer(new)

\* The SetInjectionConfig RPC of either service.
SetInjectionConfig(s, new) ==
    /\ s \in made /\ sets < MaxSets
    /\ sets' = sets + 1
    /\ SetInjectionConfigPb(s, new)
    /\ UNCHANGED <<mocks, made, topVideos, callVars>>

UserSetInjectionConfig(new) == SetInjectionConfig("user", new)
VideoSetInjectionConfig(new) == SetInjectionConfig("video", new)

-----------------------------------------------------------------------------
(* A call and its handler                                                  *)

Send(c, r) ==
    /\ cpc[c] = "idle" /\ r.service \in made
    /\ cpc' = [cpc EXCEPT ![c] = "waiting"]
    /\ req' = [req EXCEPT ![c] = r]
    /\ hpc' = [hpc EXCEPT ![c] = "load"]
    /\ seen' = [seen EXCEPT ![c] = {config[r.service]}]
    /\ UNCHANGED <<mocks, config, made, sets, topVideos, ans, snap>>

\* Over gRPC, with a deadline.
GrpcCall(c, r) == ~mocks /\ Send(c, r)

\* MockUserServiceClient and MockVideoServiceClient
MockGetUser(c, ids) ==
    mocks /\ Send(c, [service |-> "user", method |-> "get", ids |-> ids])
MockGetVideo(c, ids) ==
    mocks /\ Send(c, [service |-> "video", method |-> "get", ids |-> ids])
MockGetTrendingVideos(c) ==
    mocks /\ Send(c, [service |-> "video", method |-> "trending", ids |-> <<>>])

\* MaybeInject loads the config once, then sleeps ...
Load(c) ==
    /\ hpc[c] = "load"
    /\ snap' = [snap EXCEPT ![c] = config[req[c].service]]
    /\ hpc' = [hpc EXCEPT ![c] = "draw"]
    /\ UNCHANGED <<mocks, config, made, sets, topVideos, cpc, req, ans, seen>>

Respond(c, answer) ==
    /\ hpc' = [hpc EXCEPT ![c] = "answered"]
    /\ IF cpc[c] = "waiting"
       THEN cpc' = [cpc EXCEPT ![c] = "done"] /\ ans' = [ans EXCEPT ![c] = answer]
       ELSE UNCHANGED <<cpc, ans>>

\* Mutant of Draw: the config is looked at again after the sleep.
DrawTorn(c) ==
    /\ hpc[c] = "draw"
    /\ \E fail \in OneIn(config[req[c].service].fail), omit \in OneIn(snap[c].omit) :
        \/ omit /\ hpc' = [hpc EXCEPT ![c] = "hung"] /\ UNCHANGED <<cpc, ans>>
        \/ ~omit /\ fail /\ Respond(c, Error("internal"))
        \/ ~omit /\ ~fail /\ hpc' = [hpc EXCEPT ![c] = "handle"] /\ UNCHANGED <<cpc, ans>>
    /\ UNCHANGED <<mocks, config, made, sets, topVideos, req, snap, seen>>

\* ... and draws: an omitted response blocks the goroutine for ever, whether an
\* error was drawn or not and whether the client still waits or not.
Draw(c) ==
    /\ hpc[c] = "draw"
    /\ \E fail \in OneIn(snap[c].fail), omit \in OneIn(snap[c].omit) :
        \/ omit /\ hpc' = [hpc EXCEPT ![c] = "hung"] /\ UNCHANGED <<cpc, ans>>
        \/ ~omit /\ fail /\ Respond(c, Error("internal"))
        \/ ~omit /\ ~fail /\ hpc' = [hpc EXCEPT ![c] = "handle"] /\ UNCHANGED <<cpc, ans>>
    /\ UNCHANGED <<mocks, config, made, sets, topVideos, req, snap, seen>>

\* A panic ends the process of the service with all its handlers; with mocks that
\* is the process of the test.
Panic(c) ==
    LET down == IF mocks THEN Services ELSE {req[c].service}
    IN  /\ hpc[c] = "draw" /\ ~Drawable(snap[c])
        /\ made' = made \ down
        /\ hpc' = [d \in Calls |->
                      IF d = c THEN "panicked"
                      ELSE IF req[d].service \in down /\ hpc[d] \in {"load", "draw", "handle", "hung"}
                      THEN "killed" ELSE hpc[d]]
        /\ UNCHANGED <<mocks, config, sets, topVideos, cpc, req, ans, snap, seen>>

Handle(c) ==
    /\ hpc[c] = "handle"
    /\ Respond(c, IF req[c].method = "trending" THEN GetTrendingVideos
                  ELSE IF req[c].service = "user" THEN GetUser(req[c].ids)
                  ELSE GetVideo(req[c].ids))
    /\ UNCHANGED <<mocks, config, made, sets, topVideos, req, snap, seen>>

\* Mutant of Deadline: the client gives up only on a server that answers.
DeadlineIfAlive(c) ==
    /\ cpc[c] = "waiting" /\ ~mocks /\ hpc[c] # "hung"
    /\ cpc' = [cpc EXCEPT ![c] = "done"]
    /\ ans' = [ans EXCEPT ![c] = Error("deadline")]
    /\ UNCHANGED <<mocks, config, made, sets, topVideos, req, hpc, snap, seen>>

\* context.WithTimeout: gRPC ends the call for the client, not for the handler; it
\* also does, maybe earlier, when the server is gone.  A mock client has no one to
\* do that.
Deadline(c) ==
    /\ cpc[c] = "waiting" /\ ~mocks
    /\ cpc' = [cpc EXCEPT ![c] = "done"]
    /\ ans' = [ans EXCEPT ![c] = Error("deadline")]
    /\ UNCHANGED <<mocks, config, made, sets, topVideos, req, hpc, snap, seen>>

-----------------------------------------------------------------------------
\* What the services do, and what the world does to their configs.
ServerNext ==
    \/ \E new \in Configs :
        \/ ServeUser(new) \/ MakeMockUserServiceClient(new) \/ UserSetInjectionConfig(new)
        \/ ServeVideo(new) \/ MakeMockVideoServiceClient(new) \/ VideoSetInjectionConfig(new)
    \/ \E c \in Calls : Load(c) \/ Draw(c) \/ Panic(c) \/ Handle(c) \/ Deadline(c)

\* Clients that ask for anything.
ClientNext ==
    \/ \E c \in Calls, r \in Request : GrpcCall(c, r)
    \/ \E c \in Calls, ids \in Requests : MockGetUser(c, ids) \/ MockGetVideo(c, ids)
    \/ \E c \in Calls : MockGetTrendingVideos(c)

\* Handlers run on, and a client's timer fires in the end.
Fairness ==
    \A c \in Calls :
        /\ WF_vars(Load(c)) /\ WF_vars(Draw(c)) /\ WF_vars(Panic(c))
        /\ WF_vars(Handle(c)) /\ WF_vars(Deadline(c))

-----------------------------------------------------------------------------
(* Properties                                                              *)

\* What a request went through is possible under cfg.
Explains(cfg, c) ==
    CASE hpc[c] = "panicked" -> ~Drawable(cfg)
      [] hpc[c] = "hung" -> TRUE \in OneIn(cfg.omit) /\ Drawable(cfg)
      [] ans[c].status = "internal" -> FALSE \in OneIn(cfg.omit) /\ TRUE \in OneIn(cfg.fail)
      [] OTHER -> FALSE \in OneIn(cfg.omit) /\ FALSE \in OneIn(cfg.fail)

\* The config is exchanged as a whole while requests are under way, also by the
\* other service's constructor when both are mocked: one config that was in
\* force at some moment of a request explains its fate, never a mix of two and
\* never one replaced before it was sent.
OneConfigExplains ==
    \A c \in Calls :
        (hpc[c] \in {"hung", "handle", "panicked"} \/ ans[c].status \notin {"none", "deadline"})
            => \E cfg \in seen[c] : Explains(cfg, c)

\* The fallback needs batching and no filtering: cut what GetTrendingVideos returned
\* into batches of any sizes up to --batch-size, and GetVideo accepts every one.
TrendingCanBeFetched ==
    \A c \in Calls : (req[c].method = "trending" /\ ans[c].status = "ok") =>
        \A i, j \in 1 .. Len(ans[c].ids) :
            j - i + 1 \in 1 .. MaxBatchSize => GetVideo(SubSeq(ans[c].ids, i, j)).status = "ok"

\* A client with a deadline gets an answer or an error, also from a server that
\* omits its response or panics; without gRPC in between it may wait for ever, or
\* end with the server.
ClientReturns ==
    \A c \in Calls :
        (cpc[c] = "waiting") ~> (cpc[c] = "done" \/ (mocks /\ hpc[c] \in {"hung", "killed", "panicked"}))
=============================================================================
