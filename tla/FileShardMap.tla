---------------------------- MODULE FileShardMap ----------------------------
(***************************************************************************)
(* lab4/kv/file_shardmap.go: a ShardMap kept up to date from a file that   *)
(* is watched with fsnotify.                                               *)
(*                                                                         *)
(* The file's content is the number of its version, or Torn (half          *)
(* written, which never parses) or Missing.  Outside the code: whoever     *)
(* edits the file, and the watcher with its queue of events, which is      *)
(* bounded: what does not fit is dropped and an overflow reported instead, *)
(* on the channel of errors.                                               *)
(*                                                                         *)
(* ShardMap.Update() is a Swap, and a wait until the listeners have been   *)
(* told (module ShardMap has the details).                                 *)
(***************************************************************************)
EXTENDS Integers, Sequences, SequencesExt

CONSTANTS Filename,      \* the path given on the command line, split at its slashes
          QueueSize,     \* events the watcher holds
          MaxVersion,    \* bound on the versions written to the file
          MaxOther       \* bound on removals and on events of other files

Torn == -1
Missing == 0

\* The last element is the name of a file.
ASSUME FilenameAssumption ==
    Filename \in Seq(STRING) /\ Filename # <<>> /\ Last(Filename) \notin {"", ".", ".."}
ASSUME LimitsAssumption ==
    QueueSize \in Nat \ {0} /\ MaxVersion \in Nat \ {0} /\ MaxOther \in Nat

VARIABLES
    file,      \* what os.ReadFile would read
    written,   \* versions written so far
    others,    \* removals and events of other files so far
    events,    \* queue of the watcher, oldest first; empty until it is added
    lost,      \* history: an event of the file was dropped
    pc,        \* WatchShardMapFile and watchForUpdates
    data,      \* what applyFromFile read
    sm,        \* the ShardMap: version last given to Update(), 0 before
    stopper    \* a thread that calls Shutdown()

editVars == <<file, written, others>>
vars == <<editVars, events, lost, pc, data, sm, stopper>>

Kinds == {"create", "write", "remove", "other", "overflow"}

\* Mutant of Watched: the directory is watched only after the initial load.
WatchedLate == pc \notin {"start", "load", "loaded", "failed"}

\* watcher.Add() precedes the initial load.
Watched == pc \notin {"start", "failed"}

TypeOK ==
    /\ file \in -1 .. MaxVersion /\ written \in 0 .. MaxVersion
    /\ others \in 0 .. MaxOther
    /\ events \in Seq(Kinds) /\ Len(events) <= QueueSize + 1
    /\ lost \in BOOLEAN
    /\ pc \in {"start", "load", "loaded", "select", "read", "readDone", "notify", "failed"}
    /\ data \in -1 .. MaxVersion
    /\ sm \in 0 .. MaxVersion
    /\ stopper \in {"idle", "sending"}

\* The file exists with its first version when the program starts.
Init ==
    /\ file = 1 /\ written = 1 /\ others = 0
    /\ events = <<>> /\ lost = FALSE
    /\ pc = "start" /\ data = 0 /\ sm = 0
    /\ stopper = "idle"

-----------------------------------------------------------------------------
(* The file and the watcher of its directory (external)                    *)

\* The kernel queues an event for a directory that is watched.
Post(e) ==
    /\ events' = IF ~Watched \/ Len(events) > QueueSize THEN events
                 ELSE Append(events, IF Len(events) < QueueSize THEN e ELSE "overflow")
    /\ lost' = (lost \/ (Watched /\ Len(events) >= QueueSize /\ e \in {"write", "create"}))

\* A program opens the file for writing, which creates or truncates it ...
WriteBegin ==
    /\ written < MaxVersion
    /\ file # Torn
    /\ file' = Torn
    /\ Post(IF file = Missing THEN "create" ELSE "write")
    /\ UNCHANGED <<written, others, pc, data, sm, stopper>>

\* ... and writes the new version.
WriteEnd ==
    /\ file = Torn
    /\ file' = written + 1
    /\ written' = written + 1
    /\ Post("write")
    /\ UNCHANGED <<others, pc, data, sm, stopper>>

\* A program writes the new version elsewhere and renames it into place.
Rename ==
    /\ written < MaxVersion
    /\ file # Torn
    /\ file' = written + 1
    /\ written' = written + 1
    /\ Post("create")
    /\ UNCHANGED <<others, pc, data, sm, stopper>>

RemoveFile ==
    /\ others < MaxOther
    /\ file \notin {Torn, Missing}
    /\ file' = Missing
    /\ others' = others + 1
    /\ Post("remove")
    /\ UNCHANGED <<written, pc, data, sm, stopper>>

TouchOther ==
    /\ others < MaxOther
    /\ others' = others + 1
    /\ Post("other")
    /\ UNCHANGED <<file, written, pc, data, sm, stopper>>

-----------------------------------------------------------------------------
(* WatchShardMapFile                                                       *)

\* filepath.Dir: the path without its last element, cleaned.  Empty elements and "."
\* are dropped, ".." drops the element before it; "." or "/" if nothing is left.
Dir(path) ==
    LET rooted == Len(path) > 1 /\ path[1] = ""
        dir == FoldLeft(LAMBDA d, e :
                            CASE e \in {"", "."} -> d
                              [] e = ".." /\ d # <<>> /\ Last(d) # ".." -> Front(d)
                              [] e = ".." /\ d = <<>> /\ rooted -> d
                              [] OTHER -> Append(d, e),
                        <<>>, Front(path))
    IN  IF rooted THEN <<"">> \o (IF dir = <<>> THEN <<"">> ELSE dir)
        ELSE IF dir = <<>> THEN <<".">> ELSE dir

\* The name fsnotify gives to the file: the directory watched, a slash, its name.
EventName == Dir(Filename) \o <<Last(Filename)>>

\* fsnotify.NewWatcher() and watcher.Add(filepath.Dir(filename))
Watch ==
    /\ pc = "start"
    /\ pc' = "load"
    /\ UNCHANGED <<editVars, events, lost, data, sm, stopper>>

WatchFails ==
    /\ pc = "start"
    /\ pc' = "failed"
    /\ UNCHANGED <<editVars, events, lost, data, sm, stopper>>

(* applyFromFile, called before the loop (pc "load") and by it ("read")    *)

ReadFile ==
    /\ pc \in {"load", "read"}
    /\ data' = file
    /\ pc' = IF pc = "load" THEN "loaded" ELSE "readDone"
    /\ UNCHANGED <<editVars, events, lost, sm, stopper>>

\* Mutant of ApplyFails: what could not be parsed is used all the same.
ApplyAnyway ==
    /\ pc \in {"loaded", "readDone"}
    /\ data \in {Torn, Missing}
    /\ sm' = 0
    /\ pc' = IF pc = "loaded" THEN "failed" ELSE "select"
    /\ UNCHANGED <<editVars, events, lost, data, stopper>>

\* The file could not be read or parsed: the initial load fails for good, a
\* later one keeps the ShardMap as it is.
ApplyFails ==
    /\ pc \in {"loaded", "readDone"}
    /\ data \in {Torn, Missing}
    /\ pc' = IF pc = "loaded" THEN "failed" ELSE "select"
    /\ UNCHANGED <<editVars, events, lost, data, sm, stopper>>

\* fileSm.ShardMap.Update(&smState): the Swap; at the initial load nobody
\* listens yet.
ApplySwap ==
    /\ pc \in {"loaded", "readDone"}
    /\ data \notin {Torn, Missing}
    /\ sm' = data
    /\ pc' = IF pc = "loaded" THEN "select" ELSE "notify"
    /\ UNCHANGED <<editVars, events, lost, data, stopper>>

\* Update() returns: every listener has been told.
ApplyReturns ==
    /\ pc = "notify"
    /\ pc' = "select"
    /\ UNCHANGED <<editVars, events, lost, data, sm, stopper>>

-----------------------------------------------------------------------------
(* watchForUpdates: the next event or error                                *)

\* The event is of this file, and a Write or a Create.
Relevant(e) == e \in {"write", "create"} /\ EventName = Filename

\* Mutant of HandleEvent: only Write events are looked at.
HandleWriteOnly ==
    /\ pc = "select"
    /\ events # <<>>
    /\ events' = Tail(events)
    /\ pc' = IF Relevant(Head(events)) /\ Head(events) = "write" THEN "read" ELSE "select"
    /\ UNCHANGED <<editVars, lost, data, sm, stopper>>

HandleEvent ==
    /\ pc = "select"
    /\ events # <<>>
    /\ events' = Tail(events)
    /\ pc' = IF Relevant(Head(events)) THEN "read" ELSE "select"
    /\ UNCHANGED <<editVars, lost, data, sm, stopper>>

\* Shutdown() sends on fileSm.done, which nothing ever makes: the channel is
\* nil, and neither this send nor the receive in the loop can ever proceed.
Shutdown ==
    /\ pc \notin {"start", "load", "loaded", "failed"}
    /\ stopper = "idle"
    /\ stopper' = "sending"
    /\ UNCHANGED <<editVars, events, lost, pc, data, sm>>

-----------------------------------------------------------------------------
Editing == WriteBegin \/ WriteEnd \/ Rename \/ RemoveFile \/ TouchOther
Applying == ReadFile \/ ApplyFails \/ ApplySwap \/ ApplyReturns
Next == Editing \/ Watch \/ WatchFails \/ Applying \/ HandleEvent \/ Shutdown

Spec == Init /\ [][Next]_vars

\* The watching goroutine runs on (and listeners receive what Update() sends);
\* nothing is assumed of the programs that edit the file.
FairSpec == Spec /\ WF_vars(Applying) /\ WF_vars(HandleEvent)

-----------------------------------------------------------------------------
(* Properties                                                              *)

\* "the last known good value will be used": whatever the file goes through,
\* the ShardMap never loses its value and never returns to an older version.
KeepsLastGood == [][sm' >= sm]_vars

\* No update slips between reading the file and watching it, or between two
\* events: as long as the watcher dropped nothing, a ShardMap that differs from
\* a good file is about to be brought up to date.
NothingMissed ==
    (pc = "select" /\ file > 0 /\ sm # file /\ ~lost) =>
        \E i \in DOMAIN events : events[i] \in {"write", "create"}

\* "propagating any updates to the file to the ShardMap itself": once a version
\* of the file stays, the ShardMap has it in the end, unless the watcher dropped
\* an event of the file.
Converges ==
    \A v \in 1 .. MaxVersion : <>[](file = v /\ Watched /\ ~lost) => <>[](sm = v)
=============================================================================
