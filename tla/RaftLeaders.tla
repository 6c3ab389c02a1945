---------------------------- MODULE RaftLeaders ----------------------------
(***************************************************************************)
(* lab2/raft/config.go: checkOneLeader(), checkTerms() and checkNoLeader() *)
(* ask one connected server after another for its term and whether it      *)
(* leads, while the Raft under test (external) goes on, and draw a         *)
(* conclusion from answers that may never have been true together.         *)
(* The test itself connects and disconnects servers, so that `connected'   *)
(* does not change within a check.                                         *)
(***************************************************************************)
EXTENDS Integers, FiniteSets, FiniteSetsExt

CONSTANTS Peers,      \* cfg.n
          MaxTerm,    \* bound on the terms of the Raft
          MaxSteps,   \* bound on the changes of its state
          Iters       \* rounds of checkOneLeader() (10)

ASSUME LeadersAssumption ==
    Peers \in Nat \ {0} /\ MaxTerm \in Nat /\ MaxSteps \in Nat /\ Iters \in Nat \ {0}

Ids == 0 .. Peers - 1
Term == 0 .. MaxTerm
NoTerm == -1

VARIABLES
    connected,   \* cfg.connected
    state,       \* what GetState() of each server returns
    steps,       \* changes of it so far
    lpc,         \* control point of the check, its verdict at the end
    check,       \* which of the three it is
    li,          \* next server to ask
    leaders,     \* leaders[term], as a set of pairs
    agreed,      \* checkTerms(): term
    iters,       \* rounds so far
    picked,      \* the server that checkOneLeader() returns
    moved,       \* history: servers that changed since the round began
    claims       \* history: every (term, server) that led

leaderVars == <<connected, state, steps, lpc, check, li, leaders, agreed, iters, picked, moved, claims>>
roundVars == <<li, leaders, moved>>

LeadersTypeOK ==
    /\ connected \in SUBSET Ids
    /\ state \in [Ids -> [term : Term, leader : BOOLEAN]]
    /\ steps \in 0 .. MaxSteps
    /\ lpc \in {"idle", "look", "one", "two", "none", "agree", "disagree", "quiet", "claimed"}
    /\ check \in {"oneLeader", "terms", "noLeader"}
    /\ li \in 0 .. Peers
    /\ leaders \in SUBSET (Term \X Ids)
    /\ agreed \in Term \cup {NoTerm}
    /\ iters \in 0 .. Iters
    /\ picked \in (Term \X Ids) \cup {<<>>}
    /\ moved \in SUBSET Ids /\ claims \in SUBSET (Term \X Ids)

LeadersInit ==
    /\ connected = {}
    /\ state = [i \in Ids |-> [term |-> 0, leader |-> FALSE]]
    /\ steps = 0
    /\ lpc = "idle" /\ check = "oneLeader" /\ li = 0
    /\ leaders = {} /\ agreed = NoTerm /\ iters = 0 /\ picked = <<>>
    /\ moved = {} /\ claims = {}

-----------------------------------------------------------------------------
\* The Raft: terms grow, leadership comes and goes, more than one may lead.
RaftMoves(i, to) ==
    /\ steps < MaxSteps
    /\ to.term >= state[i].term /\ to # state[i]
    /\ state' = [state EXCEPT ![i] = to]
    /\ steps' = steps + 1
    /\ moved' = moved \cup {i}
    /\ claims' = IF to.leader THEN claims \cup {<<to.term, i>>} ELSE claims
    /\ UNCHANGED <<connected, lpc, check, li, leaders, agreed, iters, picked>>

\* The test has connected the servers in conn when it makes the call.
CheckCall(which, conn) ==
    /\ lpc = "idle"
    /\ connected' = conn
    /\ check' = which
    /\ lpc' = "look" /\ moved' = {}
    /\ UNCHANGED <<state, steps, li, leaders, agreed, iters, picked, claims>>

-----------------------------------------------------------------------------
Asking(which, i) == lpc = "look" /\ check = which /\ li = i /\ i < Peers

\* GetState() of server i, or nothing if it is not connected.
Skip(i) == i \notin connected /\ li' = i + 1 /\ UNCHANGED <<lpc, leaders, agreed>>

AskLeader(i) ==
    /\ Asking("oneLeader", i)
    /\ \/ Skip(i)
       \/ /\ i \in connected /\ li' = i + 1
          /\ leaders' = IF state[i].leader THEN leaders \cup {<<state[i].term, i>>} ELSE leaders
          /\ UNCHANGED <<lpc, agreed>>

AskTerm(i) ==
    /\ Asking("terms", i)
    /\ \/ Skip(i)
       \/ /\ i \in connected /\ li' = i + 1
          /\ IF agreed = NoTerm THEN agreed' = state[i].term /\ UNCHANGED lpc
             ELSE IF state[i].term # agreed THEN lpc' = "disagree" /\ UNCHANGED agreed
             ELSE UNCHANGED <<lpc, agreed>>
          /\ UNCHANGED leaders

AskNoLeader(i) ==
    /\ Asking("noLeader", i)
    /\ \/ Skip(i)
       \/ /\ i \in connected /\ li' = i + 1
          /\ lpc' = IF state[i].leader THEN "claimed" ELSE lpc
          /\ UNCHANGED <<leaders, agreed>>

Ask ==
    /\ \E i \in Ids : AskLeader(i) \/ AskTerm(i) \/ AskNoLeader(i)
    /\ UNCHANGED <<connected, state, steps, check, iters, picked, moved, claims>>

\* Mutant of PickLeader: the first term with a leader, not the last.
PickLeaderFirst == CHOOSE p \in leaders : p[1] = Min({q[1] : q \in leaders})

\* leaders[lastTermWithLeader][0]; every term has one by now.
PickLeader == CHOOSE p \in leaders : p[1] = Max({q[1] : q \in leaders})

\* All servers were asked: two leaders of a term, a leader, or another round.
RoundEnds ==
    /\ lpc = "look" /\ check = "oneLeader" /\ li = Peers
    /\ IF \E p, q \in leaders : p # q /\ p[1] = q[1]
       THEN lpc' = "two" /\ UNCHANGED <<picked, iters, roundVars>>
       ELSE IF leaders # {}
       THEN lpc' = "one" /\ picked' = PickLeader /\ UNCHANGED <<iters, roundVars>>
       ELSE IF iters + 1 = Iters THEN lpc' = "none" /\ UNCHANGED <<picked, iters, roundVars>>
       ELSE /\ iters' = iters + 1
            /\ li' = 0 /\ leaders' = {} /\ moved' = {}
            /\ UNCHANGED <<lpc, picked>>
    /\ UNCHANGED <<connected, state, steps, check, agreed, claims>>

CheckReturns ==
    /\ lpc = "look" /\ check # "oneLeader" /\ li = Peers
    /\ lpc' = IF check = "terms" THEN "agree" ELSE "quiet"
    /\ UNCHANGED <<connected, state, steps, check, roundVars, agreed, iters, picked, claims>>

LeadersStep == Ask \/ RoundEnds \/ CheckReturns

\* The Raft runs on after a verdict, which no longer matters.
LeadersNext ==
    \/ \E i \in Ids, t \in Term, l \in BOOLEAN :
        lpc \in {"idle", "look"} /\ RaftMoves(i, [term |-> t, leader |-> l])
    \/ \E which \in {"oneLeader", "terms", "noLeader"}, conn \in SUBSET Ids :
        CheckCall(which, conn)
    \/ LeadersStep

-----------------------------------------------------------------------------
(* Properties                                                              *)

Steady == connected \ moved

\* A verdict put together from answers of different moments: "term %d has %d (>1)
\* leaders" is only said of a Raft in which two servers did lead one term;
\* checkOneLeader() returns a server that did lead in the newest term of all that
\* led throughout the round, and gives up, or stays silent about two leaders of a
\* term, only if no server, or not both, led throughout the last round;
\* checkTerms() and checkNoLeader() are right about every server that did not
\* change while they asked.
LeaderVerdict ==
    /\ lpc = "two" => \E t \in Term : \E i, j \in Ids : i # j /\ {<<t, i>>, <<t, j>>} \subseteq claims
    /\ lpc = "one" =>
        /\ picked \in claims /\ picked[2] \in connected
        /\ \A i \in Steady : state[i].leader => state[i].term <= picked[1]
        /\ \A i, j \in Steady : state[i].leader /\ state[j].leader /\ i # j
                                    => state[i].term # state[j].term
    /\ lpc = "none" => \A i \in Steady : ~state[i].leader
    /\ lpc = "agree" => \A i \in Steady : state[i].term = agreed
    /\ lpc = "quiet" => \A i \in Steady : ~state[i].leader
    /\ lpc = "claimed" => \E p \in claims : p[2] \in connected
    /\ lpc = "disagree" => moved # {} \/ \E i, j \in connected : state[i].term # state[j].term
=============================================================================
