-------------------------- MODULE RaftChecksProofs --------------------------
(***************************************************************************)
(* For any number of servers, terms, indices and restarts: the appliers    *)
(* catch every wrong Raft and blame no right one, one() and wait() keep    *)
(* their word, and the leader checks draw the right conclusion from        *)
(* answers of different moments.                                           *)
(***************************************************************************)
EXTENDS RaftChecks, FiniteSetTheorems, TLAPS

-----------------------------------------------------------------------------
(* The leader checks                                                       *)

\* Whoever leads is on record, and only connected servers that led are in
\* leaders[].
ClaimsInv ==
    /\ \A i \in Ids : state[i].leader => <<state[i].term, i>> \in claims
    /\ \A p \in leaders : p \in claims /\ p[2] \in connected

\* Nothing has been asked before a check is called; there is a round left as
\* long as checkOneLeader() looks.
RoundInv ==
    /\ lpc = "idle" => li = 0 /\ leaders = {} /\ agreed = NoTerm
    /\ lpc \in {"idle", "look"} => iters < Iters

\* What the servers asked so far answered is still true of those that have not
\* changed since.
AskedInv ==
    lpc = "look" =>
        /\ check = "oneLeader" => \A i \in Steady :
            i < li /\ state[i].leader => <<state[i].term, i>> \in leaders
        /\ check = "terms" =>
            /\ \A i \in Steady : i < li => state[i].term = agreed
            /\ agreed # NoTerm => moved # {} \/ \E j \in connected : state[j].term = agreed
        /\ check = "noLeader" => \A i \in Steady : i < li => ~state[i].leader

LeadersInv == LeadersTypeOK /\ ClaimsInv /\ RoundInv /\ AskedInv /\ LeaderVerdict

-----------------------------------------------------------------------------
(* A nonempty set of natural numbers below a bound has a greatest element. *)
LEMMA MaxExists ==
    ASSUME NEW S, NEW b \in Nat, S \subseteq 0 .. b, S # {}
    PROVE  Max(S) \in S /\ \A y \in S : y <= Max(S)
<1> DEFINE T == {b - x : x \in S}
<1>1. T \subseteq Nat
  <2>1. ASSUME NEW x \in S PROVE b - x \in Nat
    <3>1. x \in 0 .. b
      OBVIOUS
    <3>2. QED
      BY <3>1
  <2>2. QED
    BY <2>1
<1>2. T # {}
  OBVIOUS
<1>3. PICK m \in T : \A y \in T : ~ (<<y, m>> \in OpToRel(<, Nat))
  BY <1>1, <1>2, NatLessThanWellFounded, WFMin, Zenon
<1>4. \A y \in T : ~ (y < m)
  BY <1>1, <1>3 DEF OpToRel
<1>5. PICK x \in S : m = b - x
  OBVIOUS
<1>6. ASSUME NEW y \in S PROVE x >= y
  <2>1. x \in 0 .. b /\ y \in 0 .. b
    OBVIOUS
  <2>2. b - y \in T
    OBVIOUS
  <2>3. ~ (b - y < b - x)
    BY <1>4, <1>5, <2>2
  <2>4. QED
    BY <2>1, <2>3
<1>7. \A y \in S : Max(S) >= y
  BY <1>6, Zenon DEF Max
<1>8. Max(S) \in S
  BY <1>6, Zenon DEF Max
<1>9. QED
  BY <1>7, <1>8

-----------------------------------------------------------------------------
(* No server has been asked and none leads at first. *)
LEMMA LeadersInitInv == LeadersInit => LeadersInv
<1> SUFFICES ASSUME LeadersInit PROVE LeadersInv
  OBVIOUS
<1> USE LeadersAssumption DEF LeadersInit
<1>1. LeadersTypeOK
  BY DEF LeadersTypeOK, Ids, Term, NoTerm
<1>2. ClaimsInv
  BY DEF ClaimsInv
<1>3. RoundInv /\ AskedInv
  BY DEF RoundInv, AskedInv
<1>4. LeaderVerdict
  BY DEF LeaderVerdict
<1>5. QED
  BY <1>1, <1>2, <1>3, <1>4 DEF LeadersInv

(* A change of the Raft is recorded in moved and in claims. *)
LEMMA RaftMovesStep ==
    ASSUME LeadersInv, NEW i \in Ids, NEW to \in [term : Term, leader : BOOLEAN],
           lpc \in {"idle", "look"}, RaftMoves(i, to)
    PROVE  LeadersInv'
<1> USE LeadersAssumption DEF LeadersInv, RaftMoves
<1>1. LeadersTypeOK'
  BY DEF LeadersTypeOK
<1>2. ClaimsInv'
  BY DEF ClaimsInv, LeadersTypeOK
<1>3. RoundInv'
  BY DEF RoundInv
<1>4. AskedInv'
  BY DEF AskedInv, Steady, LeadersTypeOK
<1>5. LeaderVerdict'
  BY DEF LeaderVerdict
<1>6. QED
  BY <1>1, <1>2, <1>3, <1>4, <1>5

(* Nothing has been asked when a check begins. *)
LEMMA CheckCallStep ==
    ASSUME LeadersInv, NEW which \in {"oneLeader", "terms", "noLeader"},
           NEW conn \in SUBSET Ids, CheckCall(which, conn)
    PROVE  LeadersInv'
<1> USE LeadersAssumption DEF LeadersInv, CheckCall
<1>1. LeadersTypeOK'
  BY DEF LeadersTypeOK
<1>2. ClaimsInv' /\ RoundInv'
  BY DEF ClaimsInv, RoundInv
<1>3. AskedInv'
  BY DEF AskedInv, Steady, RoundInv, Ids, LeadersTypeOK
<1>4. LeaderVerdict'
  BY DEF LeaderVerdict
<1>5. QED
  BY <1>1, <1>2, <1>3, <1>4

(* One more server is asked. *)
LEMMA AskStep ==
    ASSUME LeadersInv, Ask
    PROVE  LeadersInv'
<1> USE LeadersAssumption DEF LeadersInv
<1>1. PICK i \in Ids : AskLeader(i) \/ AskTerm(i) \/ AskNoLeader(i)
  BY DEF Ask
<1>2. lpc = "look" /\ li = i /\ i < Peers /\ li' = i + 1
      /\ UNCHANGED <<connected, state, steps, check, iters, picked, moved, claims>>
  BY <1>1 DEF Ask, AskLeader, AskTerm, AskNoLeader, Asking, Skip
<1>3. \A k \in Ids : k < i + 1 => k < i \/ k = i
  BY DEF Ids
<1>4. CASE AskLeader(i)
  <2>1. LeadersTypeOK'
    BY <1>2, <1>4 DEF LeadersTypeOK, AskLeader, Asking, Skip, Ids
  <2>2. ClaimsInv'
    BY <1>2, <1>4 DEF ClaimsInv, AskLeader, Asking, Skip
  <2>3. RoundInv' /\ LeaderVerdict'
    BY <1>2, <1>4 DEF RoundInv, LeaderVerdict, AskLeader, Asking, Skip
  <2>4. AskedInv'
    BY <1>2, <1>3, <1>4 DEF AskedInv, Steady, AskLeader, Asking, Skip, LeadersTypeOK
  <2>5. QED
    BY <2>1, <2>2, <2>3, <2>4
<1>5. CASE AskTerm(i)
  <2>1. LeadersTypeOK'
    BY <1>2, <1>5 DEF LeadersTypeOK, AskTerm, Asking, Skip, Ids
  <2>2. ClaimsInv' /\ RoundInv'
    BY <1>2, <1>5 DEF ClaimsInv, RoundInv, AskTerm, Asking, Skip
  <2>3. AskedInv'
    BY <1>2, <1>3, <1>5 DEF AskedInv, Steady, AskTerm, Asking, Skip, LeadersTypeOK, NoTerm, Term
  <2>4. LeaderVerdict'
    BY <1>2, <1>5 DEF LeaderVerdict, AskedInv, AskTerm, Asking, Skip
  <2>5. QED
    BY <2>1, <2>2, <2>3, <2>4
<1>6. CASE AskNoLeader(i)
  <2>1. LeadersTypeOK'
    BY <1>2, <1>6 DEF LeadersTypeOK, AskNoLeader, Asking, Skip, Ids
  <2>2. ClaimsInv' /\ RoundInv'
    BY <1>2, <1>6 DEF ClaimsInv, RoundInv, AskNoLeader, Asking, Skip
  <2>3. AskedInv'
    BY <1>2, <1>3, <1>6 DEF AskedInv, Steady, AskNoLeader, Asking, Skip, LeadersTypeOK
  <2>4. LeaderVerdict'
    BY <1>2, <1>6 DEF LeaderVerdict, ClaimsInv, AskNoLeader, Asking, Skip
  <2>5. QED
    BY <2>1, <2>2, <2>3, <2>4
<1>7. QED
  BY <1>1, <1>4, <1>5, <1>6

(* A leader of the last term with one: there is one to pick, and it is in leaders[]. *)
LEMMA PickLeaderIsLast ==
    ASSUME LeadersTypeOK, leaders # {}
    PROVE  PickLeader \in leaders /\ \A q \in leaders : q[1] <= PickLeader[1]
<1> DEFINE S == {q[1] : q \in leaders}
<1>1. S \subseteq 0 .. MaxTerm /\ S # {}
  BY DEF LeadersTypeOK, Term
<1>2. Max(S) \in S /\ \A y \in S : y <= Max(S)
  BY <1>1, MaxExists, LeadersAssumption
<1>3. \E p \in leaders : p[1] = Max(S)
  BY <1>2
<1>4. PickLeader \in leaders /\ PickLeader[1] = Max(S)
  BY <1>3, Zenon DEF PickLeader
<1>5. QED
  BY <1>2, <1>4

(* The end of a round: the verdict covers all that led throughout it. *)
LEMMA RoundEndsStep ==
    ASSUME LeadersInv, RoundEnds
    PROVE  LeadersInv'
<1> USE LeadersAssumption DEF LeadersInv, RoundEnds
<1>1. \A i \in Steady : i < li
  BY DEF Steady, LeadersTypeOK, Ids
<1>2. \A i \in Steady : state[i].leader => <<state[i].term, i>> \in leaders
  BY <1>1 DEF AskedInv
<1>3. CASE \E p, q \in leaders : p # q /\ p[1] = q[1]
  <2>1. PICK p \in leaders, q \in leaders : p # q /\ p[1] = q[1]
    BY <1>3
  <2>2. p \in Term \X Ids /\ q \in Term \X Ids /\ p \in claims /\ q \in claims
    BY DEF LeadersTypeOK, ClaimsInv
  <2>3. p = <<p[1], p[2]>> /\ q = <<p[1], q[2]>> /\ p[2] # q[2] /\ p[1] \in Term
        /\ p[2] \in Ids /\ q[2] \in Ids
    BY <2>1, <2>2
  <2>4. lpc' = "two" /\ UNCHANGED <<picked, iters, roundVars, connected, state, steps, check, agreed, claims>>
    BY <1>3
  <2>5. LeaderVerdict'
    BY <2>2, <2>3, <2>4 DEF LeaderVerdict
  <2>6. LeadersTypeOK' /\ ClaimsInv' /\ RoundInv' /\ AskedInv'
    BY <2>4 DEF LeadersTypeOK, ClaimsInv, RoundInv, AskedInv, roundVars
  <2>7. QED
    BY <2>5, <2>6
<1>4. CASE ~(\E p, q \in leaders : p # q /\ p[1] = q[1]) /\ leaders # {}
  <2>1. PickLeader \in leaders /\ \A q \in leaders : q[1] <= PickLeader[1]
    BY <1>4, PickLeaderIsLast
  <2>2. lpc' = "one" /\ picked' = PickLeader
        /\ UNCHANGED <<iters, roundVars, connected, state, steps, check, agreed, claims>>
    BY <1>4
  <2>3. LeadersTypeOK' /\ ClaimsInv' /\ RoundInv' /\ AskedInv'
    BY <2>1, <2>2 DEF LeadersTypeOK, ClaimsInv, RoundInv, AskedInv, roundVars
  <2>4. picked' \in claims /\ picked'[2] \in connected
    BY <2>1, <2>2 DEF ClaimsInv
  <2>5. \A i \in Steady : state[i].leader => state[i].term <= picked'[1]
    BY <1>2, <2>1, <2>2
  <2>6. \A i, j \in Steady : state[i].leader /\ state[j].leader /\ i # j
                                 => state[i].term # state[j].term
    BY <1>2, <1>4
  <2>7. LeaderVerdict'
    BY <2>2, <2>4, <2>5, <2>6 DEF LeaderVerdict, Steady, roundVars
  <2>8. QED
    BY <2>3, <2>7
<1>5. CASE leaders = {}
  <2>1. LeadersTypeOK'
    BY <1>5 DEF LeadersTypeOK, roundVars, RoundInv
  <2>2. ClaimsInv' /\ RoundInv'
    BY <1>5 DEF ClaimsInv, RoundInv, roundVars, LeadersTypeOK
  <2>3. AskedInv'
    BY <1>5 DEF AskedInv, Steady, roundVars, LeadersTypeOK, Ids
  <2>4. LeaderVerdict'
    BY <1>2, <1>5 DEF LeaderVerdict, Steady, roundVars
  <2>5. QED
    BY <2>1, <2>2, <2>3, <2>4
<1>6. QED
  BY <1>3, <1>4, <1>5

(* checkTerms() and checkNoLeader() return when all servers were asked. *)
LEMMA CheckReturnsStep ==
    ASSUME LeadersInv, CheckReturns
    PROVE  LeadersInv'
<1> USE LeadersAssumption DEF LeadersInv, CheckReturns, roundVars
<1>1. \A i \in Steady : i < li
  BY DEF Steady, LeadersTypeOK, Ids
<1>2. LeadersTypeOK' /\ ClaimsInv' /\ RoundInv' /\ AskedInv'
  BY DEF LeadersTypeOK, ClaimsInv, RoundInv, AskedInv
<1>3. LeaderVerdict'
  BY <1>1 DEF LeaderVerdict, AskedInv, Steady, LeadersTypeOK
<1>4. QED
  BY <1>2, <1>3

(* Every step of a leader check, or of the Raft it looks at. *)
LEMMA LeadersStepInv == LeadersInv /\ [LeadersNext]_leaderVars => LeadersInv'
<1> SUFFICES ASSUME LeadersInv, [LeadersNext]_leaderVars PROVE LeadersInv'
  OBVIOUS
<1>1. ASSUME NEW i \in Ids, NEW t \in Term, NEW l \in BOOLEAN, lpc \in {"idle", "look"},
             RaftMoves(i, [term |-> t, leader |-> l])
      PROVE  LeadersInv'
  BY <1>1, RaftMovesStep
<1>2. ASSUME NEW which \in {"oneLeader", "terms", "noLeader"}, NEW conn \in SUBSET Ids,
             CheckCall(which, conn)
      PROVE  LeadersInv'
  BY <1>2, CheckCallStep
<1>3. CASE Ask
  BY <1>3, AskStep
<1>4. CASE RoundEnds
  BY <1>4, RoundEndsStep
<1>5. CASE CheckReturns
  BY <1>5, CheckReturnsStep
<1>6. CASE UNCHANGED leaderVars
  <2> USE <1>6 DEF leaderVars, LeadersInv
  <2>1. LeadersTypeOK'
    BY DEF LeadersTypeOK
  <2>2. ClaimsInv' /\ RoundInv'
    BY DEF ClaimsInv, RoundInv
  <2>3. AskedInv'
    BY DEF AskedInv, Steady
  <2>4. LeaderVerdict'
    BY DEF LeaderVerdict, Steady
  <2>5. QED
    BY <2>1, <2>2, <2>3, <2>4
<1>7. QED
  BY <1>1, <1>2, <1>3, <1>4, <1>5, <1>6 DEF LeadersNext, LeadersStep

-----------------------------------------------------------------------------
(* The appliers                                                            *)

\* cfg.logs against the entries the appliers were given: what is recorded was
\* given to an applier of that server, and what was given left a record, even
\* if another one has replaced it since.
RecordInv ==
    /\ \A a \in Appliers : applied[a] # {} => a[2] <= inc[a[1]]
    /\ \A a \in Appliers : \A e \in applied[a] : logs[a[1]][e[1]] # NoCmd
    /\ \A i \in Nodes, x \in Index : logs[i][x] # NoCmd =>
        \E a \in Appliers : a[1] = i /\ <<x, logs[i][x]>> \in applied[a]

\* As long as no applier has found anything, no record was replaced, the servers
\* agree, and one that was never restarted has no hole in its log.
CleanInv ==
    Caught \/
        /\ \A a \in Appliers : \A e \in applied[a] : logs[a[1]][e[1]] = e[2]
        /\ \A i, j \in Nodes, x \in Index : logs[i][x] \in {NoCmd, logs[j][x]} \/ logs[j][x] = NoCmd
        /\ \A i \in Nodes : inc[i] = 1 => ~gap[<<i, 1>>]

\* An applier complains only of what did go wrong.
BlameInv == Caught => Disagreement \/ \E a \in Appliers : gap[a]

JudgeInv == RecordInv /\ CleanInv /\ BlameInv

-----------------------------------------------------------------------------
(* The test                                                                *)

Supporters == {i \in Nodes : i < ni /\ logs[i][index] = cmd}

\* nCommitted(): the value it has found was committed, and as many of the servers
\* looked at have it as were counted.
CountInv ==
    /\ count <= ni
    /\ count > 0 => \E a \in Appliers : <<index, cmd>> \in applied[a]
    /\ Caught \/ Cardinality(Supporters) >= count

\* one() and wait(): what they return on, and the command one() may not submit
\* twice.
CallInv ==
    /\ tpc \in {"recount", "rejudge"} => op.kind = "wait"
    /\ tpc = "submit" => op.kind = "one" /\ (~op.retry => accepted = 0)
    /\ tpc = "returned" => count >= op.n /\ (op.kind = "one" => cmd = op.cmd)
    /\ op.kind = "one" /\ ~op.retry => accepted <= 1

AgreementInv == TypeOK /\ JudgeInv /\ CountInv /\ CallInv

-----------------------------------------------------------------------------
(* Sets of servers are finite, and a larger one has at least as many. *)
LEMMA NodesCount ==
    ASSUME NEW T \in SUBSET Nodes, NEW S \in SUBSET T
    PROVE  /\ IsFiniteSet(T) /\ IsFiniteSet(S)
           /\ Cardinality(S) \in Nat /\ Cardinality(T) \in Nat
           /\ Cardinality(S) <= Cardinality(T)
<1>1. IsFiniteSet(Nodes)
  BY FS_Interval, SizesAssumption DEF Nodes
<1>2. IsFiniteSet(T)
  BY <1>1, FS_Subset
<1>3. IsFiniteSet(S) /\ Cardinality(S) <= Cardinality(T)
  BY <1>2, FS_Subset
<1>4. QED
  BY <1>2, <1>3, FS_CardinalityType

(* The three properties follow from the invariant. *)
LEMMA AgreementInvImplies ==
    AgreementInv => WrongRaftIsCaught /\ NoFalseAlarm /\ OneKeepsItsWord
<1> SUFFICES ASSUME AgreementInv PROVE WrongRaftIsCaught /\ NoFalseAlarm /\ OneKeepsItsWord
  OBVIOUS
<1> USE SizesAssumption, CmdsAssumption DEF AgreementInv, JudgeInv
<1>1. WrongRaftIsCaught
  <2>1. ASSUME ~Caught, NEW a \in Appliers, NEW b \in Appliers,
               NEW e \in applied[a], NEW f \in applied[b], e[1] = f[1]
        PROVE  e[2] = f[2]
    <3>1. e[1] \in Index /\ e[2] \in Cmds /\ f[2] \in Cmds /\ a[1] \in Nodes /\ b[1] \in Nodes
      BY DEF TypeOK, Appliers
    <3>2. logs[a[1]][e[1]] = e[2] /\ logs[b[1]][e[1]] = f[2]
      BY <2>1 DEF CleanInv
    <3>3. QED
      BY <2>1, <3>1, <3>2 DEF CleanInv
  <2>2. Disagreement => Caught
    BY <2>1 DEF Disagreement
  <2>3. QED
    BY <2>2 DEF WrongRaftIsCaught, CleanInv
<1>2. NoFalseAlarm
  <2>1. ASSUME count > 0, NEW i \in Nodes, logs[i][index] \notin {NoCmd, cmd}
        PROVE  Disagreement
    <3>1. PICK a \in Appliers : <<index, cmd>> \in applied[a]
      BY <2>1 DEF CountInv
    <3>2. index \in Index
      BY DEF TypeOK
    <3>3. PICK b \in Appliers : b[1] = i /\ <<index, logs[i][index]>> \in applied[b]
      BY <2>1, <3>2 DEF RecordInv
    <3>4. QED
      BY <2>1, <3>1, <3>3 DEF Disagreement
  <2>2. QED
    BY <2>1 DEF NoFalseAlarm, BlameInv
<1>3. OneKeepsItsWord
  <2> DEFINE All == {i \in Nodes : logs[i][index] = cmd}
  <2>1. All \in SUBSET Nodes /\ Supporters \in SUBSET All
    BY DEF Supporters
  <2>2. /\ Cardinality(Supporters) \in Nat /\ Cardinality(All) \in Nat
        /\ Cardinality(Supporters) <= Cardinality(All)
    BY <2>1, NodesCount
  <2>3. ASSUME tpc = "returned", ~Caught PROVE Cardinality(All) >= op.n
    <3>1. op.n \in Nat /\ count \in Nat
      BY DEF TypeOK, Ops
    <3>2. QED
      BY <2>2, <2>3, <3>1 DEF CountInv, CallInv
  <2>4. QED
    BY <2>3 DEF OneKeepsItsWord, CallInv
<1>4. QED
  BY <1>1, <1>2, <1>3

(* Nothing is committed and nobody called at first. *)
LEMMA AgreementInitInv == Init => AgreementInv
<1> SUFFICES ASSUME Init PROVE AgreementInv
  OBVIOUS
<1> USE SizesAssumption, CmdsAssumption, TimesAssumption DEF Init
<1>1. TypeOK
  <2>1. op \in Ops
    BY DEF Ops
  <2>2. gap \in [Appliers -> BOOLEAN] /\ applied \in [Appliers -> SUBSET (Index \X Cmds)]
    OBVIOUS
  <2>3. logs \in [Nodes -> [Index -> Entries]] /\ cmd \in Entries
    BY DEF Entries
  <2>4. err \in [Appliers -> {NoErr, "mismatch", "order"}]
    OBVIOUS
  <2>5. inc \in [Nodes -> 1 .. MaxRestarts + 1] /\ index \in Index
    BY DEF Index
  <2>6. exited \in BOOLEAN
    BY Zenon
  <2>7. /\ tpc = "idle" /\ now \in Nat /\ t1 \in Nat
        /\ ni \in 0 .. N /\ count \in 0 .. N /\ calls \in 0 .. MaxCalls /\ accepted \in Nat
    OBVIOUS
  <2> HIDE DEF Init
  <2>8. QED
    BY <2>1, <2>2, <2>3, <2>4, <2>5, <2>6, <2>7 DEF TypeOK
<1>2. ~Caught
  BY DEF Caught, NoErr
<1>3. JudgeInv
  BY <1>2 DEF JudgeInv, RecordInv, CleanInv, BlameInv, Appliers
<1>4. CountInv
  <2>1. Cardinality(Supporters) >= 0
    <3>1. Supporters = {}
      BY DEF Supporters, Nodes
    <3>2. QED
      BY <3>1, FS_EmptySet
  <2>2. QED
    BY <2>1 DEF CountInv
<1>5. CallInv
  BY DEF CallInv
<1>6. QED
  BY <1>1, <1>3, <1>4, <1>5 DEF AgreementInv

-----------------------------------------------------------------------------
(* Where the appliers do nothing, what was found about them stays true. *)
LEMMA JudgeUnchanged ==
    ASSUME JudgeInv, UNCHANGED judgeVars
    PROVE  JudgeInv' /\ (Caught' <=> Caught)
<1> USE DEF judgeVars
<1>1. Caught' <=> Caught
  BY DEF Caught
<1>2. Disagreement' <=> Disagreement
  BY DEF Disagreement
<1>3. RecordInv'
  BY DEF JudgeInv, RecordInv
<1>4. CleanInv'
  BY <1>1 DEF JudgeInv, CleanInv
<1>5. BlameInv'
  BY <1>1, <1>2 DEF JudgeInv, BlameInv
<1>6. QED
  BY <1>1, <1>3, <1>4, <1>5 DEF JudgeInv

(* nCommitted() starts from nothing. *)
LEMMA FreshCount ==
    ASSUME ni' = 0, count' = 0
    PROVE  CountInv'
<1>1. Supporters' = {}
  BY DEF Supporters, Nodes
<1>2. Cardinality(Supporters') = 0
  BY <1>1, FS_EmptySet
<1>3. QED
  BY <1>2 DEF CountInv

(* Where nothing is committed or counted, the count stays right. *)
LEMMA CountUnchanged ==
    ASSUME CountInv, UNCHANGED <<judgeVars, countVars, index>>
    PROVE  CountInv'
<1> USE DEF judgeVars, countVars
<1>1. Caught' <=> Caught
  BY DEF Caught
<1>2. Supporters' = Supporters
  BY DEF Supporters
<1>3. QED
  BY <1>1, <1>2 DEF CountInv

(* An entry is committed. *)
LEMMA ApplyStep ==
    ASSUME AgreementInv, NEW a \in Appliers, NEW x \in Index, NEW v \in Cmds, Apply(a, x, v)
    PROVE  AgreementInv'
<1> USE SizesAssumption, CmdsAssumption DEF AgreementInv, JudgeInv
<1>1. a[1] \in Nodes /\ a[2] \in 1 .. MaxRestarts + 1 /\ a = <<a[1], a[2]>> /\ v # NoCmd
  BY DEF Appliers
<1>2. TypeOK'
  <2>1. logs' \in [Nodes -> [Index -> Entries]]
    BY <1>1 DEF Apply, TypeOK, Entries
  <2>2. err' \in [Appliers -> {NoErr, "mismatch", "order"}]
    BY DEF Apply, TypeOK
  <2>3. applied' \in [Appliers -> SUBSET (Index \X Cmds)]
    BY DEF Apply, TypeOK
  <2>4. gap' \in [Appliers -> BOOLEAN]
    BY DEF Apply, TypeOK
  <2>5. UNCHANGED <<inc, exited, tpc, op, index, now, t1, ni, count, cmd, calls, accepted>>
    BY DEF Apply, countVars
  <2>6. QED
    BY <2>1, <2>2, <2>3, <2>4, <2>5 DEF TypeOK
<1>3. /\ logs'[a[1]][x] = v
      /\ \A i \in Nodes, y \in Index : i # a[1] \/ y # x => logs'[i][y] = logs[i][y]
  BY <1>1 DEF Apply, TypeOK
<1>4. /\ applied'[a] = applied[a] \cup {<<x, v>>}
      /\ \A b \in Appliers : b # a => applied'[b] = applied[b]
      /\ \A b \in Appliers : applied[b] \subseteq applied'[b]
  BY DEF Apply, TypeOK
<1>5. \A b \in Appliers : b # a => err'[b] = err[b] /\ gap'[b] = gap[b]
  BY DEF Apply, TypeOK
<1>6. Caught => Caught'
  BY <1>5 DEF Apply, Caught
<1>7. inc' = inc /\ ni' = ni /\ count' = count /\ cmd' = cmd /\ index' = index /\ op' = op
      /\ tpc' = tpc /\ accepted' = accepted
  BY DEF Apply, countVars
<1>8. \A b \in Appliers : \A e \in applied[b] : b[1] \in Nodes /\ e[1] \in Index /\ e[2] \in Cmds
  BY DEF TypeOK, Appliers
<1>9. \A i \in Nodes, y \in Index : logs[i][y] # NoCmd => logs'[i][y] # NoCmd
  BY <1>1, <1>3
<1>10. RecordInv'
  <2>1. \A b \in Appliers : applied'[b] # {} => b[2] <= inc'[b[1]]
    BY <1>4, <1>7 DEF RecordInv, Apply
  <2>2. ASSUME NEW b \in Appliers, NEW e \in applied'[b] PROVE logs'[b[1]][e[1]] # NoCmd
    <3>1. CASE e \in applied[b]
      BY <1>8, <1>9, <3>1 DEF RecordInv
    <3>2. CASE b = a /\ e = <<x, v>>
      BY <1>1, <1>3, <3>2
    <3>3. QED
      BY <1>4, <3>1, <3>2
  <2>3. ASSUME NEW i \in Nodes, NEW y \in Index, logs'[i][y] # NoCmd
        PROVE  \E b \in Appliers : b[1] = i /\ <<y, logs'[i][y]>> \in applied'[b]
    <3>1. CASE i = a[1] /\ y = x
      BY <1>3, <1>4, <3>1
    <3>2. CASE i # a[1] \/ y # x
      <4>1. logs'[i][y] = logs[i][y]
        BY <1>3, <3>2
      <4>2. PICK b \in Appliers : b[1] = i /\ <<y, logs[i][y]>> \in applied[b]
        BY <2>3, <4>1 DEF RecordInv
      <4>3. <<y, logs'[i][y]>> \in applied'[b]
        BY <1>4, <4>1, <4>2
      <4>4. QED
        BY <4>2, <4>3
    <3>3. QED
      BY <3>1, <3>2
  <2>4. QED
    BY <2>1, <2>2, <2>3 DEF RecordInv
<1>11. ASSUME ~Caught'
       PROVE  ~Caught /\ ~PrevMissing(a[1], x) /\ \A j \in Nodes : logs[j][x] \in {NoCmd, v}
  <2>1. ~Caught
    BY <1>6, <1>11
  <2>2. err'[a] = NoErr
    BY <1>11 DEF Caught
  <2>3. err'[a] = IF PrevMissing(a[1], x) THEN "order"
                  ELSE IF Mismatch(a[1], x, v) THEN "mismatch" ELSE NoErr
    BY DEF Apply, TypeOK
  <2>4. ~PrevMissing(a[1], x) /\ ~Mismatch(a[1], x, v)
    BY <2>2, <2>3 DEF NoErr
  <2>5. QED
    BY <2>1, <2>4 DEF Mismatch
<1>12. CleanInv'
  <2> SUFFICES ASSUME ~Caught' PROVE CleanInv'
    BY DEF CleanInv
  <2>1. ASSUME NEW b \in Appliers, NEW e \in applied'[b] PROVE logs'[b[1]][e[1]] = e[2]
    <3>1. CASE e \in applied[b]
      <4>1. logs[b[1]][e[1]] = e[2] /\ e[2] # NoCmd
        BY <1>8, <1>11, <3>1 DEF CleanInv
      <4>2. CASE b[1] = a[1] /\ e[1] = x
        BY <1>1, <1>3, <1>11, <4>1, <4>2
      <4>3. CASE b[1] # a[1] \/ e[1] # x
        BY <1>3, <1>8, <3>1, <4>1, <4>3
      <4>4. QED
        BY <4>2, <4>3
    <3>2. CASE b = a /\ e = <<x, v>>
      BY <1>3, <3>2
    <3>3. QED
      BY <1>4, <3>1, <3>2
  <2>2. ASSUME NEW i \in Nodes, NEW j \in Nodes, NEW y \in Index
        PROVE  logs'[i][y] \in {NoCmd, logs'[j][y]} \/ logs'[j][y] = NoCmd
    <3>1. CASE y = x
      BY <1>3, <1>11, <3>1
    <3>2. CASE y # x
      BY <1>3, <1>11, <3>2 DEF CleanInv
    <3>3. QED
      BY <3>1, <3>2
  <2>3. ASSUME NEW i \in Nodes, inc'[i] = 1 PROVE ~gap'[<<i, 1>>]
    <3>1. <<i, 1>> \in Appliers /\ ~gap[<<i, 1>>]
      BY <1>7, <1>11, <2>3 DEF CleanInv, Appliers
    <3>2. CASE a # <<i, 1>>
      BY <1>5, <3>1, <3>2
    <3>3. CASE a = <<i, 1>> /\ x > 1
      <4>1. x - 1 \in Index /\ i = a[1]
        BY <3>3 DEF Index
      <4>2. logs[i][x - 1] # NoCmd /\ logs[i][x - 1] \in Cmds
        BY <1>1, <1>11, <3>3, <4>1 DEF PrevMissing, TypeOK, Entries
      <4>3. PICK b \in Appliers : b[1] = i /\ <<x - 1, logs[i][x - 1]>> \in applied[b]
        BY <4>1, <4>2 DEF RecordInv
      <4>4. b[2] <= 1
        BY <1>7, <2>3, <4>3 DEF RecordInv
      <4>5. b = a
        BY <3>3, <4>3, <4>4 DEF Appliers
      <4>6. ~(x > 1 /\ \A w \in Cmds : <<x - 1, w>> \notin applied[a])
        BY <4>2, <4>3, <4>5
      <4>7. gap'[a] = (gap[a] \/ (x > 1 /\ \A w \in Cmds : <<x - 1, w>> \notin applied[a]))
        BY DEF Apply, TypeOK
      <4>8. QED
        BY <3>1, <3>3, <4>6, <4>7
    <3>4. CASE a = <<i, 1>> /\ ~(x > 1)
      <4>1. gap'[a] = (gap[a] \/ (x > 1 /\ \A w \in Cmds : <<x - 1, w>> \notin applied[a]))
        BY DEF Apply, TypeOK
      <4>2. QED
        BY <3>1, <3>4, <4>1
    <3>5. QED
      BY <3>2, <3>3, <3>4
  <2>4. QED
    BY <2>1, <2>2, <2>3 DEF CleanInv
<1>13. BlameInv'
  <2>1. ASSUME Disagreement PROVE Disagreement'
    <3>1. PICK b \in Appliers, c \in Appliers :
            \E e \in applied[b], f \in applied[c] : e[1] = f[1] /\ e[2] # f[2]
      BY <2>1 DEF Disagreement
    <3>2. QED
      BY <1>4, <3>1 DEF Disagreement
  <2>2. ASSUME NEW b \in Appliers, gap[b] PROVE gap'[b]
    BY <2>2 DEF Apply, TypeOK
  <2>3. CASE Caught
    BY <2>1, <2>2, <2>3 DEF BlameInv
  <2>4. CASE PrevMissing(a[1], x)
    <3>1. x > 1 /\ x - 1 \in Index /\ logs[a[1]][x - 1] = NoCmd
      BY <2>4 DEF PrevMissing, Index
    <3>2. \A w \in Cmds : <<x - 1, w>> \notin applied[a]
      BY <3>1 DEF RecordInv
    <3>3. gap'[a]
      BY <3>1, <3>2 DEF Apply, TypeOK
    <3>4. QED
      BY <3>3 DEF BlameInv
  <2>5. CASE Mismatch(a[1], x, v)
    <3>1. PICK j \in Nodes : logs[j][x] \notin {NoCmd, v}
      BY <2>5 DEF Mismatch
    <3>2. PICK b \in Appliers : b[1] = j /\ <<x, logs[j][x]>> \in applied[b]
      BY <3>1 DEF RecordInv
    <3>3. <<x, logs[j][x]>> \in applied'[b] /\ <<x, v>> \in applied'[a]
      BY <1>4, <3>2
    <3>4. Disagreement'
      BY <3>1, <3>3 DEF Disagreement
    <3>5. QED
      BY <3>4 DEF BlameInv
  <2>6. CASE ~Caught /\ ~PrevMissing(a[1], x) /\ ~Mismatch(a[1], x, v)
    <3>1. err'[a] = NoErr
      BY <2>6 DEF Apply, TypeOK
    <3>2. ~Caught'
      BY <1>5, <2>6, <3>1 DEF Caught, Apply
    <3>3. QED
      BY <3>2 DEF BlameInv
  <2>7. QED
    BY <2>3, <2>4, <2>5, <2>6
<1>14. CountInv'
  <2>1. count > 0 => \E b \in Appliers : <<index, cmd>> \in applied'[b]
    BY <1>4 DEF CountInv
  <2>2. ASSUME ~Caught' PROVE Cardinality(Supporters') >= count
    <3>1. CASE count = 0
      <4>1. Supporters' \in SUBSET Nodes
        BY DEF Supporters
      <4>2. Cardinality(Supporters') \in Nat
        BY <4>1, NodesCount
      <4>3. QED
        BY <3>1, <4>2
    <3>2. CASE count > 0
      <4>1. cmd # NoCmd /\ index \in Index
        <5>1. PICK b \in Appliers : <<index, cmd>> \in applied[b]
          BY <3>2 DEF CountInv
        <5>2. QED
          BY <5>1, <1>8
      <4>2. Supporters \in SUBSET Supporters' /\ Supporters' \in SUBSET Nodes
        BY <1>3, <1>7, <1>11, <2>2, <4>1 DEF Supporters
      <4>3. /\ Cardinality(Supporters) <= Cardinality(Supporters')
            /\ Cardinality(Supporters) \in Nat /\ Cardinality(Supporters') \in Nat
        BY <4>2, NodesCount
      <4>4. Cardinality(Supporters) >= count /\ count \in Nat
        BY <1>11, <2>2 DEF CountInv, TypeOK
      <4>5. QED
        BY <4>3, <4>4
    <3>3. QED
      BY <3>1, <3>2 DEF TypeOK
  <2>3. QED
    BY <1>7, <2>1, <2>2 DEF CountInv
<1>15. CallInv'
  BY <1>7 DEF CallInv
<1>16. QED
  BY <1>2, <1>10, <1>12, <1>13, <1>14, <1>15

(* log.Fatalf ends the process. *)
LEMMA ApplyErrorStep ==
    ASSUME AgreementInv, NEW a \in Appliers, ApplyError(a)
    PROVE  AgreementInv'
<1> USE DEF AgreementInv, JudgeInv, ApplyError, countVars
<1>1. Caught /\ Caught'
  BY DEF Caught
<1>2. TypeOK'
  BY DEF TypeOK
<1>3. Disagreement' <=> Disagreement
  BY DEF Disagreement
<1>4. RecordInv' /\ CleanInv' /\ BlameInv'
  BY <1>1, <1>3 DEF RecordInv, CleanInv, BlameInv
<1>5. CountInv'
  BY <1>1 DEF CountInv
<1>6. CallInv'
  BY DEF CallInv
<1>7. QED
  BY <1>2, <1>4, <1>5, <1>6

(* The incarnations of the servers, all together, bound those of each. *)
LEMMA RestartsBound ==
    ASSUME TypeOK, NEW i \in Nodes,
           Cardinality({a \in Appliers : a[2] <= inc[a[1]]}) < N + MaxRestarts
    PROVE  inc[i] + 1 \in 1 .. MaxRestarts + 1
<1> USE SizesAssumption
<1> DEFINE R == {a \in Appliers : a[2] <= inc[a[1]]}
           S == {i} \X (1 .. inc[i])
           T == (Nodes \ {i}) \X {1}
<1>1. inc \in [Nodes -> 1 .. MaxRestarts + 1] /\ inc[i] \in 1 .. MaxRestarts + 1
  BY DEF TypeOK
<1>2. IsFiniteSet(Nodes) /\ Cardinality(Nodes) = N
  BY FS_Interval DEF Nodes
<1>3. IsFiniteSet(S) /\ Cardinality(S) = inc[i]
  <2>1. IsFiniteSet(1 .. inc[i]) /\ Cardinality(1 .. inc[i]) = inc[i]
    BY <1>1, FS_Interval
  <2>2. IsFiniteSet({i}) /\ Cardinality({i}) = 1
    BY FS_Singleton
  <2>3. IsFiniteSet(S) /\ Cardinality(S) = Cardinality({i}) * Cardinality(1 .. inc[i])
    BY <2>1, <2>2, FS_Product
  <2>4. QED
    BY <1>1, <2>1, <2>2, <2>3
<1>4. IsFiniteSet(T) /\ Cardinality(T) = N - 1
  <2>1. IsFiniteSet(Nodes \ {i}) /\ Cardinality(Nodes \ {i}) = N - 1
    BY <1>2, FS_RemoveElement
  <2>2. IsFiniteSet({1}) /\ Cardinality({1}) = 1
    BY FS_Singleton
  <2>3. IsFiniteSet(T) /\ Cardinality(T) = Cardinality(Nodes \ {i}) * Cardinality({1})
    BY <2>1, <2>2, FS_Product
  <2>4. QED
    BY <2>1, <2>2, <2>3
<1>5. S \cap T = {}
  OBVIOUS
<1>6. IsFiniteSet(S \cup T) /\ Cardinality(S \cup T) = inc[i] + (N - 1)
  <2>1. Cardinality(S \cap T) = 0
    BY <1>5, FS_EmptySet
  <2>2. IsFiniteSet(S \cup T)
        /\ Cardinality(S \cup T) = Cardinality(S) + Cardinality(T) - Cardinality(S \cap T)
    BY <1>3, <1>4, FS_Union
  <2>3. QED
    BY <1>1, <1>3, <1>4, <2>1, <2>2
<1>7. S \cup T \in SUBSET R
  BY <1>1 DEF Appliers
<1>8. IsFiniteSet(R)
  <2>1. IsFiniteSet(1 .. MaxRestarts + 1)
    BY FS_Interval
  <2>2. IsFiniteSet(Appliers)
    BY <1>2, <2>1, FS_Product DEF Appliers
  <2>3. QED
    BY <2>2, FS_Subset
<1>9. Cardinality(S \cup T) <= Cardinality(R) /\ Cardinality(R) \in Nat
  BY <1>7, <1>8, FS_Subset, FS_CardinalityType
<1>10. QED
  BY <1>1, <1>6, <1>9

(* A new incarnation starts with what its server has recorded. *)
LEMMA RestartStep ==
    ASSUME AgreementInv, NEW i \in Nodes, Restart(i)
    PROVE  AgreementInv'
<1> USE SizesAssumption DEF AgreementInv, JudgeInv, Restart, countVars
<1>1. inc[i] + 1 \in 1 .. MaxRestarts + 1
  BY RestartsBound
<1>2. TypeOK'
  BY <1>1 DEF TypeOK
<1>3. Caught' <=> Caught
  BY DEF Caught
<1>4. Disagreement' <=> Disagreement
  BY DEF Disagreement
<1>5. \A j \in Nodes : inc[j] <= inc'[j] /\ inc'[j] \in Nat /\ inc[j] \in 1 .. MaxRestarts + 1
  BY <1>1 DEF TypeOK
<1>6. RecordInv'
  BY <1>5 DEF RecordInv, Appliers
<1>7. CleanInv'
  <2>1. \A j \in Nodes : inc'[j] = 1 => inc[j] = 1
    BY <1>5
  <2>2. QED
    BY <1>3, <2>1 DEF CleanInv
<1>8. BlameInv'
  BY <1>3, <1>4 DEF BlameInv
<1>9. CountInv'
  <2>1. Supporters' = Supporters
    BY DEF Supporters
  <2>2. QED
    BY <1>3, <2>1 DEF CountInv
<1>10. CallInv'
  BY DEF CallInv, Idle
<1>11. QED
  BY <1>2, <1>6, <1>7, <1>8, <1>9, <1>10

(* one() and wait() are called. *)
LEMMA CallStep ==
    ASSUME AgreementInv, NEW n \in 1 .. N, NEW retry \in BOOLEAN,
           \/ \E c \in Submitted : OneCall(c, n, retry)
           \/ \E x \in Index : WaitCall(x, n, retry)
    PROVE  AgreementInv'
<1> USE SizesAssumption, CmdsAssumption DEF AgreementInv
<1>1. ASSUME NEW c \in Submitted, OneCall(c, n, retry) PROVE AgreementInv'
  <2> USE <1>1 DEF OneCall
  <2>1. op' \in Ops
    BY DEF Ops
  <2>2. TypeOK'
    BY <2>1 DEF TypeOK, Idle, judgeVars, countVars
  <2>3. JudgeInv'
    BY JudgeUnchanged
  <2>4. CountInv'
    BY CountUnchanged
  <2>5. CallInv'
    BY DEF CallInv
  <2>6. QED
    BY <2>2, <2>3, <2>4, <2>5
<1>2. ASSUME NEW x \in Index, WaitCall(x, n, retry) PROVE AgreementInv'
  <2> USE <1>2 DEF WaitCall, StartCount
  <2>1. op' \in Ops
    BY DEF Ops
  <2>2. TypeOK'
    BY <2>1 DEF TypeOK, Idle, judgeVars, Entries
  <2>3. JudgeInv'
    BY JudgeUnchanged
  <2>4. CountInv'
    BY FreshCount
  <2>5. CallInv'
    BY DEF CallInv
  <2>6. QED
    BY <2>2, <2>3, <2>4, <2>5
<1>3. QED
  BY <1>1, <1>2

(* nCommitted() looks at one more server. *)
LEMMA CountOneStep ==
    ASSUME AgreementInv, CountOne
    PROVE  AgreementInv'
<1> USE SizesAssumption, CmdsAssumption DEF AgreementInv, CountOne
<1>1. ni \in Nodes /\ ni' = ni + 1 /\ index \in Index /\ index' = index /\ logs' = logs
      /\ ni + 1 \in 0 .. N /\ ni \in Nat /\ count \in Nat /\ op' = op
  BY DEF TypeOK, Nodes, judgeVars
<1>2. JudgeInv' /\ (Caught' <=> Caught)
  BY JudgeUnchanged
<1>3. logs[ni][index] \in Entries
  BY <1>1 DEF TypeOK
<1>4. Supporters' \in SUBSET Nodes
  BY DEF Supporters
<1>5. CASE count' = count /\ cmd' = cmd /\ tpc' \in {tpc, "failed"}
  <2>1. TypeOK'
    BY <1>1, <1>5 DEF TypeOK, judgeVars
  <2>2. Supporters \in SUBSET Supporters'
    BY <1>1, <1>5 DEF Supporters, Nodes
  <2>3. /\ Cardinality(Supporters) <= Cardinality(Supporters')
        /\ Cardinality(Supporters) \in Nat /\ Cardinality(Supporters') \in Nat
    BY <1>4, <2>2, NodesCount
  <2>4. CountInv'
    BY <1>1, <1>2, <1>5, <2>3 DEF CountInv, judgeVars
  <2>5. CallInv'
    BY <1>5 DEF CallInv
  <2>6. QED
    BY <1>2, <2>1, <2>4, <2>5
<1>6. CASE /\ logs[ni][index] # NoCmd /\ (count > 0 => cmd = logs[ni][index])
           /\ count' = count + 1 /\ cmd' = logs[ni][index] /\ tpc' = tpc
  <2>1. TypeOK'
    BY <1>1, <1>3, <1>6 DEF TypeOK, judgeVars, CountInv
  <2>2. ~Caught => Cardinality(Supporters') >= count + 1
    <3>1. CASE count = 0
      <4>1. {ni} \in SUBSET Supporters'
        BY <1>1, <1>6 DEF Supporters
      <4>2. Cardinality({ni}) <= Cardinality(Supporters') /\ Cardinality(Supporters') \in Nat
        BY <1>4, <4>1, NodesCount
      <4>3. Cardinality({ni}) = 1
        BY FS_Singleton
      <4>4. QED
        BY <3>1, <4>2, <4>3
    <3>2. CASE count > 0
      <4>1. ni \notin Supporters /\ Supporters \cup {ni} \in SUBSET Supporters'
        BY <1>1, <1>6, <3>2 DEF Supporters, Nodes
      <4>2. /\ Cardinality(Supporters \cup {ni}) <= Cardinality(Supporters')
            /\ Cardinality(Supporters') \in Nat
        BY <1>4, <4>1, NodesCount
      <4>3. IsFiniteSet(Supporters) /\ Cardinality(Supporters) \in Nat
        BY <4>1, <1>4, NodesCount
      <4>4. Cardinality(Supporters \cup {ni}) = Cardinality(Supporters) + 1
        BY <4>1, <4>3, FS_AddElement
      <4>5. QED
        BY <1>1, <4>2, <4>3, <4>4 DEF CountInv
    <3>3. QED
      BY <1>1, <3>1, <3>2
  <2>3. \E a \in Appliers : <<index, logs[ni][index]>> \in applied[a]
    BY <1>1, <1>6 DEF JudgeInv, RecordInv
  <2>4. CountInv'
    BY <1>1, <1>2, <1>6, <2>2, <2>3 DEF CountInv, judgeVars
  <2>5. CallInv'
    BY <1>6 DEF CallInv
  <2>6. QED
    BY <1>2, <2>1, <2>4, <2>5
<1>7. QED
  BY <1>1, <1>5, <1>6 DEF Counted

(* The steps of one() and wait() between two counts. *)
LEMMA CallGoesOn ==
    ASSUME AgreementInv,
           CountDone \/ NoLeader \/ OneReturns \/ WaitMovedOn \/ WaitReturns
    PROVE  AgreementInv'
<1> USE SizesAssumption DEF AgreementInv
<1>1. UNCHANGED <<judgeVars, countVars, index, op, accepted, calls, t1>>
  BY DEF CountDone, NoLeader, OneReturns, WaitMovedOn, WaitReturns
<1>2. now' \in Nat /\ tpc' \in {"judge", "rejudge", "submit", "failed", "returned", "moved"}
  BY DEF TypeOK, CountDone, NoLeader, NextRound, OneReturns, WaitMovedOn, WaitReturns
<1>3. TypeOK'
  BY <1>1, <1>2 DEF TypeOK, judgeVars, countVars
<1>4. JudgeInv' /\ CountInv'
  BY <1>1, JudgeUnchanged, CountUnchanged
<1>5. CallInv'
  <2>1. CASE CountDone
    BY <2>1 DEF CallInv, CountDone
  <2>2. CASE NoLeader
    BY <2>2 DEF CallInv, NoLeader, NextRound
  <2>3. CASE OneReturns
    BY <2>3 DEF CallInv, OneReturns, Agreed, countVars
  <2>4. CASE WaitMovedOn
    BY <2>4 DEF CallInv, WaitMovedOn
  <2>5. CASE WaitReturns
    <3>1. op.n \in Nat /\ count \in Nat
      BY DEF TypeOK, Ops
    <3>2. QED
      BY <2>5, <3>1 DEF CallInv, WaitReturns, countVars
  <2>6. QED
    BY <2>1, <2>2, <2>3, <2>4, <2>5
<1>6. QED
  BY <1>3, <1>4, <1>5

(* The steps of one() and wait() that count again, or give up. *)
LEMMA CallCountsAgain ==
    ASSUME AgreementInv,
           (\E x \in Index : StartAccepted(x)) \/ OneSleeps \/ WaitBreaks \/ WaitSleeps
    PROVE  AgreementInv'
<1> USE SizesAssumption, CmdsAssumption DEF AgreementInv
<1>1. UNCHANGED <<judgeVars, op, calls>>
  BY DEF StartAccepted, OneSleeps, WaitBreaks, WaitSleeps
<1>2. JudgeInv'
  BY <1>1, JudgeUnchanged
<1>3. now' \in Nat /\ t1' \in Nat /\ index' \in Index /\ accepted' \in Nat
  BY DEF StartAccepted, OneSleeps, WaitBreaks, WaitSleeps, TypeOK
<1>4. tpc' \in {"count", "recount", "submit", "failed"}
  BY DEF StartAccepted, OneSleeps, WaitBreaks, WaitSleeps, StartCount, TimedOut, NextRound
<1>5. \/ ni' = 0 /\ count' = 0 /\ cmd' = NoCmd
      \/ UNCHANGED <<countVars, index>>
  BY DEF StartAccepted, OneSleeps, WaitBreaks, WaitSleeps, StartCount
<1>6. TypeOK'
  BY <1>1, <1>3, <1>4, <1>5 DEF TypeOK, judgeVars, countVars, Entries
<1>7. CountInv'
  BY <1>1, <1>5, FreshCount, CountUnchanged
<1>8. CallInv'
  <2>1. CASE \E x \in Index : StartAccepted(x)
    BY <2>1 DEF CallInv, StartAccepted, StartCount
  <2>2. CASE OneSleeps
    BY <2>2 DEF CallInv, OneSleeps, StartCount, TimedOut, NextRound
  <2>3. CASE WaitBreaks \/ WaitSleeps
    BY <2>3 DEF CallInv, WaitBreaks, WaitSleeps, StartCount
  <2>4. QED
    BY <2>1, <2>2, <2>3
<1>9. QED
  BY <1>2, <1>6, <1>7, <1>8

(* Every step of the appliers and of the test. *)
LEMMA AgreementStepInv == AgreementInv /\ [Next]_vars => AgreementInv'
<1> SUFFICES ASSUME AgreementInv, [Next]_vars PROVE AgreementInv'
  OBVIOUS
<1>1. CASE \E a \in Appliers, x \in Index, v \in Cmds : Apply(a, x, v)
  BY <1>1, ApplyStep
<1>2. CASE \E a \in Appliers : ApplyError(a)
  BY <1>2, ApplyErrorStep
<1>3. CASE \E i \in Nodes : Restart(i)
  BY <1>3, RestartStep
<1>4. CASE \E c \in Submitted, n \in 1 .. N, retry \in BOOLEAN : OneCall(c, n, retry)
  BY <1>4, CallStep
<1>5. CASE \E x \in Index, n \in 1 .. N, terms \in BOOLEAN : WaitCall(x, n, terms)
  BY <1>5, CallStep
<1>6. CASE TestStep
  BY <1>6, CallGoesOn, CallCountsAgain, CountOneStep DEF TestStep
<1>7. CASE UNCHANGED vars
  <2>1. UNCHANGED <<judgeVars, countVars, index, op, accepted, calls, t1, tpc, now>>
    BY <1>7 DEF vars
  <2>2. JudgeInv' /\ CountInv'
    BY <2>1, JudgeUnchanged, CountUnchanged DEF AgreementInv
  <2>3. TypeOK' /\ CallInv'
    BY <2>1 DEF AgreementInv, TypeOK, CallInv, judgeVars, countVars
  <2>4. QED
    BY <2>2, <2>3 DEF AgreementInv
<1>8. QED
  BY <1>1, <1>2, <1>3, <1>4, <1>5, <1>6, <1>7 DEF Next

-----------------------------------------------------------------------------
(* The theorems                                                            *)

(* The two halves of the harness do not disturb each other. *)
LEMMA ChecksInv == ChecksSpec => [](AgreementInv /\ LeadersInv)
<1>1. ChecksInit => AgreementInv /\ LeadersInv
  BY AgreementInitInv, LeadersInitInv DEF ChecksInit
<1>2. AgreementInv /\ LeadersInv /\ [ChecksNext]_allVars => (AgreementInv /\ LeadersInv)'
  <2>1. [ChecksNext]_allVars => [Next]_vars /\ [LeadersNext]_leaderVars
    BY DEF ChecksNext, allVars
  <2>2. QED
    BY <2>1, AgreementStepInv, LeadersStepInv
<1>3. QED
  BY <1>1, <1>2, PTL DEF ChecksSpec

(* The variables of both halves keep their types: among others no server is    *)
(* restarted and no server counted more often than there are.                  *)
THEOREM ChecksTypesCorrect == ChecksSpec => []ChecksTypeOK
<1>1. AgreementInv /\ LeadersInv => ChecksTypeOK
  BY DEF AgreementInv, LeadersInv, ChecksTypeOK
<1>2. QED
  BY <1>1, ChecksInv, PTL

(* The appliers of cfg.start1() notice every two commits that differ, and at a *)
(* server that was never restarted every one that is out of order.             *)
THEOREM WrongRaftCaught == ChecksSpec => []WrongRaftIsCaught
<1>1. AgreementInv => WrongRaftIsCaught
  BY AgreementInvImplies
<1>2. QED
  BY <1>1, ChecksInv, PTL

(* Neither an applier nor nCommitted() blames a Raft that commits the same     *)
(* entries everywhere and in order.                                            *)
THEOREM RightRaftNotBlamed == ChecksSpec => []NoFalseAlarm
<1>1. AgreementInv => NoFalseAlarm
  BY AgreementInvImplies
<1>2. QED
  BY <1>1, ChecksInv, PTL

(* one() and wait() return only on a command that enough servers committed,    *)
(* and one() without retry submits its command at most once.                   *)
THEOREM OneIsTrue == ChecksSpec => []OneKeepsItsWord
<1>1. AgreementInv => OneKeepsItsWord
  BY AgreementInvImplies
<1>2. QED
  BY <1>1, ChecksInv, PTL

(* checkOneLeader(), checkTerms() and checkNoLeader() conclude the truth about *)
(* every server that did not change while they asked, and accuse only a Raft   *)
(* that did have two leaders in one term.                                      *)
THEOREM LeaderVerdictRight == ChecksSpec => []LeaderVerdict
<1>1. LeadersInv => LeaderVerdict
  BY DEF LeadersInv
<1>2. QED
  BY <1>1, ChecksInv, PTL
=============================================================================
