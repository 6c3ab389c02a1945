-------------------------------- MODULE Lab1 --------------------------------
(***************************************************************************)
(* lab1 as a whole: the two services under clients that ask for anything,  *)
(* under the frontend, and the programs and the library that share no      *)
(* state with them, the load generator and the ranker.  A behaviour runs   *)
(* one of them.                                                            *)
(***************************************************************************)
EXTENDS Frontend, LoadGen, Ranker

VARIABLE program   \* what runs
lab1Vars == <<program, vars, feVars, loadVars, rankVars>>

Lab1Init ==
    /\ program \in {"clients", "frontend", "loadgen", "ranker"}
    /\ Init /\ FrontendInit /\ LoadInit /\ RankInit
    /\ program # "clients" => ~mocks /\ topVideos = MakeTopVideos(CHOOSE p \in TopPicks : TRUE)

Lab1Next ==
    /\ UNCHANGED program
    /\ \/ program \in {"clients", "frontend"} /\ ServerNext /\ UNCHANGED <<feVars, loadVars, rankVars>>
       \/ program = "clients" /\ ClientNext /\ UNCHANGED <<feVars, loadVars, rankVars>>
       \/ program = "frontend" /\ FrontendNext /\ UNCHANGED <<loadVars, rankVars>>
       \/ program = "loadgen" /\ LoadNext /\ UNCHANGED <<vars, feVars, rankVars>>
       \/ program = "ranker" /\ RankNext /\ UNCHANGED <<vars, feVars, loadVars>>

Lab1Spec ==
    /\ Lab1Init /\ [][Lab1Next]_lab1Vars
    /\ Fairness /\ LoadFairness
    /\ WF_lab1Vars(program = "frontend" /\ FrontendNext /\ UNCHANGED <<program, loadVars, rankVars>>)

\* Each program's state keeps its type: ids of records that exist, counters of 64
\* bits, and the call that fetchUser() made.
Lab1TypeOK ==
    /\ TypeOK /\ LoadTypeOK
    /\ fePc \in {"dial", "fetchUser", "getUser", "fetching", "welcome", "case1", "case2",
                 "passed", "fatal"}
    /\ feCall \in Calls \cup {NoCall}
    /\ dotProduct \in [Rankers -> 0 .. Modulus - 1]

\* Failures that are injected at any time hold nobody up who has a deadline: gRPC
\* clients return, the frontend ends, and each request of the load generator is
\* counted once, answered or not.
Lab1CallsEnd == ClientReturns /\ FrontendEnds /\ EveryRequestIsCounted
=============================================================================
