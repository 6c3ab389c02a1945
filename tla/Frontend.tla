------------------------------ MODULE Frontend ------------------------------
(***************************************************************************)
(* lab1/cmd/frontend/frontend.go: fetches one user from the UserService    *)
(* over gRPC, then the top videos of three users from the VideoRecService, *)
(* and gives up at the first error.                                        *)
(***************************************************************************)
EXTENDS Backends

CONSTANTS FrontendUsers, \* users that getUserId(netId) may pick
          TopVideos      \* how GetTopVideos may answer: right, wrong, error

ASSUME TopVideosAssumption == TopVideos \subseteq {"right", "wrong", "error"}

VARIABLES fePc,    \* where main() is
          feCall   \* the call of fetchUser()
feVars == <<fePc, feCall>>

NoCall == "none"

FrontendInit == fePc = "dial" /\ feCall = NoCall

\* serviceConn() of either service, with log.Fatalf on an error.
DialService(to) ==
    /\ fePc' \in {to, "fatal"}
    /\ UNCHANGED <<vars, feCall>>

FrontendDial == fePc = "dial" /\ DialService("fetchUser")

FetchUserDial == fePc = "fetchUser" /\ DialService("getUser")

\* fetchUser(): GetUser with 3 s.
FetchUser(c, user) ==
    /\ fePc = "getUser"
    /\ GrpcCall(c, [service |-> "user", method |-> "get", ids |-> <<user>>])
    /\ fePc' = "fetching" /\ feCall' = c

\* No server listens.
FetchUserRefused ==
    /\ fePc = "getUser" /\ "user" \notin made
    /\ fePc' = "fatal"
    /\ UNCHANGED <<vars, feCall>>

FetchUserReturns ==
    /\ fePc = "fetching" /\ cpc[feCall] = "done"
    /\ fePc' = IF ans[feCall].status # "ok" \/ Len(ans[feCall].ids) # 1 THEN "fatal" ELSE "welcome"
    /\ UNCHANGED <<vars, feCall>>

\* sendSingleTestRequest(), with 10 s: any list will do for the user of netId;
\* the two test cases compare it with the one they expect.
AfterRequest == [welcome |-> "case1", case1 |-> "case2", case2 |-> "passed"]

SendSingleTestRequest ==
    /\ fePc \in DOMAIN AfterRequest
    /\ \E a \in TopVideos \cup {"error"} :
        fePc' = IF a = "error" \/ (a = "wrong" /\ fePc # "welcome") THEN "fatal"
                ELSE AfterRequest[fePc]
    /\ UNCHANGED <<vars, feCall>>

FrontendNext ==
    \/ FrontendDial \/ FetchUserDial \/ FetchUserRefused \/ FetchUserReturns \/ SendSingleTestRequest
    \/ \E c \in Calls, user \in FrontendUsers : FetchUser(c, user)

-----------------------------------------------------------------------------
(* Properties                                                              *)

FrontendOver == fePc \in {"fatal", "passed"}

\* Once started, the frontend ends by itself, also while the UserService is told to hang or to
\* fail: every call it makes has a deadline, and it retries nothing.
FrontendEnds == (fePc = "fetchUser") ~> FrontendOver

=============================================================================
