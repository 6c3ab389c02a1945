----------------------------- MODULE Lab1Proofs -----------------------------
(***************************************************************************)
(* For any number of calls, requests, goroutines and coefficients: what    *)
(* happens to a call of a service is explained by one config, the trending *)
(* videos can be fetched, the load generator's report is as wrong as it is *)
(* said to be, and ranking is deterministic.                               *)
(***************************************************************************)
EXTENDS Lab1, FoldTheorems, TLAPS

-----------------------------------------------------------------------------
(* The services                                                            *)

ServiceShape ==
    /\ config \in [Services -> Config]
    /\ \A c \in Calls : req[c].service \in Services
    /\ cpc \in [Calls -> {"idle", "waiting", "done"}]
    /\ hpc \in [Calls -> {"none", "load", "draw", "handle", "hung", "answered", "panicked", "killed"}]
    /\ snap \in [Calls -> Config]
    /\ seen \in [Calls -> SUBSET Config]
    /\ DOMAIN req = Calls /\ DOMAIN ans = Calls

\* What the config that a handler has loaded allowed it to do; until it draws,
\* the config in force is one of those seen.
HandlerInv ==
    \A c \in Calls :
        /\ hpc[c] = "none" <=> cpc[c] = "idle"
        /\ hpc[c] # "answered" => ans[c].status \in {"none", "deadline"}
        /\ hpc[c] \in {"load", "draw"} => config[req[c].service] \in seen[c]
        /\ hpc[c] \notin {"none", "load", "killed"} => snap[c] \in seen[c]
        /\ hpc[c] = "panicked" => snap[c].fail = -1 \/ snap[c].omit = -1
        /\ hpc[c] = "hung" => snap[c].omit \in {1, 2} /\ snap[c].fail # -1
        /\ hpc[c] \in {"handle", "answered"} => snap[c].omit \in {0, 2}
        /\ hpc[c] = "handle" => snap[c].fail \in {0, 2}
        /\ hpc[c] = "answered" =>
            IF ans[c].status = "internal" THEN snap[c].fail \in {1, 2}
            ELSE ans[c].status \notin {"none", "deadline"} => snap[c].fail \in {0, 2}

ServiceInv == ServiceShape /\ HandlerInv

(* What a handler may answer past the injection. *)
LEMMA Answers ==
  /\ \A ids : GetUser(ids).status \in {"invalid", "notFound", "ok"}
  /\ \A ids : GetVideo(ids).status \in {"invalid", "notFound", "ok"}
  /\ GetTrendingVideos.status = "ok"
  BY DEF GetUser, GetVideo, GetTrendingVideos, Lookup, Ok, Error

(* oneIn(0) is false, oneIn(1) true and oneIn(2) either. *)
LEMMA OneInMeans ==
  ASSUME NEW n \in Rates
  PROVE  /\ TRUE \in OneIn(n) <=> n \in {1, 2}
         /\ FALSE \in OneIn(n) <=> n \in {0, 2}
         /\ OneIn(n) = {} <=> n = -1
         /\ \A b \in OneIn(n) : b \in BOOLEAN
<1>1. n = -1 \/ n = 0 \/ n = 1 \/ n = 2
  BY DEF Rates
<1>2. -1 < 0 /\ ~(0 < 0) /\ ~(1 < 0) /\ ~(2 < 0) /\ -1 \notin {0, 1, 2} /\ 0 \notin {1, 2} /\ 1 \notin {0, 2}
  OBVIOUS
<1>3. CASE n = -1
  <2>1. OneIn(n) = {}
    BY <1>2, <1>3, Zenon DEF OneIn
  <2> QED
    BY <1>2, <1>3, <2>1, Zenon
<1>4. CASE n = 0
  <2>1. OneIn(n) = {FALSE}
    BY <1>2, <1>4, Zenon DEF OneIn
  <2> QED
    BY <1>2, <1>4, <2>1, Zenon
<1>5. CASE n = 1
  <2>1. OneIn(n) = {TRUE}
    BY <1>2, <1>5, Zenon DEF OneIn
  <2> QED
    BY <1>2, <1>5, <2>1, Zenon
<1>6. CASE n = 2
  <2>1. OneIn(n) = BOOLEAN
    BY <1>2, <1>6, Zenon DEF OneIn
  <2> QED
    BY <1>2, <1>6, <2>1, Zenon
<1> QED
  BY <1>1, <1>3, <1>4, <1>5, <1>6

(* The configs of both processes are cleared and nothing is asked for. *)
LEMMA ServiceInit == Init => ServiceInv
  BY DEF Init, ServiceInv, ServiceShape, HandlerInv, Cleared, Config, Rates, Services, NoAnswer

(* A config is exchanged. *)
LEMMA ConfigStep ==
  ASSUME ServiceInv, NEW s \in Services, NEW new \in Configs,
         SetInjectionConfigPb(s, new), UNCHANGED callVars
  PROVE  ServiceInv'
<1>0. ServiceShape /\ HandlerInv
  BY DEF ServiceInv
<1>1. ServiceShape'
  BY <1>0, ConfigsAssumption DEF ServiceShape, SetInjectionConfigPb, callVars
<1>2. HandlerInv'
  BY <1>0 DEF ServiceShape, HandlerInv, SetInjectionConfigPb, callVars
<1> QED
  BY <1>1, <1>2 DEF ServiceInv

(* A request is sent. *)
LEMMA SendStep ==
  ASSUME ServiceInv, NEW c \in Calls, NEW r, r.service \in Services, Send(c, r)
  PROVE  ServiceInv'
<1>0. ServiceShape /\ HandlerInv
  BY DEF ServiceInv
<1>1. ServiceShape'
  BY <1>0 DEF ServiceShape, Send
<1>2. HandlerInv'
  BY <1>0 DEF ServiceShape, HandlerInv, Send
<1> QED
  BY <1>1, <1>2 DEF ServiceInv

(* A handler or a client's timer goes on. *)
LEMMA CallStep ==
  ASSUME ServiceInv, NEW c \in Calls, Load(c) \/ Draw(c) \/ Panic(c) \/ Handle(c) \/ Deadline(c)
  PROVE  ServiceInv'
<1>0. ServiceShape /\ HandlerInv
  BY DEF ServiceInv
<1> USE <1>0
<1>1. CASE Load(c)
  <2>1. ServiceShape'
    BY <1>1 DEF ServiceShape, Load
  <2>2. HandlerInv'
    BY <1>1 DEF ServiceShape, HandlerInv, Load
  <2> QED
    BY <2>1, <2>2 DEF ServiceInv
<1>2. CASE Draw(c)
  <2>1. snap[c] \in Config /\ snap[c] \in seen[c]
    BY <1>2 DEF ServiceShape, HandlerInv, Draw
  <2>2. PICK fail \in OneIn(snap[c].fail), omit \in OneIn(snap[c].omit) :
            \/ omit /\ hpc' = [hpc EXCEPT ![c] = "hung"] /\ UNCHANGED <<cpc, ans>>
            \/ ~omit /\ fail /\ Respond(c, Error("internal"))
            \/ ~omit /\ ~fail /\ hpc' = [hpc EXCEPT ![c] = "handle"] /\ UNCHANGED <<cpc, ans>>
    BY <1>2 DEF Draw
  <2>0. snap[c].fail \in Rates /\ snap[c].omit \in Rates
    BY <2>1 DEF Config
  <2>3. /\ fail => snap[c].fail \in {1, 2}
        /\ ~fail => snap[c].fail \in {0, 2}
        /\ snap[c].fail # -1
    BY <2>0, <2>2, OneInMeans, Zenon
  <2>4. (omit => snap[c].omit \in {1, 2}) /\ (~omit => snap[c].omit \in {0, 2})
    BY <2>0, <2>2, OneInMeans, Zenon
  <2>5. hpc[c] = "draw" /\ UNCHANGED <<config, req, snap, seen>>
    BY <1>2 DEF Draw
  <2>6. CASE omit /\ hpc' = [hpc EXCEPT ![c] = "hung"] /\ UNCHANGED <<cpc, ans>>
    <3>1. ServiceShape'
      BY <2>5, <2>6 DEF ServiceShape
    <3>2. HandlerInv'
      BY <2>1, <2>3, <2>4, <2>5, <2>6 DEF ServiceShape, HandlerInv
    <3> QED
      BY <3>1, <3>2 DEF ServiceInv
  <2>7. CASE ~omit /\ fail /\ Respond(c, Error("internal"))
    <3>1. ServiceShape'
      BY <2>5, <2>7 DEF ServiceShape, Respond
    <3>2. HandlerInv'
      BY <2>1, <2>3, <2>4, <2>5, <2>7 DEF ServiceShape, HandlerInv, Respond, Error
    <3> QED
      BY <3>1, <3>2 DEF ServiceInv
  <2>8. CASE ~omit /\ ~fail /\ hpc' = [hpc EXCEPT ![c] = "handle"] /\ UNCHANGED <<cpc, ans>>
    <3>1. ServiceShape'
      BY <2>5, <2>8 DEF ServiceShape
    <3>2. HandlerInv'
      BY <2>1, <2>3, <2>4, <2>5, <2>8 DEF ServiceShape, HandlerInv
    <3> QED
      BY <3>1, <3>2 DEF ServiceInv
  <2> QED
    BY <2>2, <2>6, <2>7, <2>8
<1>3. CASE Handle(c)
  <2>1. PICK a : a.status \in {"invalid", "notFound", "ok"} /\ Respond(c, a)
    BY <1>3, Answers DEF Handle
  <2>2. hpc[c] = "handle" /\ UNCHANGED <<config, req, snap, seen>>
    BY <1>3 DEF Handle
  <2>3. ServiceShape'
    BY <2>1, <2>2 DEF ServiceShape, Respond
  <2>4. HandlerInv'
    BY <2>1, <2>2 DEF ServiceShape, HandlerInv, Respond
  <2> QED
    BY <2>3, <2>4 DEF ServiceInv
<1>4. CASE Deadline(c)
  <2>1. ServiceShape'
    BY <1>4 DEF ServiceShape, Deadline
  <2>2. HandlerInv'
    BY <1>4 DEF ServiceShape, HandlerInv, Deadline, Error
  <2> QED
    BY <2>1, <2>2 DEF ServiceInv
<1>5. CASE Panic(c)
  <2>1. /\ hpc[c] = "draw" /\ ~Drawable(snap[c]) /\ UNCHANGED <<config, cpc, req, ans, snap, seen>>
        /\ hpc' \in [Calls -> {"none", "load", "draw", "handle", "hung", "answered", "panicked", "killed"}]
        /\ hpc'[c] = "panicked"
        /\ \A d \in Calls \ {c} : hpc'[d] = hpc[d] \/ (hpc'[d] = "killed" /\ hpc[d] \notin {"none", "answered"})
    BY <1>5 DEF Panic, ServiceShape
  <2>2. snap[c].fail = -1 \/ snap[c].omit = -1
    <3>1. snap[c].fail \in Rates /\ snap[c].omit \in Rates
      BY DEF ServiceShape, Config
    <3> QED
      BY <2>1, <3>1, OneInMeans, Zenon DEF Drawable
  <2>3. ServiceShape'
    BY <2>1 DEF ServiceShape
  <2>4. HandlerInv'
    BY <2>1, <2>2 DEF ServiceShape, HandlerInv
  <2> QED
    BY <2>3, <2>4 DEF ServiceInv
<1> QED
  BY <1>1, <1>2, <1>3, <1>4, <1>5

(* One config explains what a call went through: the one its handler loaded. *)
LEMMA ServiceExplained == ServiceInv => OneConfigExplains
<1> SUFFICES ASSUME ServiceInv, NEW c \in Calls,
                    hpc[c] \in {"hung", "handle", "panicked"} \/ ans[c].status \notin {"none", "deadline"}
             PROVE  \E cfg \in seen[c] : Explains(cfg, c)
  BY DEF OneConfigExplains
<1>1. snap[c] \in seen[c]
  BY DEF ServiceInv, HandlerInv, ServiceShape
<1>2. Explains(snap[c], c)
  <2>1. snap[c].fail \in Rates /\ snap[c].omit \in Rates
    BY DEF ServiceInv, ServiceShape, Config
  <2>2. /\ TRUE \in OneIn(snap[c].fail) <=> snap[c].fail \in {1, 2}
        /\ FALSE \in OneIn(snap[c].fail) <=> snap[c].fail \in {0, 2}
        /\ TRUE \in OneIn(snap[c].omit) <=> snap[c].omit \in {1, 2}
        /\ FALSE \in OneIn(snap[c].omit) <=> snap[c].omit \in {0, 2}
        /\ Drawable(snap[c]) <=> snap[c].fail # -1 /\ snap[c].omit # -1
    BY <2>1, OneInMeans, Zenon DEF Drawable
  <2>3. /\ hpc[c] = "panicked" => ~Drawable(snap[c])
        /\ hpc[c] = "hung" => TRUE \in OneIn(snap[c].omit) /\ Drawable(snap[c])
        /\ hpc[c] = "handle" => FALSE \in OneIn(snap[c].omit) /\ FALSE \in OneIn(snap[c].fail)
        /\ hpc[c] = "answered" =>
              /\ FALSE \in OneIn(snap[c].omit)
              /\ IF ans[c].status = "internal" THEN TRUE \in OneIn(snap[c].fail)
                 ELSE ans[c].status \notin {"none", "deadline"} => FALSE \in OneIn(snap[c].fail)
    <3>1. /\ hpc[c] = "panicked" => snap[c].fail = -1 \/ snap[c].omit = -1
          /\ hpc[c] = "hung" => snap[c].omit \in {1, 2} /\ snap[c].fail # -1 /\ snap[c].omit # -1
          /\ hpc[c] \in {"handle", "answered"} => snap[c].omit \in {0, 2}
          /\ hpc[c] = "handle" => snap[c].fail \in {0, 2}
          /\ hpc[c] = "answered" =>
                IF ans[c].status = "internal" THEN snap[c].fail \in {1, 2}
                ELSE ans[c].status \notin {"none", "deadline"} => snap[c].fail \in {0, 2}
      BY DEF ServiceInv, HandlerInv
    <3> QED
      BY <2>2, <3>1, Zenon
  <2>4. /\ hpc[c] \notin {"hung", "handle", "panicked"} => hpc[c] = "answered"
        /\ hpc[c] # "answered" => ans[c].status # "internal"
    BY DEF ServiceInv, HandlerInv
  <2> QED
    BY <2>3, <2>4, Zenon DEF Explains
<1> QED
  BY <1>1, <1>2

-----------------------------------------------------------------------------
(* The trending videos                                                     *)

\* One iteration of deduplicateIds().
Add(acc, id) == IF Contains(acc, id) THEN acc ELSE Append(acc, id)

\* The function by which the community modules fold it over the indices.
Dedupes(ids) ==
    LET iter[s \in SUBSET (DOMAIN ids)] ==
            IF s = {} THEN <<>>
            ELSE LET x == Max(s)
                 IN  IF Contains(iter[s \ {x}], ids[x]) THEN iter[s \ {x}]
                     ELSE Append(iter[s \ {x}], ids[x])
    IN  iter

(* deduplicateIds() is that fold. *)
LEMMA DedupeIsFold == \A ids : deduplicateIds(ids) = Dedupes(ids)[DOMAIN ids]
BY DEF deduplicateIds, FoldLeft, MapThenFoldSet, Dedupes

(* The fold takes the ids from the first to the last. *)
LEMMA DedupeSteps ==
  ASSUME NEW S, NEW ids \in Seq(S)
  PROVE  /\ Dedupes(ids)[1 .. 0] = <<>>
         /\ \A n \in 1 .. Len(ids) :
                Dedupes(ids)[1 .. n] = Add(Dedupes(ids)[1 .. n - 1], ids[n])
<1> DEFINE N == Len(ids)
           D == 1 .. N
           c == [s \in SUBSET D |-> Max(s)]
           step == [z \in D \X Seq(S) |-> Add(z[2], ids[z[1]])]
           Rec(g) == g = [s \in SUBSET (DOMAIN ids) |->
                             IF s = {} THEN <<>>
                             ELSE IF Contains(g[s \ {Max(s)}], ids[Max(s)]) THEN g[s \ {Max(s)}]
                                  ELSE Append(g[s \ {Max(s)}], ids[Max(s)])]
<1>1. N \in Nat /\ DOMAIN ids = D /\ \A i \in D : ids[i] \in S
  OBVIOUS
<1>2. IsFiniteSet(D)
  BY <1>1, FS_Interval
<1>3. \A s \in SUBSET D : s # {} => c[s] = Max(s) /\ c[s] \in s
  BY <1>1, MaxExists
<1>4. \A i \in D, acc \in Seq(S) : step[<<i, acc>>] = Add(acc, ids[i]) /\ step[<<i, acc>>] \in Seq(S)
  <2> SUFFICES ASSUME NEW i \in D, NEW acc \in Seq(S)
               PROVE  step[<<i, acc>>] = Add(acc, ids[i]) /\ step[<<i, acc>>] \in Seq(S)
    OBVIOUS
  <2>1. <<i, acc>> \in D \X Seq(S) /\ <<i, acc>>[1] = i /\ <<i, acc>>[2] = acc
    OBVIOUS
  <2>2. step[<<i, acc>>] = Add(acc, ids[i])
    <3> HIDE DEF D
    <3> QED
      BY <2>1
  <2>3. Add(acc, ids[i]) \in Seq(S)
    BY <1>1 DEF Add
  <2> QED
    BY <2>2, <2>3
<1>5. \E g : Rec(g)
  <2>1. PICK g \in [SUBSET D -> Seq(S)] : FoldOf(g, D, c, step, <<>>)
    <3> HIDE DEF D, c, step
    <3>1. <<>> \in Seq(S)
      OBVIOUS
    <3> QED
      BY <1>2, <1>3, <1>4, <3>1, FoldExists
  <2>2. ASSUME NEW s \in SUBSET D, s # {}
        PROVE  g[s] = Add(g[s \ {Max(s)}], ids[Max(s)])
    <3>1. c[s] = Max(s) /\ Max(s) \in D /\ g[s \ {Max(s)}] \in Seq(S)
      BY <1>3, <2>2
    <3> HIDE DEF D, c, step
    <3> QED
      BY <1>4, <2>1, <2>2, <3>1 DEF FoldOf
  <2>3. g[{}] = <<>>
    BY <2>1 DEF FoldOf
  <2>4. g = [s \in SUBSET D |-> g[s]]
    OBVIOUS
  <2> HIDE DEF D
  <2>5. Rec(g)
    BY <1>1, <2>2, <2>3, <2>4 DEF Add
  <2> HIDE DEF Rec
  <2> QED
    BY <2>5
<1>6. Dedupes(ids) = CHOOSE g : Rec(g)
  BY DEF Dedupes
<1>7. Rec(Dedupes(ids))
  <2> HIDE DEF Rec
  <2> QED
    BY <1>5, <1>6
<1>8. /\ Dedupes(ids)[{}] = <<>>
      /\ \A s \in SUBSET D : s # {} => Dedupes(ids)[s] = Add(Dedupes(ids)[s \ {Max(s)}], ids[Max(s)])
  <2> HIDE DEF D
  <2> QED
    BY <1>1, <1>7 DEF Add
<1>9. 1 .. 0 = {}
  OBVIOUS
<1>10. ASSUME NEW n \in 1 .. N
       PROVE  Dedupes(ids)[1 .. n] = Add(Dedupes(ids)[1 .. n - 1], ids[n])
  <2>1. 1 .. n \in SUBSET D /\ n \in 1 .. n /\ (1 .. n) \ {n} = 1 .. n - 1
    OBVIOUS
  <2>2. Max(1 .. n) \in 1 .. n /\ Max(1 .. n) >= n
    BY <1>1, <2>1, MaxExists
  <2>3. Max(1 .. n) = n
    BY <2>2
  <2> QED
    BY <1>8, <2>1, <2>3
<1> QED
  BY <1>8, <1>9, <1>10

\* Each id once.
Distinct(ids) == \A i, j \in 1 .. Len(ids) : ids[i] = ids[j] => i = j

(* A deduplicated list is a list of the same ids, each once. *)
LEMMA DedupeGood ==
  ASSUME NEW S, NEW ids \in Seq(S)
  PROVE  /\ deduplicateIds(ids) \in Seq(S)
         /\ Len(deduplicateIds(ids)) <= Len(ids)
         /\ Distinct(deduplicateIds(ids))
         /\ ids # <<>> => deduplicateIds(ids) # <<>>
<1> DEFINE d(n) == Dedupes(ids)[1 .. n]
           Good(n) == /\ d(n) \in Seq(S) /\ Len(d(n)) <= n /\ Distinct(d(n))
                      /\ n >= 1 => d(n) # <<>>
           P == {n \in Nat : n <= Len(ids) => Good(n)}
<1> HIDE DEF d
<1>1. d(0) = <<>> /\ \A n \in 1 .. Len(ids) : d(n) = Add(d(n - 1), ids[n])
  BY DedupeSteps DEF d
<1>2. 0 \in P
  <2>1. <<>> \in Seq(S) /\ Len(<<>>) <= 0 /\ Distinct(<<>>) /\ ~(0 >= 1)
    BY DEF Distinct
  <2>2. Good(0)
    BY <1>1, <2>1, Zenon
  <2> QED
    BY <2>2
<1>3. ASSUME NEW n \in Nat, n \in P PROVE n + 1 \in P
  <2> SUFFICES ASSUME n + 1 <= Len(ids) PROVE Good(n + 1)
    OBVIOUS
  <2> DEFINE x == ids[n + 1]
  <2>1. n + 1 \in 1 .. Len(ids) /\ x \in S /\ Good(n) /\ (n + 1) - 1 = n
    BY <1>3
  <2>2. d(n + 1) = Add(d(n), x)
    BY <1>1, <2>1
  <2>3. CASE Contains(d(n), x)
    <3>1. d(n + 1) = d(n) /\ d(n) # <<>>
      BY <2>1, <2>2, <2>3 DEF Add, Contains
    <3> QED
      BY <2>1, <3>1
  <2>4. CASE ~Contains(d(n), x)
    <3>1. d(n + 1) = Append(d(n), x)
      BY <2>2, <2>4 DEF Add
    <3>2. Distinct(Append(d(n), x))
      BY <2>1, <2>4 DEF Distinct, Contains
    <3>3. Append(d(n), x) \in Seq(S) /\ Len(Append(d(n), x)) = Len(d(n)) + 1
      BY <2>1
    <3>4. Append(d(n), x) # <<>> /\ Len(Append(d(n), x)) <= n + 1
      BY <2>1, <3>3
    <3> QED
      BY <3>1, <3>2, <3>3, <3>4
  <2> QED
    BY <2>3, <2>4
<1>4. Good(Len(ids))
  <2>1. Nat \subseteq P
    <3> HIDE DEF P
    <3> QED
      BY <1>2, <1>3, CountUp
  <2>2. Len(ids) \in Nat
    OBVIOUS
  <2> HIDE DEF Good
  <2> QED
    BY <2>1, <2>2
<1>5. deduplicateIds(ids) = d(Len(ids))
  <2>1. DOMAIN ids = 1 .. Len(ids)
    OBVIOUS
  <2> QED
    BY <2>1, DedupeIsFold DEF d
<1> QED
  BY <1>4, <1>5

(* Of a list of different ids nothing is dropped. *)
LEMMA DedupeKeeps ==
  ASSUME NEW S, NEW ids \in Seq(S), Distinct(ids)
  PROVE  Len(deduplicateIds(ids)) = Len(ids)
<1> DEFINE d(n) == Dedupes(ids)[1 .. n]
           Good(n) == /\ d(n) \in Seq(S) /\ Len(d(n)) = n
                      /\ \A i \in 1 .. n : d(n)[i] = ids[i]
           P == {n \in Nat : n <= Len(ids) => Good(n)}
<1> HIDE DEF d
<1>1. d(0) = <<>> /\ \A n \in 1 .. Len(ids) : d(n) = Add(d(n - 1), ids[n])
  BY DedupeSteps DEF d
<1>2. 0 \in P
  <2>1. <<>> \in Seq(S) /\ Len(<<>>) = 0 /\ 1 .. 0 = {}
    OBVIOUS
  <2>2. Good(0)
    BY <1>1, <2>1, Zenon
  <2> QED
    BY <2>2
<1>3. ASSUME NEW n \in Nat, n \in P PROVE n + 1 \in P
  <2> SUFFICES ASSUME n + 1 <= Len(ids) PROVE Good(n + 1)
    OBVIOUS
  <2> DEFINE x == ids[n + 1]
  <2>1. n + 1 \in 1 .. Len(ids) /\ x \in S /\ Good(n) /\ (n + 1) - 1 = n
    BY <1>3
  <2>2. d(n + 1) = Add(d(n), x)
    BY <1>1, <2>1
  <2>3. ~Contains(d(n), x)
    BY <2>1 DEF Contains, Distinct
  <2>4. d(n + 1) = Append(d(n), x)
    BY <2>2, <2>3 DEF Add
  <2> QED
    BY <2>1, <2>4
<1>4. Good(Len(ids))
  <2>1. Nat \subseteq P
    <3> HIDE DEF P
    <3> QED
      BY <1>2, <1>3, CountUp
  <2>2. Len(ids) \in Nat
    OBVIOUS
  <2> HIDE DEF Good
  <2> QED
    BY <2>1, <2>2
<1>5. deduplicateIds(ids) = d(Len(ids))
  <2>1. DOMAIN ids = 1 .. Len(ids)
    OBVIOUS
  <2> QED
    BY <2>1, DedupeIsFold DEF d
<1> QED
  BY <1>4, <1>5

\* The list is as it was made, and so is every answer that holds it.
TrendingInv ==
    /\ topVideos \in {MakeTopVideos(p) : p \in TopPicks}
    /\ \A c \in Calls : req[c].method = "trending" /\ ans[c].status = "ok" => ans[c].ids = topVideos

(* A request that is sent has no answer yet. *)
LEMMA TrendingSend ==
  ASSUME ServiceInv, TrendingInv, NEW c \in Calls, NEW r, Send(c, r)
  PROVE  TrendingInv'
<1>1. ans[c].status \in {"none", "deadline"} /\ DOMAIN req = Calls
  BY DEF Send, ServiceInv, ServiceShape, HandlerInv
<1> QED
  BY <1>1 DEF Send, TrendingInv

(* A handler answers with the list, if at all. *)
LEMMA TrendingCall ==
  ASSUME ServiceInv, TrendingInv, NEW c \in Calls, Load(c) \/ Draw(c) \/ Panic(c) \/ Handle(c) \/ Deadline(c)
  PROVE  TrendingInv'
<1>1. DOMAIN ans = Calls
  BY DEF ServiceInv, ServiceShape
<1>2. UNCHANGED <<req, topVideos>>
  BY DEF Load, Draw, Panic, Handle, Deadline
<1>3. \/ UNCHANGED ans
      \/ \E a : /\ ans' = [ans EXCEPT ![c] = a]
                /\ req[c].method = "trending" /\ a.status = "ok" => a.ids = topVideos
  <2>1. CASE Load(c)
    BY <2>1 DEF Load
  <2>2. CASE Draw(c)
    <3>1. Error("internal").status = "internal"
      BY DEF Error
    <3>2. UNCHANGED ans \/ ans' = [ans EXCEPT ![c] = Error("internal")]
      BY <2>2 DEF Draw, Respond
    <3> QED
      BY <3>1, <3>2
  <2>3. CASE Handle(c)
    <3> DEFINE a == IF req[c].method = "trending" THEN GetTrendingVideos
                    ELSE IF req[c].service = "user" THEN GetUser(req[c].ids)
                    ELSE GetVideo(req[c].ids)
    <3>1. UNCHANGED ans \/ ans' = [ans EXCEPT ![c] = a]
      BY <2>3 DEF Handle, Respond
    <3>2. req[c].method = "trending" => a.ids = topVideos
      BY DEF GetTrendingVideos, Ok
    <3> HIDE DEF a
    <3> QED
      BY <3>1, <3>2
  <2>4. CASE Deadline(c)
    <3>1. Error("deadline").status = "deadline"
      BY DEF Error
    <3>2. ans' = [ans EXCEPT ![c] = Error("deadline")]
      BY <2>4 DEF Deadline
    <3> QED
      BY <3>1, <3>2
  <2>5. CASE Panic(c)
    BY <2>5 DEF Panic
  <2> QED
    BY <2>1, <2>2, <2>3, <2>4, <2>5
<1> QED
  BY <1>1, <1>2, <1>3 DEF TrendingInv

(* A batch of a deduplicated list is accepted. *)
LEMMA TrendingFetched == TrendingInv => TrendingCanBeFetched
<1> SUFFICES ASSUME TrendingInv, NEW i \in 1 .. Len(topVideos), NEW j \in 1 .. Len(topVideos),
                    j - i + 1 \in 1 .. MaxBatchSize
             PROVE  GetVideo(SubSeq(topVideos, i, j)).status = "ok"
  BY DEF TrendingInv, TrendingCanBeFetched
<1>1. PICK p \in TopPicks : topVideos = deduplicateIds(p)
  BY DEF TrendingInv, MakeTopVideos
<1>2. p \in Seq(Known) /\ MaxBatchSize \in Int
  BY BatchAssumption
<1>3. topVideos \in Seq(Known) /\ Distinct(topVideos)
  BY <1>1, <1>2, DedupeGood
<1> DEFINE batch == SubSeq(topVideos, i, j)
<1>4. /\ batch \in Seq(Known) /\ Len(batch) = j - i + 1 /\ Len(batch) \in 1 .. MaxBatchSize
      /\ \A k \in 1 .. Len(batch) : batch[k] = topVideos[i + k - 1] /\ i + k - 1 \in 1 .. Len(topVideos)
  BY <1>3
<1> HIDE DEF batch
<1>5. Distinct(batch)
  <2> SUFFICES ASSUME NEW k \in 1 .. Len(batch), NEW l \in 1 .. Len(batch), batch[k] = batch[l]
               PROVE  k = l
    BY DEF Distinct
  <2>0. /\ i + k - 1 \in 1 .. Len(topVideos) /\ i + l - 1 \in 1 .. Len(topVideos)
        /\ topVideos[i + k - 1] = topVideos[i + l - 1]
    <3>1. batch[k] = topVideos[i + k - 1] /\ batch[l] = topVideos[i + l - 1]
      BY <1>4
    <3> QED
      BY <1>4, <3>1
  <2>1. i + k - 1 = i + l - 1
    BY <1>3, <2>0, Zenon DEF Distinct
  <2> QED
    BY <1>4, <2>1
<1>6. Len(deduplicateIds(batch)) = Len(batch)
  BY <1>4, <1>5, DedupeKeeps
<1>7. ToSet(batch) \subseteq Known
  BY <1>4 DEF ToSet
<1>8. batch # <<>> /\ ~(Len(batch) > MaxBatchSize)
  BY <1>2, <1>4
<1> QED
  BY <1>6, <1>7, <1>8 DEF GetVideo, Lookup, Ok, batch

-----------------------------------------------------------------------------
(* The load generator                                                      *)

\* Requests that each counter has seen.
WereSent == {q \in Requested : reqPc[q] \notin {"none", "new"}}
PastStale == {q \in Requested : reqPc[q] \notin {"none", "new", "waiting", "stale"}}
Responded == {q \in Requested : reqPc[q] \in {"latency", "success", "end"}}
Succeeded == {q \in Requested : wasSuccess[q] /\ reqPc[q] = "end"}
Pending == {q \in Requested : wasSuccess[q] /\ reqPc[q] \in {"latency", "success"}}

FailedIn(n) == {i \in 1 .. n : ~wasSuccess[order[i]]}

TotalsType == [sent : Int, responses : Int, successes : Int, latency : Int, stale : Int]
ReportType == [responses : Int, errors : Int, latency : Int, stale : Int, sent : Int]

LoadShape ==
    /\ reqPc \in [Requested -> {"none", "new", "waiting", "stale", "response",
                                "latency", "success", "end"}]
    /\ wasSuccess \in [Requested -> BOOLEAN]
    /\ totals \in TotalsType
    /\ order \in Seq(Requested)
    /\ reportPc \in {"responses", "successes", "latency", "stale", "sent", "printed"}
    /\ report \in ReportType
    /\ marks \in [counted : Nat, pending : Nat]

\* The counters of requests do not wrap around.  The requests counted as responses
\* have failed, have been added as successes, or wait to be.
CountersInv ==
    /\ \A i \in 1 .. Len(order) : order[i] \in Responded
    /\ totals.sent = Cardinality(WereSent)
    /\ 0 <= totals.stale /\ totals.stale <= Cardinality(PastStale)
    /\ totals.responses = Cardinality(Responded) /\ totals.responses = Len(order)
    /\ totals.successes = Cardinality(Succeeded)
    /\ Failed(Len(order)) + Cardinality(Pending) + Cardinality(Succeeded) = Len(order)
    /\ \A q \in Requested : reqPc[q] = "success" => wasSuccess[q]

\* The errors printed, as ReportExplained has them.
ErrorsRight ==
    report.errors = (Failed(marks.counted) - (marks.counted - report.responses)
                        + marks.pending) % Word

\* What reportStats() has loaded so far.
ReportInv ==
    /\ marks.counted <= Len(order)
    /\ reportPc # "responses" => report.responses <= totals.responses
    /\ reportPc \notin {"responses", "successes"} => ErrorsRight
    /\ reportPc \in {"sent", "printed"} => report.stale <= totals.stale
    /\ reportPc = "printed" => report.responses <= report.sent /\ report.stale <= report.sent

LoadInv == LoadShape /\ CountersInv /\ ReportInv

(* The fields of the records. *)
LEMMA LoadFields ==
  LoadShape =>
    /\ totals.sent \in Int /\ totals.responses \in Int /\ totals.successes \in Int
    /\ totals.latency \in Int /\ totals.stale \in Int
    /\ report.responses \in Int /\ report.errors \in Int /\ report.latency \in Int
    /\ report.stale \in Int /\ report.sent \in Int
    /\ marks.counted \in Nat /\ marks.pending \in Nat /\ Len(order) \in Nat
  BY DEF LoadShape, TotalsType, ReportType

(* Word is not zero, so that a remainder is a number. *)
LEMMA WordMod == \A x \in Int : x % Word \in Int
  BY LoadAssumption

(* What one request more or less does to a set of requests. *)
LEMMA RequestsCount ==
  ASSUME NEW S \in SUBSET Requested
  PROVE  /\ Cardinality(S) \in 0 .. MaxRequests
         /\ \A q \in Requested \ S : Cardinality(S \cup {q}) = Cardinality(S) + 1
         /\ \A q \in S : Cardinality(S \ {q}) = Cardinality(S) - 1
         /\ \A T \in SUBSET S : Cardinality(T) <= Cardinality(S)
<1>1. IsFiniteSet(Requested) /\ Cardinality(Requested) = MaxRequests
  BY FS_Interval, LoadAssumption DEF Requested
<1>2. IsFiniteSet(S) /\ Cardinality(S) \in 0 .. MaxRequests
  BY <1>1, FS_Subset, FS_CardinalityType, LoadAssumption
<1>3. \A q \in Requested \ S : Cardinality(S \cup {q}) = Cardinality(S) + 1
  BY <1>2, FS_AddElement
<1>4. \A q \in S : Cardinality(S \ {q}) = Cardinality(S) - 1
  BY <1>2, FS_RemoveElement
<1>5. \A T \in SUBSET S : Cardinality(T) <= Cardinality(S)
  BY <1>2, FS_Subset
<1> QED
  BY <1>2, <1>3, <1>4, <1>5

(* The sets of requests and their sizes. *)
LEMMA RequestSets ==
  /\ WereSent \in SUBSET Requested /\ PastStale \in SUBSET WereSent /\ Responded \in SUBSET PastStale
  /\ PastStale \in SUBSET Requested /\ Responded \in SUBSET Requested
  /\ Succeeded \in SUBSET Requested /\ Pending \in SUBSET Requested
  BY DEF WereSent, PastStale, Responded, Succeeded, Pending

(* The responses that failed are counted in any part of their order. *)
LEMMA FailedCount ==
  ASSUME LoadShape, NEW n \in 0 .. Len(order)
  PROVE  IsFiniteSet(FailedIn(n)) /\ Failed(n) = Cardinality(FailedIn(n)) /\ Failed(n) \in Nat
<1>1. IsFiniteSet(1 .. n) /\ FailedIn(n) \subseteq 1 .. n
  BY FS_Interval DEF FailedIn, LoadShape
<1>2. IsFiniteSet(FailedIn(n)) /\ Cardinality(FailedIn(n)) \in Nat
  BY <1>1, FS_Subset, FS_CardinalityType
<1> QED
  BY <1>2 DEF Failed, FailedIn

(* Nothing was sent and nothing is counted. *)
LEMMA LoadStart == LoadInit => LoadInv
<1> SUFFICES ASSUME LoadInit PROVE LoadInv
  OBVIOUS
<1> USE DEF LoadInit
<1>1. LoadShape
  BY DEF LoadShape, NoReport, NoMarks, TotalsType, ReportType
<1>2. WereSent = {} /\ PastStale = {} /\ Responded = {} /\ Succeeded = {} /\ Pending = {}
  BY DEF WereSent, PastStale, Responded, Succeeded, Pending
<1>3. Cardinality({}) = 0
  BY FS_EmptySet
<1>4. Failed(0) = 0
  <2>1. {i \in 1 .. 0 : ~wasSuccess[order[i]]} = {}
    OBVIOUS
  <2> QED
    BY <2>1, <1>3 DEF Failed
<1>5. CountersInv
  BY <1>2, <1>3, <1>4 DEF CountersInv
<1>6. ReportInv
  BY DEF ReportInv, NoReport, NoMarks
<1> QED
  BY <1>1, <1>5, <1>6 DEF LoadInv

(* What was counted as failed stays so: the outcome of a request is known        *)
(* before it is counted.                                                         *)
LEMMA FailedKept ==
  ASSUME NEW n \in Nat,
         \A i \in 1 .. n : order'[i] = order[i] /\ wasSuccess'[order[i]] = wasSuccess[order[i]]
  PROVE  Failed(n)' = Failed(n)
<1>1. {i \in 1 .. n : ~wasSuccess'[order'[i]]} = {i \in 1 .. n : ~wasSuccess[order[i]]}
  OBVIOUS
<1> QED
  BY <1>1 DEF Failed

(* Requests that go on while reportStats() loads only add to the counters. *)
LEMMA ReportKept ==
  ASSUME LoadInv, UNCHANGED <<reportPc, report, marks>>, LoadShape',
         Len(order) <= Len(order'),
         \A i \in 1 .. Len(order) : order'[i] = order[i] /\ wasSuccess'[order[i]] = wasSuccess[order[i]],
         totals.responses <= totals'.responses, totals.stale <= totals'.stale
  PROVE  ReportInv'
<1>1. LoadShape /\ ReportInv
  BY DEF LoadInv
<1>2. /\ marks.counted \in Nat /\ Len(order) \in Nat /\ totals.responses \in Int /\ totals.stale \in Int
      /\ report.responses \in Int /\ report.stale \in Int
  BY <1>1, LoadFields
<1>3. Len(order') \in Nat /\ totals'.responses \in Int /\ totals'.stale \in Int
  BY LoadFields DEF LoadShape, TotalsType
<1>4. marks.counted <= Len(order)
  BY <1>1 DEF ReportInv
<1>5. ErrorsRight => ErrorsRight'
  <2> DEFINE n == marks.counted
  <2>1. \A i \in 1 .. n : order'[i] = order[i] /\ wasSuccess'[order[i]] = wasSuccess[order[i]]
    BY <1>2, <1>4
  <2>2. {i \in 1 .. n : ~wasSuccess'[order'[i]]} = {i \in 1 .. n : ~wasSuccess[order[i]]}
    BY <2>1
  <2>3. Failed(marks.counted)' = Failed(marks.counted)
    BY <2>2 DEF Failed
  <2> QED
    BY <2>3 DEF ErrorsRight
<1> QED
  BY <1>1, <1>2, <1>3, <1>4, <1>5 DEF ReportInv

(* The steps of main() count nothing. *)
LEMMA MainStep ==
  ASSUME LoadInv, NEW n \in Conns, Dial(n) \/ GoSendRequest(n)
  PROVE  LoadInv'
<1>0. LoadShape /\ CountersInv /\ ReportInv
  BY DEF LoadInv
<1>1. UNCHANGED <<wasSuccess, totals, order, reportPc, report, marks>>
  BY DEF Dial, GoSendRequest
<1>2. reqPc' = reqPc \/ \E q \in Requested : reqPc[q] = "none" /\ reqPc' = [reqPc EXCEPT ![q] = "new"]
  BY DEF Dial, GoSendRequest
<1>3. LoadShape'
  BY <1>0, <1>1, <1>2 DEF LoadShape
<1>4. /\ WereSent' = WereSent /\ PastStale' = PastStale /\ Responded' = Responded
      /\ Succeeded' = Succeeded /\ Pending' = Pending
  BY <1>0, <1>1, <1>2 DEF WereSent, PastStale, Responded, Succeeded, Pending, LoadShape
<1>5. Failed(Len(order))' = Failed(Len(order)) /\ ErrorsRight' = ErrorsRight
  BY <1>1 DEF Failed, ErrorsRight
<1>6. CountersInv'
  <2>1. \A q \in Requested : reqPc'[q] = "success" => reqPc[q] = "success"
    BY <1>0, <1>2 DEF LoadShape
  <2> QED
    BY <1>0, <1>1, <1>4, <1>5, <2>1 DEF CountersInv
<1>7. ReportInv'
  BY <1>0, <1>1, <1>5 DEF ReportInv
<1> QED
  BY <1>3, <1>6, <1>7 DEF LoadInv

(* A step of sendRequest() keeps the counters in line with the goroutines. *)
LEMMA RequestKeeps ==
  ASSUME LoadInv, NEW q \in Requested,
         RequestStep(q) \/ \E a \in RecAnswers : GetTopVideosReturns(q, a)
  PROVE  LoadInv'
<1>0. LoadShape /\ CountersInv /\ ReportInv
  BY DEF LoadInv
<1> USE <1>0, LoadAssumption
<1>n. /\ Cardinality(WereSent) \in Nat /\ Cardinality(PastStale) \in Nat
      /\ Cardinality(Responded) \in Nat /\ Cardinality(Succeeded) \in Nat
      /\ Cardinality(Pending) \in Nat /\ Len(order) \in Nat /\ Failed(Len(order)) \in Nat
  BY RequestsCount, RequestSets, FailedCount DEF LoadShape
<1>n2. /\ Cardinality(WereSent') \in 0 .. MaxRequests /\ Cardinality(PastStale') \in 0 .. MaxRequests
       /\ Cardinality(Responded') \in 0 .. MaxRequests /\ Cardinality(Succeeded') \in 0 .. MaxRequests
  <2>1. /\ WereSent' \in SUBSET Requested /\ PastStale' \in SUBSET Requested
        /\ Responded' \in SUBSET Requested /\ Succeeded' \in SUBSET Requested
    BY DEF WereSent, PastStale, Responded, Succeeded
  <2> QED
    BY <2>1, RequestsCount
<1>t. /\ totals.sent \in Int /\ totals.responses \in Int /\ totals.successes \in Int
      /\ totals.latency \in Int /\ totals.stale \in Int /\ totals \in TotalsType
  BY LoadFields DEF LoadShape
<1>n3. /\ Cardinality(PastStale') \in Nat /\ Cardinality(Succeeded') \in Nat
       /\ MaxRequests \in Nat
  BY <1>n2
<1>c. 0 <= totals.stale /\ totals.stale <= Cardinality(PastStale)
  BY DEF CountersInv
<1>m. \A x \in 0 .. MaxRequests : x % Word = x
  OBVIOUS
<1>r. UNCHANGED <<reportPc, report, marks>>
  BY DEF RequestStep, Sent, Stale, Response, Success, RecDeadline, GetTopVideosReturns, Latency
<1>f. UNCHANGED <<wasSuccess, order>> => Failed(Len(order))' = Failed(Len(order))
  BY DEF Failed
<1>1. CASE Sent(q)
  <2> USE <1>1 DEF Sent, At, Count
  <2>1. PastStale' = PastStale /\ Responded' = Responded /\ Succeeded' = Succeeded /\ Pending' = Pending
    BY DEF LoadShape, PastStale, Responded, Succeeded, Pending
  <2>2. q \notin WereSent /\ WereSent' = WereSent \cup {q}
    BY DEF LoadShape, WereSent
  <2>3. Cardinality(WereSent') = Cardinality(WereSent) + 1
    BY <2>2, RequestsCount, RequestSets
  <2>4. totals' = [totals EXCEPT !.sent = totals.sent + 1]
    BY <1>n2, <1>m, <2>3 DEF CountersInv
  <2>t. /\ totals' \in TotalsType
        /\ totals'.sent = totals.sent + 1
        /\ totals'.stale = totals.stale
        /\ totals'.responses = totals.responses
        /\ totals'.successes = totals.successes
    BY ONLY <1>t, <2>4 DEF TotalsType
  <2>5. LoadShape'
    BY ONLY <1>0, <1>1, <1>r, <2>t DEF LoadShape, Sent, At
  <2>s. UNCHANGED <<order, wasSuccess>> /\ \A r \in Requested : reqPc'[r] = "success" => reqPc[r] = "success"
    BY DEF LoadShape
  <2>6. CountersInv'
    BY ONLY <1>0, <1>t, <1>n, <1>f, <2>1, <2>3, <2>s, <2>t DEF CountersInv
  <2>7. ReportInv'
    BY ONLY LoadInv, <1>r, <1>n, <1>t, <2>5, <2>s, <2>t, ReportKept
  <2> QED
    BY <2>5, <2>6, <2>7 DEF LoadInv
<1>2. ASSUME NEW a \in {"ok", "stale", "error"}, GetTopVideosReturns(q, a) PROVE LoadInv'
  <2> USE <1>2 DEF GetTopVideosReturns, At
  <2>1. PICK b \in BOOLEAN : wasSuccess' = [wasSuccess EXCEPT ![q] = b]
    <3>1. wasSuccess' = [wasSuccess EXCEPT ![q] = a \in {"ok", "stale"}]
      OBVIOUS
    <3>2. (a \in {"ok", "stale"}) \in BOOLEAN
      OBVIOUS
    <3> QED
      BY ONLY <3>1, <3>2, Zenon
  <2>2. PICK p \in {"stale", "response"} : reqPc' = [reqPc EXCEPT ![q] = p]
    OBVIOUS
  <2>3. reqPc[q] = "waiting" /\ UNCHANGED <<totals, order>>
    OBVIOUS
  <2>4. LoadShape'
    BY ONLY <1>0, <1>r, <2>1, <2>2, <2>3 DEF LoadShape
  <2>5. /\ WereSent' = WereSent /\ Responded' = Responded
        /\ Succeeded' = Succeeded /\ Pending' = Pending
    BY ONLY <1>0, <2>1, <2>2, <2>3 DEF LoadShape, WereSent, Responded, Succeeded, Pending
  <2>6. Cardinality(PastStale) <= Cardinality(PastStale')
    <3>1. PastStale \in SUBSET PastStale' /\ PastStale' \in SUBSET Requested
      BY ONLY <1>0, <2>2, <2>3 DEF LoadShape, PastStale
    <3> QED
      BY <3>1, RequestsCount
  <2>7. \A i \in 1 .. Len(order) : order[i] # q
    BY ONLY <1>0, <2>3 DEF CountersInv, Responded
  <2>8. \A i \in 1 .. Len(order) : order'[i] = order[i] /\ wasSuccess'[order[i]] = wasSuccess[order[i]]
    BY ONLY <1>0, <2>1, <2>3, <2>7 DEF LoadShape
  <2>9. Failed(Len(order))' = Failed(Len(order))
    BY <1>n, <2>3, <2>8, FailedKept
  <2>10. CountersInv'
    <3>1. \A r \in Requested : reqPc'[r] = "success" => wasSuccess'[r]
      BY ONLY <1>0, <2>1, <2>2, <2>3 DEF LoadShape, CountersInv
    <3>2. 0 <= totals'.stale /\ totals'.stale <= Cardinality(PastStale')
      <4>1. totals.stale <= Cardinality(PastStale')
        BY ONLY <1>c, <1>t, <1>n, <1>n3, <2>6
      <4> QED
        BY ONLY <1>c, <2>3, <4>1
    <3> QED
      BY ONLY <1>0, <2>3, <2>5, <2>9, <3>1, <3>2 DEF CountersInv
  <2>11. ReportInv'
    BY ONLY LoadInv, <1>r, <1>n, <1>t, <2>3, <2>4, <2>8, ReportKept
  <2> QED
    BY <2>4, <2>10, <2>11 DEF LoadInv
<1>3. CASE Stale(q)
  <2> USE <1>3 DEF Stale, At, Count
  <2>1. WereSent' = WereSent /\ Responded' = Responded /\ Succeeded' = Succeeded /\ Pending' = Pending
    BY DEF LoadShape, WereSent, Responded, Succeeded, Pending
  <2>2. q \notin PastStale /\ PastStale' = PastStale \cup {q}
    BY DEF LoadShape, PastStale
  <2>3. Cardinality(PastStale') = Cardinality(PastStale) + 1
    BY <2>2, RequestsCount, RequestSets
  <2>4. totals' = [totals EXCEPT !.stale = totals.stale + 1]
    <3>1. totals.stale + 1 \in 0 .. MaxRequests
      <4>1. Cardinality(PastStale) + 1 <= MaxRequests
        BY ONLY <1>n, <1>n2, <1>n3, <2>3
      <4>2. totals.stale + 1 <= MaxRequests
        BY ONLY <1>c, <1>t, <1>n, <1>n3, <4>1
      <4> QED
        BY ONLY <1>c, <1>t, <1>n3, <4>2
    <3> QED
      BY <1>m, <3>1
  <2>t. /\ totals' \in TotalsType
        /\ totals'.sent = totals.sent
        /\ totals'.stale = totals.stale + 1
        /\ totals'.responses = totals.responses
        /\ totals'.successes = totals.successes
    BY ONLY <1>t, <2>4 DEF TotalsType
  <2>5. LoadShape'
    BY ONLY <1>0, <1>3, <1>r, <2>t DEF LoadShape, Stale, At
  <2>s. UNCHANGED <<order, wasSuccess>> /\ \A r \in Requested : reqPc'[r] = "success" => reqPc[r] = "success"
    BY DEF LoadShape
  <2>6. CountersInv'
    <3>1. 0 <= totals'.stale /\ totals'.stale <= Cardinality(PastStale')
      BY ONLY <1>c, <1>t, <1>n, <2>3, <2>t
    <3> QED
      BY ONLY <1>0, <1>f, <2>1, <2>s, <2>t, <3>1 DEF CountersInv
  <2>7. ReportInv'
    BY ONLY LoadInv, <1>r, <1>n, <1>t, <2>5, <2>s, <2>t, ReportKept
  <2> QED
    BY <2>5, <2>6, <2>7 DEF LoadInv
<1>4. CASE Response(q)
  <2> USE <1>4 DEF Response, At, Count
  <2>1. WereSent' = WereSent /\ PastStale' = PastStale /\ Succeeded' = Succeeded
    BY DEF LoadShape, WereSent, PastStale, Succeeded
  <2>2. q \notin Responded /\ Responded' = Responded \cup {q}
    BY DEF LoadShape, Responded
  <2>3. Cardinality(Responded') = Cardinality(Responded) + 1
    BY <2>2, RequestsCount, RequestSets
  <2>4. totals' = [totals EXCEPT !.responses = totals.responses + 1]
    BY <1>n2, <1>m, <2>3 DEF CountersInv
  <2>t. /\ totals' \in TotalsType
        /\ totals'.sent = totals.sent /\ totals'.stale = totals.stale
        /\ totals'.responses = totals.responses + 1 /\ totals'.successes = totals.successes
    BY ONLY <1>t, <2>4 DEF TotalsType
  <2>5. LoadShape'
    BY ONLY <1>0, <1>4, <1>r, <2>t DEF LoadShape, Response, At
  <2>6. /\ Len(order') = Len(order) + 1 /\ order'[Len(order) + 1] = q
        /\ \A i \in 1 .. Len(order) : order'[i] = order[i]
    BY DEF LoadShape
  <2>7. Failed(Len(order))' + Cardinality(Pending') = Failed(Len(order)) + Cardinality(Pending) + 1
    <3>0. PICK n \in Nat : n = Len(order)
      BY <1>n
    <3>1. IsFiniteSet(FailedIn(n)) /\ Failed(n) = Cardinality(FailedIn(n)) /\ Failed(n) \in Nat
      BY <3>0, FailedCount
    <3>2. Failed(Len(order))' = Cardinality({i \in 1 .. n + 1 : ~wasSuccess[order'[i]]})
      BY <2>6, <3>0 DEF Failed
    <3>3. CASE wasSuccess[q]
      <4>1. {i \in 1 .. n + 1 : ~wasSuccess[order'[i]]} = FailedIn(n)
        BY ONLY <2>6, <3>0, <3>3 DEF FailedIn
      <4>2. q \notin Pending /\ Pending' = Pending \cup {q}
        BY <3>3 DEF LoadShape, Pending
      <4>3. Cardinality(Pending') = Cardinality(Pending) + 1
        BY <4>2, RequestsCount, RequestSets
      <4>4. Failed(Len(order))' = Failed(Len(order))
        BY ONLY <3>0, <3>1, <3>2, <4>1
      <4> QED
        BY ONLY <1>n, <4>3, <4>4
    <3>4. CASE ~wasSuccess[q]
      <4>1. {i \in 1 .. n + 1 : ~wasSuccess[order'[i]]} = FailedIn(n) \cup {n + 1}
        BY ONLY <2>6, <3>0, <3>4 DEF FailedIn
      <4>2. n + 1 \notin FailedIn(n)
        BY ONLY n \in Nat DEF FailedIn
      <4>3. Cardinality(FailedIn(n) \cup {n + 1}) = Cardinality(FailedIn(n)) + 1
        BY ONLY <3>1, <4>2, FS_AddElement
      <4>4. Pending' = Pending
        BY <3>4 DEF LoadShape, Pending
      <4>5. Failed(Len(order))' = Failed(Len(order)) + 1
        BY ONLY <3>0, <3>1, <3>2, <4>1, <4>3
      <4> QED
        BY ONLY <1>n, <4>4, <4>5
    <3> QED
      BY <3>3, <3>4
  <2>8. CountersInv'
    <3>1. \A i \in 1 .. Len(order') : order'[i] \in Responded'
      <4>1. ASSUME NEW i \in 1 .. Len(order) + 1 PROVE order'[i] \in Responded'
        <5>1. i \in 1 .. Len(order) \/ i = Len(order) + 1
          BY ONLY <1>n
        <5> QED
          BY ONLY <1>0, <2>2, <2>6, <5>1 DEF CountersInv
      <4> QED
        BY ONLY <2>6, <4>1
    <3>2. \A r \in Requested : reqPc'[r] = "success" => wasSuccess'[r]
      BY DEF LoadShape, CountersInv
    <3>3. Failed(Len(order))' + Cardinality(Pending') + Cardinality(Succeeded') = Len(order')
      <4>1. Failed(Len(order)) + Cardinality(Pending) + Cardinality(Succeeded) = Len(order)
        BY DEF CountersInv
      <4>2. Failed(Len(order)) + Cardinality(Pending) + 1 + Cardinality(Succeeded) = Len(order) + 1
        BY ONLY <1>n, <4>1
      <4> QED
        BY ONLY <2>1, <2>6, <2>7, <4>2
    <3>4. totals'.responses = Cardinality(Responded') /\ totals'.responses = Len(order')
      BY ONLY <1>0, <2>3, <2>6, <2>t DEF CountersInv
    <3> QED
      BY ONLY <1>0, <2>1, <2>t, <3>1, <3>2, <3>3, <3>4 DEF CountersInv
  <2>9. ReportInv'
    <3>1. wasSuccess' = wasSuccess
      OBVIOUS
    <3> QED
      BY ONLY LoadInv, <1>r, <1>n, <1>t, <2>t, <2>5, <2>6, <3>1, ReportKept
  <2> QED
    BY <2>5, <2>8, <2>9 DEF LoadInv
<1>5. ASSUME NEW ms \in Latencies, Latency(q, ms) PROVE LoadInv'
  <2> USE <1>5 DEF Latency, At, Count
  <2>1. /\ WereSent' = WereSent /\ PastStale' = PastStale /\ Responded' = Responded
        /\ Succeeded' = Succeeded /\ Pending' = Pending
    BY DEF LoadShape, WereSent, PastStale, Responded, Succeeded, Pending
  <2>2. (totals.latency + ms) % Word \in Int
    BY <1>t, WordMod
  <2>4. /\ totals' \in TotalsType
        /\ totals'.sent = totals.sent /\ totals'.stale = totals.stale
        /\ totals'.responses = totals.responses /\ totals'.successes = totals.successes
    BY <1>t, <2>2 DEF TotalsType
  <2>3. LoadShape'
    BY <2>4 DEF LoadShape
  <2>5. \A r \in Requested : reqPc'[r] = "success" => wasSuccess'[r]
    BY DEF LoadShape, CountersInv
  <2>6. CountersInv'
    BY <1>f, <2>1, <2>4, <2>5 DEF CountersInv
  <2>7. ReportInv'
    BY <1>r, <1>n, <1>t, <2>3, <2>4, ReportKept
  <2> QED
    BY <2>3, <2>6, <2>7 DEF LoadInv
<1>6. CASE Success(q)
  <2> USE <1>6 DEF Success, At, Count
  <2>1. WereSent' = WereSent /\ PastStale' = PastStale /\ Responded' = Responded
    BY DEF LoadShape, WereSent, PastStale, Responded
  <2>2. /\ q \notin Succeeded /\ Succeeded' = Succeeded \cup {q}
        /\ q \in Pending /\ Pending' = Pending \ {q}
    BY DEF LoadShape, CountersInv, Succeeded, Pending
  <2>3. Cardinality(Succeeded') = Cardinality(Succeeded) + 1 /\ Cardinality(Pending') = Cardinality(Pending) - 1
    BY <2>2, RequestsCount, RequestSets
  <2>4. totals' = [totals EXCEPT !.successes = totals.successes + 1]
    BY <1>n2, <1>m, <2>3 DEF CountersInv
  <2>t. /\ totals' \in TotalsType
        /\ totals'.sent = totals.sent
        /\ totals'.stale = totals.stale
        /\ totals'.responses = totals.responses
        /\ totals'.successes = totals.successes + 1
    BY ONLY <1>t, <2>4 DEF TotalsType
  <2>5. LoadShape'
    BY ONLY <1>0, <1>6, <1>r, <2>t DEF LoadShape, Success, At
  <2>s. UNCHANGED <<order, wasSuccess>> /\ \A r \in Requested : reqPc'[r] = "success" => reqPc[r] = "success"
    BY DEF LoadShape
  <2>6. CountersInv'
    <3>1. Failed(Len(order)) + Cardinality(Pending) + Cardinality(Succeeded) = Len(order)
      BY DEF CountersInv
    <3>2. Failed(Len(order)) + Cardinality(Pending') + Cardinality(Succeeded') = Len(order)
      BY ONLY <1>n, <2>3, <3>1
    <3>3. Failed(Len(order))' + Cardinality(Pending') + Cardinality(Succeeded') = Len(order')
      BY ONLY <1>f, <2>s, <3>2
    <3>4. totals'.successes = Cardinality(Succeeded')
      BY ONLY <1>0, <2>3, <2>t DEF CountersInv
    <3> QED
      BY ONLY <1>0, <2>1, <2>s, <2>t, <3>3, <3>4 DEF CountersInv
  <2>7. ReportInv'
    BY ONLY LoadInv, <1>r, <1>n, <1>t, <2>5, <2>s, <2>t, ReportKept
  <2> QED
    BY <2>5, <2>6, <2>7 DEF LoadInv
<1> QED
  BY <1>1, <1>2, <1>3, <1>4, <1>5, <1>6, RecAnswersAssumption DEF RequestStep, RecDeadline

(* reportStats() loads one counter after the other, while requests go on between *)
(* its loads.                                                                   *)
LEMMA ReportKeeps ==
  ASSUME LoadInv, \/ LoadResponses \/ LoadSuccesses \/ LoadLatency \/ LoadStale
                  \/ PrintStats \/ NextTick
  PROVE  LoadInv'
<1>0. LoadShape /\ CountersInv /\ ReportInv
  BY DEF LoadInv
<1> USE <1>0, LoadAssumption DEF Loads
<1>1. UNCHANGED <<reqPc, wasSuccess, totals, order>>
  BY DEF LoadResponses, LoadSuccesses, LoadLatency, LoadStale, PrintStats, NextTick
<1>2. /\ WereSent' = WereSent /\ PastStale' = PastStale /\ Responded' = Responded
      /\ Succeeded' = Succeeded /\ Pending' = Pending /\ Failed(Len(order))' = Failed(Len(order))
  BY <1>1 DEF WereSent, PastStale, Responded, Succeeded, Pending, Failed
<1>3. CountersInv'
  BY <1>1, <1>2 DEF CountersInv
<1>4. UNCHANGED <<marks, wasSuccess, order>> /\ report'.errors = report.errors
          /\ report'.responses = report.responses => ErrorsRight' = ErrorsRight
  BY DEF Failed, ErrorsRight
<1>n. /\ Cardinality(Pending) \in Nat /\ Len(order) \in Nat
      /\ Cardinality(Succeeded) \in Nat /\ Failed(Len(order)) \in Nat
  BY RequestsCount, RequestSets, FailedCount DEF LoadShape
<1>5. totals.responses <= totals.sent /\ totals.stale <= totals.sent
  <2>1. /\ Cardinality(PastStale) <= Cardinality(WereSent) /\ Cardinality(Responded) <= Cardinality(PastStale)
        /\ Cardinality(PastStale) \in Nat /\ Cardinality(WereSent) \in Nat
        /\ Cardinality(Responded) \in Nat
    BY RequestsCount, RequestSets
  <2> QED
    BY <2>1, LoadFields DEF CountersInv
<1>t. /\ totals.sent \in Int /\ totals.responses \in Int /\ totals.successes \in Int
      /\ totals.stale \in Int /\ report.responses \in Int /\ report.stale \in Int
      /\ totals.latency \in Int /\ report.sent \in Int /\ marks.counted \in Nat
      /\ report \in ReportType
  BY LoadFields DEF LoadShape
<1>6. CASE LoadSuccesses
  <2> USE <1>6 DEF LoadSuccesses
  <2>0. (report.responses - totals.successes) % Word \in Int
    BY <1>t, WordMod
  <2>1. marks' = [counted |-> Len(order), pending |-> Cardinality(Pending)]
    BY DEF Pending
  <2>2. report' = [report EXCEPT !.errors = (report.responses - totals.successes) % Word]
        /\ reportPc = "successes" /\ reportPc' = "latency"
    OBVIOUS
  <2>r. /\ report' \in ReportType /\ report'.responses = report.responses
        /\ report'.errors = (report.responses - totals.successes) % Word
    BY ONLY <1>t, <2>0, <2>2 DEF ReportType
  <2>3. LoadShape'
    BY ONLY <1>0, <1>1, <1>n, <2>1, <2>2, <2>r DEF LoadShape
  <2>4. Failed(marks.counted)' = Failed(Len(order))
    BY <1>1, <2>1 DEF Failed
  <2>5. report.responses - totals.successes
            = Failed(Len(order)) - (Len(order) - report.responses) + Cardinality(Pending)
    BY ONLY <1>0, <1>n, <1>t DEF CountersInv
  <2>6. ErrorsRight'
    <3>1. marks'.counted = Len(order) /\ marks'.pending = Cardinality(Pending)
      BY ONLY <2>1
    <3> QED
      BY ONLY <2>4, <2>5, <2>r, <3>1 DEF ErrorsRight
  <2>7. ReportInv'
    BY ONLY <1>0, <1>1, <1>n, <1>t, <2>1, <2>2, <2>6, <2>r DEF ReportInv
  <2> QED
    BY <1>3, <2>3, <2>7 DEF LoadInv
<1>7. CASE LoadResponses
  <2> USE <1>7 DEF LoadResponses, NoReport
  <2>1. LoadShape'
    BY <1>1 DEF LoadShape, TotalsType, ReportType
  <2>2. ReportInv'
    BY <1>1, <1>n, <1>t DEF ReportInv
  <2> QED
    BY <1>3, <2>1, <2>2 DEF LoadInv
<1>8. CASE LoadLatency
  <2>1. /\ report' = [report EXCEPT !.latency = totals.latency] /\ UNCHANGED marks
        /\ reportPc = "latency" /\ reportPc' = "stale"
    BY <1>8 DEF LoadLatency
  <2>2. /\ report' \in ReportType /\ report'.responses = report.responses
        /\ report'.errors = report.errors /\ report'.latency = totals.latency
        /\ report'.stale = report.stale
    BY ONLY <1>t, <2>1 DEF ReportType
  <2>3. LoadShape'
    BY ONLY <1>0, <1>1, <2>1, <2>2 DEF LoadShape
  <2>4. ErrorsRight' = ErrorsRight
    BY ONLY <1>1, <1>4, <2>1, <2>2
  <2>5. ReportInv'
    BY ONLY <1>0, <1>1, <1>t, <2>1, <2>2, <2>4 DEF ReportInv
  <2> QED
    BY <1>3, <2>3, <2>5 DEF LoadInv
<1>9. CASE LoadStale
  <2>1. /\ report' = [report EXCEPT !.stale = totals.stale] /\ UNCHANGED marks
        /\ reportPc = "stale" /\ reportPc' = "sent"
    BY <1>9 DEF LoadStale
  <2>2. /\ report' \in ReportType /\ report'.responses = report.responses
        /\ report'.errors = report.errors /\ report'.stale = totals.stale
    BY ONLY <1>t, <2>1 DEF ReportType
  <2>3. LoadShape'
    BY ONLY <1>0, <1>1, <2>1, <2>2 DEF LoadShape
  <2>4. ErrorsRight' = ErrorsRight
    BY ONLY <1>1, <1>4, <2>1, <2>2
  <2>5. ReportInv'
    BY ONLY <1>0, <1>1, <1>t, <2>1, <2>2, <2>4 DEF ReportInv
  <2> QED
    BY <1>3, <2>3, <2>5 DEF LoadInv
<1>10. CASE PrintStats
  <2>1. /\ report' = [report EXCEPT !.sent = totals.sent] /\ UNCHANGED marks
        /\ reportPc = "sent" /\ reportPc' = "printed"
    BY <1>10 DEF PrintStats
  <2>2. /\ report' \in ReportType /\ report'.responses = report.responses
        /\ report'.errors = report.errors /\ report'.sent = totals.sent
        /\ report'.stale = report.stale
    BY ONLY <1>t, <2>1 DEF ReportType
  <2>3. LoadShape'
    BY ONLY <1>0, <1>1, <2>1, <2>2 DEF LoadShape
  <2>4. ErrorsRight' = ErrorsRight
    BY ONLY <1>1, <1>4, <2>1, <2>2
  <2>5. report'.responses <= report'.sent /\ report'.stale <= report'.sent
    <3>1. report.responses <= totals.responses /\ report.stale <= totals.stale
      BY ONLY <1>0, <2>1 DEF ReportInv
    <3>2. report.responses <= totals.sent /\ report.stale <= totals.sent
      BY ONLY <1>5, <1>t, <3>1
    <3> QED
      BY ONLY <2>2, <3>2
  <2>6. ReportInv'
    BY ONLY <1>0, <1>1, <2>1, <2>2, <2>4, <2>5 DEF ReportInv
  <2> QED
    BY <1>3, <2>3, <2>6 DEF LoadInv
<1>11. CASE NextTick
  <2> USE <1>11 DEF NextTick
  <2>1. LoadShape'
    BY <1>1 DEF LoadShape
  <2>2. ReportInv'
    BY <1>1, <1>n, <1>t DEF ReportInv
  <2> QED
    BY <1>3, <2>1, <2>2 DEF LoadInv
<1> QED
  BY <1>6, <1>7, <1>8, <1>9, <1>10, <1>11

(* Every step of the load generator keeps LoadInv. *)
LEMMA LoadStep == LoadInv /\ [LoadNext]_loadVars => LoadInv'
<1> SUFFICES ASSUME LoadInv, [LoadNext]_loadVars PROVE LoadInv'
  OBVIOUS
<1>1. CASE UNCHANGED loadVars
  BY <1>1 DEF loadVars, LoadInv, LoadShape, CountersInv, ReportInv, WereSent, PastStale,
              Responded, Succeeded, Pending, Failed, ErrorsRight
<1> QED
  BY <1>1, MainStep, RequestKeeps, ReportKeeps DEF LoadNext

(* What reportStats() prints is explained by what it loaded when. *)
LEMMA LoadExplained == LoadInv => ReportExplained
  BY DEF LoadInv, ReportInv, ErrorsRight, ReportExplained

-----------------------------------------------------------------------------
(* The ranker                                                              *)

\* The only salt there is, decoded, and the text of a hash.
TheSalt == [text |-> <<"a">>, size |-> maxSaltSize]
SaltText == [text |-> <<"a">>, size |-> encodedSaltSize, spare |-> 0]
HashOf(pw, c) == [text |-> <<pw, c, TheSalt>>, size |-> encodedHashSize, spare |-> 0]
TextOf(pw, c) ==
    [first |-> "$", major |-> majorVersion, minor |-> minorVersion, cost |-> c,
     salt |-> SaltText, hash |-> HashOf(pw, c)]

\* The cost that a sum is hashed with.
CostOf(d) == IF costHash(d) < MinCost THEN DefaultCost ELSE costHash(d)

(* A cost below the least one is replaced, and no other is out of range. *)
LEMMA CostRange ==
  ASSUME NEW d \in 0 .. Modulus - 1
  PROVE  costHash(d) \in {3, 4, 5} /\ CostOf(d) \in {4, 5, 10}
<1>1. Fnv32[d] \in Int
  BY RankAssumption
<1>2. GoMod(Fnv32[d], 2) \in {-1, 0, 1}
  BY <1>1 DEF GoMod
<1> QED
  BY <1>2 DEF costHash, CostOf, MinCost, DefaultCost

(* The salt survives the encoding. *)
LEMMA SaltDecodes ==
  /\ base64Encode(TheSalt) = SaltText
  /\ base64Decode(SaltText) = Is(TheSalt)
<1>1. (8 * 16 + 5) \div 6 = 22 /\ (6 * 22) \div 8 = 16 /\ 22 % 4 = 2
  OBVIOUS
<1>2. <<"a">> # <<"?">>
  OBVIOUS
<1> QED
  BY <1>1, <1>2 DEF base64Encode, base64Decode, TheSalt, SaltText, encodedSaltSize, maxSaltSize, Illegal

(* GenerateFromPassword() meets no error. *)
LEMMA Generated ==
  ASSUME NEW d \in 0 .. Modulus - 1
  PROVE  GenerateFromPassword(d, costHash(d)) = Is(TextOf(d, CostOf(d)))
<1> DEFINE c == CostOf(d)
           salt == SaltText
           p == [major |-> majorVersion, minor |-> minorVersion, cost |-> c,
                 salt |-> salt, hash |-> HashOf(d, c)]
<1>1. checkCost(c)
  BY CostRange DEF checkCost, MinCost, MaxCost
<1>2. bcrypt(d, c, salt) = Is(HashOf(d, c))
  <2>1. (8 * 23 + 5) \div 6 = 31
    OBVIOUS
  <2>2. base64Encode([text |-> <<d, c, TheSalt>>, size |-> maxCryptedHashSize]) = HashOf(d, c)
    BY <2>1 DEF base64Encode, HashOf, maxCryptedHashSize, encodedHashSize
  <2> QED
    BY <2>2, SaltDecodes DEF bcrypt, Is
<1>3. newFromPassword(d, costHash(d)) = Is(p)
  <2> HIDE DEF p
  <2> QED
  BY <1>1, <1>2, SaltDecodes DEF newFromPassword, CostOf, TheSalt, Is, p
<1>4. Fit(HashOf(d, c)) = HashOf(d, c)
  BY DEF Fit, HashOf, encodedHashSize
<1>5. Hash(p) = TextOf(d, c)
  BY <1>4 DEF Hash, TextOf
<1> HIDE DEF p
<1> QED
  BY <1>3, <1>5 DEF GenerateFromPassword, Is

(* What is left of the salt and the hash of a damaged text. *)
LEMMA DamagedShape ==
  ASSUME NEW d, NEW c, NEW h \in Damaged(TextOf(d, c)) \cup {TextOf(d, c)}
  PROVE  /\ h.salt.text \in {<<"a">>, <<"b">>, Illegal}
         /\ h.salt.size = encodedSaltSize
         /\ h.hash.text \in {<<d, c, TheSalt>>, Illegal}
         /\ h.hash.size \in 29 .. 32
         /\ h.hash = [text |-> h.hash.text, size |-> h.hash.size, spare |-> h.hash.spare]
<1> DEFINE t == TextOf(d, c)
           Shaped(g) == /\ g.salt.text \in {<<"a">>, <<"b">>, Illegal}
                        /\ g.salt.size = encodedSaltSize
                        /\ g.hash.text \in {<<d, c, TheSalt>>, Illegal}
                        /\ g.hash.size \in 29 .. 32
                        /\ g.hash = [text |-> g.hash.text, size |-> g.hash.size, spare |-> g.hash.spare]
<1>1. /\ t = [first |-> t.first, major |-> t.major, minor |-> t.minor, cost |-> t.cost,
              salt |-> t.salt, hash |-> t.hash]
      /\ t.salt = SaltText
      /\ t.hash = [text |-> <<d, c, TheSalt>>, size |-> encodedHashSize, spare |-> 0]
  BY DEF TextOf, HashOf
<1>2. Shaped(t)
  BY <1>1 DEF encodedHashSize, SaltText
<1> HIDE DEF t
<1>3. /\ Shaped([t EXCEPT !.first = "?"]) /\ Shaped([t EXCEPT !.minor = NoMinor])
      /\ Shaped([t EXCEPT !.major = 1]) /\ Shaped([t EXCEPT !.major = 3])
      /\ \A n : Shaped([t EXCEPT !.cost = n])
  BY <1>1, <1>2
<1>4. /\ Shaped([t EXCEPT !.salt.text = Illegal]) /\ Shaped([t EXCEPT !.salt.text = <<"b">>])
      /\ Shaped([t EXCEPT !.salt.spare = 1])
  BY <1>1, <1>2 DEF SaltText
<1>5. Shaped([t EXCEPT !.hash.text = Illegal]) /\ Shaped([t EXCEPT !.hash.spare = 1])
  BY <1>1, <1>2
<1>6. \A n \in encodedHashSize - 2 .. encodedHashSize + 1 : Shaped([t EXCEPT !.hash.size = n])
  BY <1>1, <1>2 DEF encodedHashSize
<1>7. h \in Damaged(t) \cup {t}
  BY DEF t
<1> HIDE DEF Shaped
<1>8. Shaped(h)
  BY <1>2, <1>3, <1>4, <1>5, <1>6, <1>7, Zenon DEF Damaged
<1> QED
  BY <1>8 DEF Shaped

(* What CompareHashAndPassword() has compared of a text it accepts. *)
LEMMA Accepted ==
  ASSUME NEW h, NEW pw, CompareHashAndPassword(h, pw) = "nil"
  PROVE  /\ h.salt.text # Illegal
         /\ Fit(h.hash) = [text |-> <<pw, h.cost, [text |-> h.salt.text, size |-> (6 * h.salt.size) \div 8]>>,
                           size |-> encodedHashSize, spare |-> 0]
<1> DEFINE p == [major |-> h.major, minor |-> h.minor, cost |-> h.cost, salt |-> h.salt, hash |-> h.hash]
           other == bcrypt(pw, h.cost, h.salt)
           csalt == [text |-> h.salt.text, size |-> (6 * h.salt.size) \div 8]
           full == [text |-> <<pw, h.cost, csalt>>, size |-> encodedHashSize, spare |-> 0]
<1>1. newFromHash(h) = Is(p)
  BY DEF CompareHashAndPassword, newFromHash, Fails, Is, decodeVersion, decodeCost
<1>2. other.err = "nil" /\ Hash(p) = Hash([p EXCEPT !.hash = other.val])
  BY <1>1 DEF CompareHashAndPassword, Is
<1>3. h.salt.text # Illegal /\ other = Is(full)
  <2>1. (8 * 23 + 5) \div 6 = 31
    OBVIOUS
  <2>2. base64Encode([text |-> <<pw, h.cost, csalt>>, size |-> maxCryptedHashSize]) = full
    BY <2>1 DEF base64Encode, maxCryptedHashSize, encodedHashSize
  <2>3. h.salt.text # Illegal /\ base64Decode(h.salt) = Is(csalt)
    BY <1>2 DEF bcrypt, base64Decode, Fails, Is
  <2> QED
    BY <2>2, <2>3 DEF bcrypt, Is
<1>4. Fit(h.hash) = Fit(full)
  BY <1>2, <1>3 DEF Hash, Is
<1>5. Fit(full) = full
  BY DEF Fit, encodedHashSize
<1> QED
  BY <1>3, <1>4, <1>5

\* The features of both, and what each adds.
Shared(u, v) == DOMAIN u \cap DOMAIN v
Products(u, v) == [f \in Shared(u, v) |-> u[f] * v[f]]

\* The dot product.
Dot(u, v) == MapThenSumSet(LAMBDA f : u[f] * v[f], DOMAIN u \cap DOMAIN v)

(* Coefficients are numbers, and so are their products. *)
LEMMA ProductsAre ==
  ASSUME NEW u \in CoeffMaps, NEW v \in CoeffMaps
  PROVE  /\ IsFiniteSet(Shared(u, v))
         /\ \A f \in Shared(u, v) : Products(u, v)[f] = u[f] * v[f] /\ Products(u, v)[f] \in Nat
<1>1. IsFiniteSet(Shared(u, v)) /\ \A f \in Shared(u, v) : u[f] \in Nat /\ v[f] \in Nat
  BY CoeffsAssumption, FS_Subset DEF Shared
<1> QED
  BY <1>1 DEF Products

(* The dot product is their sum. *)
LEMMA DotIsSum ==
  ASSUME NEW u \in CoeffMaps, NEW v \in CoeffMaps
  PROVE  Dot(u, v) = SumOver(Products(u, v), Shared(u, v))
<1> DEFINE D == Shared(u, v)
           w == Products(u, v)
           Rec(g) == g = [s \in SUBSET D |->
                             IF s = {} THEN 0
                             ELSE u[CHOOSE x \in s : TRUE] * v[CHOOSE x \in s : TRUE]
                                      + g[s \ {CHOOSE x \in s : TRUE}]]
<1>1. Dot(u, v) = (CHOOSE g : Rec(g))[D]
  BY DEF Dot, MapThenSumSet, MapThenFoldSet, Shared
<1>2. \A s \in SUBSET D : s # {} => w[Pick(s)] = u[CHOOSE x \in s : TRUE] * v[CHOOSE x \in s : TRUE]
  BY ProductsAre DEF Pick
<1> HIDE DEF w, D
<1>3. \A g : Rec(g) <=> SumsOf(g, D, w)
  BY <1>2 DEF SumsOf, Pick
<1> HIDE DEF Rec
<1>4. (CHOOSE g : Rec(g)) = (CHOOSE g : SumsOf(g, D, w))
  BY <1>3
<1> QED
  BY <1>1, <1>4 DEF SumOver, D, w

(* It may be added up from any of its products on. *)
LEMMA DotAnyOrder ==
  ASSUME NEW u \in CoeffMaps, NEW v \in CoeffMaps
  PROVE  \A s \in SUBSET Shared(u, v) :
             /\ SumOver(Products(u, v), s) \in Nat
             /\ \A f \in s : SumOver(Products(u, v), s) =
                                 u[f] * v[f] + SumOver(Products(u, v), s \ {f})
<1> SUFFICES ASSUME NEW s \in SUBSET Shared(u, v)
             PROVE  /\ SumOver(Products(u, v), s) \in Nat
                    /\ \A f \in s : SumOver(Products(u, v), s) =
                                        u[f] * v[f] + SumOver(Products(u, v), s \ {f})
  OBVIOUS
<1>1. IsFiniteSet(s) /\ \A f \in s : Products(u, v)[f] = u[f] * v[f] /\ Products(u, v)[f] \in Nat
  BY ProductsAre, FS_Subset
<1>2. /\ SumOver(Products(u, v), s) \in Nat
      /\ \A f \in s : SumOver(Products(u, v), s) = Products(u, v)[f] + SumOver(Products(u, v), s \ {f})
  BY <1>1, SumRemove
<1> QED
  BY <1>1, <1>2

\* The domains of the ranker's state.
RankShape ==
    /\ rankPc \in [Rankers -> {"start", "sum", "ranked", "damaged"}]
    /\ DOMAIN userCoeffs = Rankers /\ DOMAIN videoCoeffs = Rankers
    /\ DOMAIN features = Rankers
    /\ dotProduct \in [Rankers -> 0 .. Modulus - 1]
    /\ DOMAIN scoreText = Rankers /\ DOMAIN hashText = Rankers

\* With what is still to come of a walk, and some rounds of the modulus, dot is the
\* dot product.
SumRight(u, v, rest, dot) ==
    /\ u \in CoeffMaps /\ v \in CoeffMaps /\ rest \subseteq DOMAIN u
    /\ \E k \in Nat : SumOver(Products(u, v), Shared(u, v)) =
                         dot + SumOver(Products(u, v), rest \cap Shared(u, v)) + Modulus * k

\* A goroutine adds, then has a scoreText and its text.
RankerInv(pc, u, v, rest, dot, sc, text) ==
    /\ pc = "start" => dot = 0
    /\ pc # "start" => SumRight(u, v, rest, dot)
    /\ pc \in {"ranked", "damaged"} =>
        /\ rest = {}
        /\ sc = Is(TextOf(dot, CostOf(dot)))
        /\ text \in IF pc = "ranked" THEN {sc.val} ELSE Damaged(sc.val)

\* Goroutines share nothing: each keeps its part.
RankInv ==
    /\ RankShape
    /\ \A r \in Rankers : RankerInv(rankPc[r], userCoeffs[r], videoCoeffs[r], features[r],
                                    dotProduct[r], scoreText[r], hashText[r])

(* Nothing is ranked yet. *)
LEMMA RankStart == RankInit => RankInv
<1> SUFFICES ASSUME RankInit PROVE RankInv
  OBVIOUS
<1>1. 0 \in 0 .. Modulus - 1
  BY RankAssumption
<1> QED
  BY <1>1 DEF RankInit, RankInv, RankShape, RankerInv

(* One more product, modulo 2^64. *)
LEMMA AddStep ==
  ASSUME NEW u, NEW v, NEW rest, NEW dot \in 0 .. Modulus - 1, NEW f \in rest,
         SumRight(u, v, rest, dot)
  PROVE  LET new == IF f \in DOMAIN v THEN (dot + u[f] * v[f]) % Modulus ELSE dot
         IN  new \in 0 .. Modulus - 1 /\ SumRight(u, v, rest \ {f}, new)
<1>1. u \in CoeffMaps /\ v \in CoeffMaps /\ rest \subseteq DOMAIN u
  BY DEF SumRight
<1> DEFINE g(s) == SumOver(Products(u, v), s)
           D == Shared(u, v)
<1>2. PICK k \in Nat : g(D) = dot + g(rest \cap D) + Modulus * k
  BY DEF SumRight
<1>3. CASE f \notin DOMAIN v
  <2>1. (rest \ {f}) \cap D = rest \cap D
    BY <1>3 DEF Shared
  <2> QED
    BY <1>1, <1>2, <1>3, <2>1 DEF SumRight
<1>4. CASE f \in DOMAIN v
  <2> DEFINE p == u[f] * v[f]
             new == (dot + p) % Modulus
             more == (dot + p) \div Modulus
             left == g((rest \ {f}) \cap D)
  <2>1. rest \cap D \in SUBSET D /\ f \in rest \cap D /\ (rest \cap D) \ {f} = (rest \ {f}) \cap D
    BY <1>1, <1>4 DEF Shared
  <2>2. g(rest \cap D) = p + left
    BY <1>1, <2>1, DotAnyOrder
  <2>3. (rest \ {f}) \cap D \in SUBSET D
    OBVIOUS
  <2>4. left \in Nat
    BY <1>1, <2>3, DotAnyOrder
  <2>5. p \in Nat
    <3>1. u[f] \in Nat /\ v[f] \in Nat
      BY <1>1, <1>4, CoeffsAssumption
    <3> QED
      BY <3>1
  <2>6. Modulus \in Nat \ {0} /\ dot \in Nat
    BY RankAssumption
  <2>7. new \in 0 .. Modulus - 1 /\ more \in Nat /\ dot + p = new + Modulus * more
    <3> HIDE DEF p
    <3> QED
      BY <2>5, <2>6
  <2> HIDE DEF new, more, left, p, g, D
  <2>8. g(D) = new + left + Modulus * (more + k)
    <3>1. Modulus * (more + k) = Modulus * more + Modulus * k
      BY ONLY <2>6, <2>7, k \in Nat
    <3>2. Modulus * more \in Nat /\ Modulus * k \in Nat
      BY ONLY <2>6, <2>7, k \in Nat
    <3>3. new \in Nat
      BY ONLY <2>6, <2>7
    <3> DEFINE m == Modulus * more
               n == Modulus * k
    <3> HIDE DEF m, n
    <3>4. dot + (p + left) + n = new + left + (m + n)
      BY ONLY <2>4, <2>5, <2>6, <2>7, <3>2, <3>3 DEF m, n
    <3> QED
      BY <1>2, <2>2, <3>1, <3>4 DEF m, n
  <2>9. more + k \in Nat
    BY <2>7
  <2>10. \E j \in Nat : g(D) = new + left + Modulus * j
    BY <2>8, <2>9
  <2>11. SumRight(u, v, rest \ {f}, new)
    BY <1>1, <2>10 DEF SumRight, left, g, D
  <2> QED
    BY <1>4, <2>7, <2>11 DEF new, p
<1> QED
  BY <1>3, <1>4

(* Every step of a ranker keeps RankInv. *)
LEMMA RankStep == RankInv /\ [RankNext]_rankVars => RankInv'
<1> SUFFICES ASSUME RankInv, [RankNext]_rankVars PROVE RankInv'
  OBVIOUS
<1> DEFINE Inv(r) == RankerInv(rankPc[r], userCoeffs[r], videoCoeffs[r], features[r],
                               dotProduct[r], scoreText[r], hashText[r])
<1>1. RankShape /\ \A r \in Rankers : Inv(r)
  BY DEF RankInv
<1>2. ASSUME NEW r \in Rankers, NEW u \in CoeffMaps, NEW v \in CoeffMaps, RankCall(r, u, v)
      PROVE  RankInv'
  <2>1. RankShape'
    BY <1>1, <1>2 DEF RankShape, RankCall
  <2>2. \A s \in Rankers \ {r} : Inv(s)'
    BY <1>1, <1>2 DEF RankShape, RankCall
  <2>3. SumRight(u, v, DOMAIN u, 0)
    <3>1. DOMAIN u \cap Shared(u, v) = Shared(u, v) /\ Shared(u, v) \in SUBSET Shared(u, v)
      BY DEF Shared
    <3>2. SumOver(Products(u, v), Shared(u, v)) \in Nat
      BY <3>1, DotAnyOrder
    <3>3. SumOver(Products(u, v), Shared(u, v)) = 0 + SumOver(Products(u, v), DOMAIN u \cap Shared(u, v)) + Modulus * 0
      <4>1. \A n \in Nat : n = 0 + n + Modulus * 0
        BY RankAssumption
      <4> QED
        BY <3>1, <3>2, <4>1, Zenon
    <3> QED
      BY <3>3 DEF SumRight
  <2>4. dotProduct[r] = 0
    BY <1>1, <1>2 DEF RankCall, RankerInv
  <2>5. Inv(r)'
    BY <1>1, <1>2, <2>3, <2>4 DEF RankShape, RankCall, RankerInv
  <2> QED
    BY <2>1, <2>2, <2>5 DEF RankInv
<1>3. ASSUME NEW r \in Rankers, NEW f \in features[r], RankAdd(r, f)
      PROVE  RankInv'
  <2> DEFINE new == IF f \in DOMAIN videoCoeffs[r]
                    THEN (dotProduct[r] + userCoeffs[r][f] * videoCoeffs[r][f]) % Modulus
                    ELSE dotProduct[r]
  <2>1. rankPc[r] = "sum" /\ dotProduct[r] \in 0 .. Modulus - 1
        /\ SumRight(userCoeffs[r], videoCoeffs[r], features[r], dotProduct[r])
    BY <1>1, <1>3 DEF RankShape, RankAdd, RankerInv
  <2>2. new \in 0 .. Modulus - 1 /\ SumRight(userCoeffs[r], videoCoeffs[r], features[r] \ {f}, new)
    BY <2>1, AddStep
  <2>3. dotProduct' = [dotProduct EXCEPT ![r] = new]
    BY <1>3 DEF RankAdd
  <2> HIDE DEF new
  <2>4. RankShape'
    BY <1>1, <1>3, <2>2, <2>3 DEF RankShape, RankAdd
  <2>5. \A s \in Rankers \ {r} : Inv(s)'
    BY <1>1, <1>3, <2>3 DEF RankShape, RankAdd
  <2>6. Inv(r)'
    BY <1>1, <1>3, <2>1, <2>2, <2>3 DEF RankShape, RankAdd, RankerInv
  <2> QED
    BY <2>4, <2>5, <2>6 DEF RankInv
<1>4. ASSUME NEW r \in Rankers, RankReturn(r)
      PROVE  RankInv'
  <2> DEFINE text == TextOf(dotProduct[r], CostOf(dotProduct[r]))
  <2>1. dotProduct[r] \in 0 .. Modulus - 1
    BY <1>1 DEF RankShape
  <2>2. GenerateFromPassword(dotProduct[r], costHash(dotProduct[r])) = Is(text) /\ Is(text).val = text
    BY <2>1, Generated DEF Is
  <2> HIDE DEF text
  <2>3. scoreText' = [scoreText EXCEPT ![r] = Is(text)] /\ hashText' = [hashText EXCEPT ![r] = text]
    BY <1>4, <2>2 DEF RankReturn
  <2>4. RankShape'
    BY <1>1, <1>4, <2>3 DEF RankShape, RankReturn
  <2>5. \A s \in Rankers \ {r} : Inv(s)'
    BY <1>1, <1>4, <2>3 DEF RankShape, RankReturn
  <2>6. Inv(r)'
    BY <1>1, <1>4, <2>2, <2>3 DEF RankShape, RankReturn, RankerInv, text
  <2> QED
    BY <2>4, <2>5, <2>6 DEF RankInv
<1>5. ASSUME NEW r \in Rankers, Damage(r)
      PROVE  RankInv'
  <2>1. PICK h \in Damaged(hashText[r]) : hashText' = [hashText EXCEPT ![r] = h]
    BY <1>5 DEF Damage
  <2>2. RankShape'
    BY <1>1, <1>5, <2>1 DEF RankShape, Damage
  <2>3. \A s \in Rankers \ {r} : Inv(s)'
    BY <1>1, <1>5, <2>1 DEF RankShape, Damage
  <2>4. Inv(r)'
    BY <1>1, <1>5, <2>1 DEF RankShape, Damage, RankerInv
  <2> QED
    BY <2>2, <2>3, <2>4 DEF RankInv
<1>6. CASE UNCHANGED rankVars
  BY <1>1, <1>6 DEF rankVars, RankInv, RankShape
<1> QED
  BY <1>2, <1>3, <1>4, <1>5, <1>6 DEF RankNext

(* A sum that is complete is the dot product modulo 2^64. *)
LEMMA SumComplete ==
  ASSUME NEW u, NEW v, NEW dot \in 0 .. Modulus - 1, SumRight(u, v, {}, dot)
  PROVE  dot = Dot(u, v) % Modulus
<1>1. u \in CoeffMaps /\ v \in CoeffMaps
  BY DEF SumRight
<1>2. PICK k \in Nat : SumOver(Products(u, v), Shared(u, v)) = dot + SumOver(Products(u, v), {} \cap Shared(u, v)) + Modulus * k
  BY DEF SumRight
<1>3. {} \cap Shared(u, v) = {}
  OBVIOUS
<1>4. SumOver(Products(u, v), {} \cap Shared(u, v)) = 0
  BY <1>1, <1>3, SumEmpty
<1>5. Modulus \in Nat \ {0} /\ dot \in Nat /\ dot < Modulus
  BY RankAssumption
<1>6. Dot(u, v) = dot + Modulus * k
  <2>1. Modulus * k \in Nat
    BY ONLY <1>5, k \in Nat
  <2>2. dot + 0 + Modulus * k = dot + Modulus * k
    BY ONLY <1>5, <2>1
  <2> QED
    BY <1>1, <1>2, <1>4, <2>2, DotIsSum
<1>7. (dot + Modulus * k) % Modulus = dot
  BY ONLY <1>5, k \in Nat
<1> QED
  BY <1>6, <1>7

(* Scores are those of the dot products. *)
LEMMA RankExplained == RankInv => RankIsDeterministic
<1> SUFFICES ASSUME RankInv, NEW r \in Rankers, NEW s \in Rankers, Ranked(r)
             PROVE  /\ dotProduct[r] = Dot(userCoeffs[r], videoCoeffs[r]) % Modulus
                    /\ scoreText[r].err = "nil"
                    /\ Ranked(s) => (scoreText[r] = scoreText[s]) = (dotProduct[r] = dotProduct[s])
  BY DEF RankIsDeterministic, Dot
<1>1. \A q \in Rankers : Ranked(q) =>
          /\ features[q] = {}
          /\ SumRight(userCoeffs[q], videoCoeffs[q], features[q], dotProduct[q])
          /\ scoreText[q] = Is(TextOf(dotProduct[q], CostOf(dotProduct[q])))
  BY DEF RankInv, Ranked, RankerInv
<1>2. dotProduct[r] \in 0 .. Modulus - 1
  BY DEF RankInv, RankShape
<1>3. dotProduct[r] = Dot(userCoeffs[r], videoCoeffs[r]) % Modulus
  <2>1. SumRight(userCoeffs[r], videoCoeffs[r], {}, dotProduct[r])
    BY <1>1
  <2> QED
    BY <1>2, <2>1, SumComplete
<1>4. scoreText[r].err = "nil"
  <2>1. \A x : Is(x).err = "nil"
    BY DEF Is
  <2> QED
    BY <1>1, <2>1
<1>5. ASSUME Ranked(s) PROVE (scoreText[r] = scoreText[s]) <=> (dotProduct[r] = dotProduct[s])
  <2>1. \A d : Is(TextOf(d, CostOf(d))).val.hash.text[1] = d
    BY DEF Is, TextOf, HashOf
  <2>2. dotProduct[r] = dotProduct[s] => scoreText[r] = scoreText[s]
    BY <1>1, <1>5
  <2>3. scoreText[r] = scoreText[s] => dotProduct[r] = dotProduct[s]
    BY <1>1, <1>5, <2>1
  <2> QED
    BY <2>2, <2>3
<1> QED
  BY <1>3, <1>4, <1>5


(* An accepted text has the password, the cost and the bytes of the salt in its hash. *)
LEMMA AcceptedMeans ==
  ASSUME NEW d, NEW c, NEW h \in Damaged(TextOf(d, c)) \cup {TextOf(d, c)}, NEW pw,
         CompareHashAndPassword(h, pw) = "nil"
  PROVE  /\ pw = d /\ h.cost = c /\ base64Decode(h.salt) = base64Decode(TextOf(d, c).salt)
         /\ Fit(h.hash) = TextOf(d, c).hash
<1> DEFINE csalt == [text |-> h.salt.text, size |-> (6 * h.salt.size) \div 8]
<1>1. Fit(h.hash) = [text |-> <<pw, h.cost, csalt>>, size |-> encodedHashSize, spare |-> 0]
  BY Accepted
<1>2. Fit(h.hash).text = h.hash.text
  BY DamagedShape DEF Fit
<1>3. h.hash.text = <<pw, h.cost, csalt>>
  BY <1>1, <1>2
<1>4. h.hash.text = <<d, c, TheSalt>>
  <2>1. <<pw, h.cost, csalt>> # <<"?">>
    OBVIOUS
  <2> QED
    BY <1>3, <2>1, DamagedShape DEF Illegal
<1>5. pw = d /\ h.cost = c /\ csalt = TheSalt
  BY <1>3, <1>4
<1>6. h.salt.text = <<"a">>
  BY <1>5 DEF TheSalt
<1>7. base64Decode(h.salt) = base64Decode(SaltText)
  BY <1>6, DamagedShape DEF base64Decode, SaltText
<1>8. Fit(h.hash) = HashOf(d, c)
  BY <1>1, <1>5 DEF HashOf
<1> QED
  BY <1>5, <1>7, <1>8 DEF TextOf

(* A text as it was made is accepted for its password. *)
LEMMA OwnAccepted ==
  ASSUME NEW d, NEW c \in {4, 5, 10}
  PROVE  /\ CompareHashAndPassword(TextOf(d, c), d) = "nil"
         /\ Cost(TextOf(d, c)) = Is(c)
<1> DEFINE t == TextOf(d, c)
           p == [major |-> t.major, minor |-> t.minor, cost |-> c, salt |-> t.salt, hash |-> t.hash]
<1>1. /\ t.first = "$" /\ t.major = 2 /\ t.minor = 1 /\ t.cost = c
      /\ t.salt = SaltText
      /\ t.hash = HashOf(d, c) /\ t.hash.size = 31
  BY DEF TextOf, HashOf, majorVersion, minorVersion, encodedHashSize
<1> HIDE DEF t
<1>2. HashLen(t.minor, t.hash) = 60
  BY <1>1 DEF HashLen, NoMinor, encodedSaltSize
<1>3. decodeVersion(t) = "nil" /\ decodeCost(t) = "nil"
  BY <1>1 DEF decodeVersion, decodeCost, majorVersion, NotANumber, checkCost, MinCost, MaxCost
<1>4. newFromHash(t) = Is(p)
  BY <1>1, <1>2, <1>3 DEF newFromHash, minHashSize
<1>5. bcrypt(d, c, t.salt) = Is(t.hash)
  <2>1. (8 * 23 + 5) \div 6 = 31
    OBVIOUS
  <2>2. base64Encode([text |-> <<d, c, TheSalt>>, size |-> maxCryptedHashSize]) = HashOf(d, c)
    BY <2>1 DEF base64Encode, HashOf, maxCryptedHashSize, encodedHashSize
  <2> QED
    BY <1>1, <2>2, SaltDecodes DEF bcrypt, Is
<1>6. Is(p).err = "nil" /\ Is(p).val = p /\ p.cost = c /\ p.salt = t.salt
  BY DEF Is
<1>7. [p EXCEPT !.hash = t.hash] = p
  OBVIOUS
<1>8. Is(t.hash).err = "nil" /\ Is(t.hash).val = t.hash
  BY DEF Is
<1> HIDE DEF p
<1>9. CompareHashAndPassword(t, d) = "nil"
  BY <1>4, <1>5, <1>6, <1>7, <1>8 DEF CompareHashAndPassword
<1>10. Cost(t) = Is(c)
  BY <1>4, <1>6 DEF Cost
<1> QED
  BY <1>9, <1>10 DEF t

(* A text stands for one password. *)
LEMMA RankAccepts == RankInv => AcceptsOwnPasswordOnly
<1> SUFFICES ASSUME RankInv, NEW r \in Rankers, Ranked(r)
             PROVE
        /\ rankPc[r] = "ranked" =>
            /\ CompareHashAndPassword(hashText[r], dotProduct[r]) = "nil"
            /\ Cost(hashText[r]) = Is(scoreText[r].val.cost)
        /\ \A pw \in 0 .. Modulus - 1 : CompareHashAndPassword(hashText[r], pw) = "nil" =>
            /\ pw = dotProduct[r]
            /\ hashText[r].cost = scoreText[r].val.cost /\ base64Decode(hashText[r].salt) = base64Decode(scoreText[r].val.salt)
            /\ Fit(hashText[r].hash) = scoreText[r].val.hash
  BY DEF AcceptsOwnPasswordOnly
<1> DEFINE d == dotProduct[r]
           c == CostOf(d)
           t == TextOf(d, c)
<1>1. d \in 0 .. Modulus - 1 /\ c \in {4, 5, 10}
  BY CostRange DEF RankInv, RankShape
<1>2. scoreText[r] = Is(t) /\ hashText[r] \in IF rankPc[r] = "ranked" THEN {scoreText[r].val} ELSE Damaged(scoreText[r].val)
  BY DEF RankInv, RankerInv, Ranked
<1>3. Is(t).val = t /\ t.cost = c
  BY DEF Is, TextOf
<1> HIDE DEF c, d, t
<1>4. scoreText[r].val = t
  BY <1>2, <1>3
<1>5. hashText[r] \in Damaged(t) \cup {t} /\ (rankPc[r] = "ranked" => hashText[r] = t)
  BY <1>2, <1>4
<1>6. CompareHashAndPassword(t, d) = "nil" /\ Cost(t) = Is(c)
  BY <1>1, OwnAccepted DEF t
<1>7. ASSUME NEW pw \in 0 .. Modulus - 1, CompareHashAndPassword(hashText[r], pw) = "nil"
      PROVE  /\ pw = d /\ hashText[r].cost = c /\ base64Decode(hashText[r].salt) = base64Decode(t.salt)
             /\ Fit(hashText[r].hash) = t.hash
  <2>1. t = TextOf(d, c)
    BY DEF t
  <2>2. hashText[r] \in Damaged(TextOf(d, c)) \cup {TextOf(d, c)}
    BY <1>5, <2>1
  <2> DEFINE h == hashText[r]
  <2> HIDE DEF h
  <2>3. h \in Damaged(TextOf(d, c)) \cup {TextOf(d, c)} /\ CompareHashAndPassword(h, pw) = "nil"
    BY <1>7, <2>2 DEF h
  <2>4. /\ pw = d /\ h.cost = c /\ base64Decode(h.salt) = base64Decode(TextOf(d, c).salt)
        /\ Fit(h.hash) = TextOf(d, c).hash
    BY <2>3, AcceptedMeans
  <2> QED
    BY <2>1, <2>4 DEF h
<1>8. \A pw \in 0 .. Modulus - 1 : CompareHashAndPassword(hashText[r], pw) = "nil" =>
            /\ pw = d /\ hashText[r].cost = c /\ base64Decode(hashText[r].salt) = base64Decode(t.salt)
            /\ Fit(hashText[r].hash) = t.hash
  BY <1>7
<1> QED
  BY <1>3, <1>4, <1>5, <1>6, <1>8 DEF d

-----------------------------------------------------------------------------
(* lab1                                                                    *)

\* The inductive invariant of lab1.
Lab1Inv == ServiceInv /\ TrendingInv /\ LoadInv /\ RankInv

(* It holds at first. *)
LEMMA Lab1Start == Lab1Init => Lab1Inv
<1> SUFFICES ASSUME Lab1Init PROVE Lab1Inv
  OBVIOUS
<1>1. Init /\ LoadInit /\ RankInit
  BY DEF Lab1Init
<1>2. TrendingInv
  BY <1>1 DEF Init, NoAnswer, TrendingInv
<1> QED
  BY <1>1, <1>2, ServiceInit, LoadStart, RankStart DEF Lab1Inv

(* A step of the services, of their clients or of the frontend. *)
LEMMA ServiceStep ==
  ASSUME ServiceInv, TrendingInv,
         ServerNext \/ ClientNext \/ FrontendNext \/ UNCHANGED vars
  PROVE  ServiceInv' /\ TrendingInv'
<1>1. CASE ServerNext
  <2>1. ASSUME NEW s \in Services, NEW new \in Configs, MakeServer(s, new) \/ SetInjectionConfig(s, new)
        PROVE  ServiceInv' /\ TrendingInv'
    <3>1. SetInjectionConfigPb(s, new) /\ UNCHANGED callVars /\ UNCHANGED topVideos
      BY <2>1 DEF MakeServer, SetInjectionConfig
    <3> QED
      BY <3>1, ConfigStep DEF TrendingInv, callVars
  <2>2. ASSUME NEW c \in Calls, Load(c) \/ Draw(c) \/ Panic(c) \/ Handle(c) \/ Deadline(c)
        PROVE  ServiceInv' /\ TrendingInv'
    BY <2>2, CallStep, TrendingCall
  <2>3. "user" \in Services /\ "video" \in Services
    BY DEF Services
  <2> QED
    BY <1>1, <2>1, <2>2, <2>3
    DEF ServerNext, ServeUser, ServeVideo, MakeMockUserServiceClient, MakeMockVideoServiceClient,
        MakeUserServiceServer, MakeVideoServiceServer, UserSetInjectionConfig, VideoSetInjectionConfig
<1>2. ASSUME NEW c \in Calls, NEW r, r.service \in Services, Send(c, r)
      PROVE  ServiceInv' /\ TrendingInv'
  BY <1>2, SendStep, TrendingSend
<1>3. CASE ClientNext
  <2>1. PICK c \in Calls : \E r : r.service \in Services /\ Send(c, r)
    <3>1. \A r \in Request : r.service \in Services
      BY DEF Request, Services
    <3>2. \A ids : /\ [service |-> "user", method |-> "get", ids |-> ids].service \in Services
                   /\ [service |-> "video", method |-> "get", ids |-> ids].service \in Services
                   /\ [service |-> "video", method |-> "trending", ids |-> ids].service \in Services
      BY DEF Services
    <3> QED
      BY <1>3, <3>1, <3>2
      DEF ClientNext, GrpcCall, MockGetUser, MockGetVideo, MockGetTrendingVideos
  <2> QED
    BY <1>2, <2>1
<1>4. CASE UNCHANGED vars
  BY <1>4 DEF vars, ServiceInv, ServiceShape, HandlerInv, TrendingInv
<1>5. CASE FrontendNext
  <2>1. UNCHANGED vars \/ \E c \in Calls, user \in FrontendUsers : FetchUser(c, user)
    BY <1>5 DEF FrontendNext, FrontendDial, FetchUserDial, DialService, FetchUserRefused,
                FetchUserReturns, SendSingleTestRequest
  <2>2. ASSUME NEW c \in Calls, NEW user \in FrontendUsers, FetchUser(c, user)
        PROVE  ServiceInv' /\ TrendingInv'
    <3>1. \A ids : [service |-> "user", method |-> "get", ids |-> ids].service \in Services
      BY DEF Services
    <3> QED
      BY <1>2, <2>2, <3>1 DEF FetchUser, GrpcCall
  <2> QED
    BY <1>4, <2>1, <2>2
<1> QED
  BY <1>1, <1>3, <1>4, <1>5

(* Every step of every program keeps it. *)
LEMMA Lab1Step == Lab1Inv /\ [Lab1Next]_lab1Vars => Lab1Inv'
<1> SUFFICES ASSUME Lab1Inv, [Lab1Next]_lab1Vars PROVE Lab1Inv'
  OBVIOUS
<1>1. ServerNext \/ ClientNext \/ FrontendNext \/ UNCHANGED vars
  BY DEF Lab1Next, lab1Vars
<1>2. [LoadNext]_loadVars /\ [RankNext]_rankVars
  BY DEF Lab1Next, lab1Vars
<1> QED
  BY <1>1, <1>2, ServiceStep, LoadStep, RankStep DEF Lab1Inv

(* So it always holds. *)
LEMMA Lab1Invariance == Lab1Spec => []Lab1Inv
  BY Lab1Start, Lab1Step, PTL DEF Lab1Spec

\* MaybeInject() loads the injection config once: whatever configs are stored while a
\* request is under way, by whichever process, one of them explains its fate.
THEOREM OneConfig == Lab1Spec => []OneConfigExplains
  BY Lab1Invariance, ServiceExplained, PTL DEF Lab1Inv

\* Whatever --batch-size is, GetVideo() accepts every batch of what GetTrendingVideos()
\* answers: the server deduplicates the list with the function by which it refuses
\* duplicates, and each id is in its database.
THEOREM TrendingIsFetchable == Lab1Spec => []TrendingCanBeFetched
  BY Lab1Invariance, TrendingFetched, PTL DEF Lab1Inv

\* How wrong the report is that reportStats() prints from counters it loads one after
\* the other: the errors are off by the responses counted between two of the loads and
\* by the successes under way, and neither responses nor stale ones exceed the requests.
THEOREM ReportIsExplained == Lab1Spec => []ReportExplained
  BY Lab1Invariance, LoadExplained, PTL DEF Lab1Inv

\* Rank() returns the dot product modulo 2^64 under a hash that never fails, whatever
\* the order in which Go walks over the coefficients, and however many rank at once.
THEOREM RankingIsDeterministic == Lab1Spec => []RankIsDeterministic
  BY Lab1Invariance, RankExplained, PTL DEF Lab1Inv

\* CompareHashAndPassword() accepts a text, damaged or not, for its own password only,
\* and only with its cost, the bytes of its salt and its whole hash.
THEOREM OwnPasswordOnly == Lab1Spec => []AcceptsOwnPasswordOnly
  BY Lab1Invariance, RankAccepts, PTL DEF Lab1Inv
=============================================================================
