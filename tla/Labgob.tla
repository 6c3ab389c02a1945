------------------------------- MODULE Labgob -------------------------------
(***************************************************************************)
(* lab2/labgob/labgob.go: the wrapper of encoding/gob that counts (and     *)
(* prints) lower-case fields, once per type, and values decoded into a     *)
(* variable that is not zero.                                              *)
(*                                                                         *)
(* Types form a graph.  A thread inside checkType() is the stack of what   *)
(* it still has to do; each entry is one critical section of mu.  A value  *)
(* is the set of the paths of its non-zero leaves; a list or a map is a    *)
(* leaf.  gob itself (external) transmits the non-zero leaves that have no *)
(* lower-case field on their path, and leaves the others of the variable   *)
(* it decodes into alone.                                                  *)
(***************************************************************************)
EXTENDS Integers, Sequences, FiniteSets, SequencesExt, FiniteSetsExt

CONSTANTS Types,
          Kind,      \* of each type
          Parts,     \* types of its fields; of its element; of its element and key
          Upper,     \* which of them are not behind a lower-case field name
          MaxPath,   \* bound on the paths of a value of a recursive type
          Threads    \* goroutines that encode and decode

\* Every struct has a field gob can send: otherwise Encode() fails, and Call() panics.
ASSUME GraphAssumption ==
    /\ IsFiniteSet(Types)
    /\ Kind \in [Types -> {"struct", "ptr", "list", "map", "basic", "interface"}]
    /\ Parts \in [Types -> Seq(Types)] /\ Upper \in [Types -> Seq(BOOLEAN)]
    /\ \A t \in Types :
        /\ Len(Upper[t]) = Len(Parts[t])
        /\ Kind[t] = "struct" => \E i \in DOMAIN Parts[t] : Upper[t][i]
        /\ Kind[t] # "struct" => \A i \in DOMAIN Parts[t] : Upper[t][i]
        /\ Kind[t] \in {"ptr", "list"} => Len(Parts[t]) = 1
        /\ Kind[t] = "map" => Len(Parts[t]) = 2
        /\ Kind[t] \in {"basic", "interface"} => Len(Parts[t]) = 0
    /\ MaxPath \in Nat

VARIABLES checked,     \* checked: types that are not looked at again
          errorCount,  \* errorCount
          work         \* what each thread inside checkType()/checkDefault() has to do
gobVars == <<checked, errorCount, work>>

Check(t) == [do |-> "check", type |-> t]
Complain == [do |-> "complain"]
Tasks == {Check(t) : t \in Types} \cup {Complain}

GobTypeOK ==
    /\ checked \in SUBSET Types
    /\ errorCount \in Nat
    /\ work \in [Threads -> Seq(Tasks)]

GobInit ==
    /\ checked = {}
    /\ errorCount = 0
    /\ work = [th \in Threads |-> <<>>]

-----------------------------------------------------------------------------
(* Values                                                                  *)

\* The leaves of a value of type t; only those gob transmits, unless lower.
Leaves(lower, t) ==
    LET to[n \in 0 .. MaxPath] == [u \in Types |->
            IF Kind[u] \notin {"struct", "ptr"} THEN {<<>>}
            ELSE IF n = 0 THEN {}
            ELSE UNION {{<<i>> \o p : p \in to[n - 1][Parts[u][i]]} :
                        i \in {j \in DOMAIN Parts[u] : lower \/ Upper[u][j]}}]
    IN  to[MaxPath][t]

GobEncode(t, value) == value \cap Leaves(FALSE, t)
GobDecode(wire, old) == wire \cup old

\* The types on a path from t, and the lower-case fields of them it goes through.
TypesOn(t, p) ==
    LET u[k \in 0 .. Len(p)] == IF k = 0 THEN t ELSE Parts[u[k - 1]][p[k]] IN u
LowerFields(t, p) ==
    LET u == TypesOn(t, p)
    IN  {<<u[k - 1], p[k]>> : k \in {j \in 1 .. Len(p) : ~Upper[u[j - 1]][p[j]]}}

\* checkDefault1() goes down to depth 3, a pointer or a struct at a time, and
\* looks at scalars only.
Reached(t, p) == Len(p) + 1 <= 3 /\ Kind[TypesOn(t, p)[Len(p)]] = "basic"
NonDefault(t, value) == {p \in value : Reached(t, p)}

\* For a scalar behind a lower-case name value.Interface() panics, whatever the
\* scalar is.  (A pointer that close to it is the one that is decoded into.)
Panics(t) == \E p \in Leaves(TRUE, t) \ Leaves(FALSE, t) : Reached(t, p)

-----------------------------------------------------------------------------
(* checkType() and checkDefault()                                          *)

Busy(th) == work[th] # <<>>
Todo(th, tasks) == work' = [work EXCEPT ![th] = tasks]

\* checkValue(), the beginning of Encode() and EncodeValue().
checkValue(th, t) == Todo(th, <<Check(t)>>)

\* Mutant of checkDecode: Decode() does not call checkDefault().
checkDecodeBlind(th, t, old) == Todo(th, <<Check(t)>>)

\* checkValue() and checkDefault(), the beginning of Decode() into old.
checkDecode(th, t, old) ==
    Todo(th, <<Check(t)>> \o [i \in 1 .. Cardinality(NonDefault(t, old)) |-> Complain])

\* What is behind a type, in the order it is looked at.
PartsOf(t) ==
    FlattenSeq([i \in DOMAIN Parts[t] |->
        (IF Upper[t][i] THEN <<>> ELSE <<Complain>>) \o <<Check(Parts[t][i])>>])

\* Mutant of checkType: looks up and marks a type in two critical sections.
checkTypeTwice(th) ==
    /\ Busy(th) /\ Head(work[th]).do = "check"
    /\ LET t == Head(work[th]).type
           pass == t \in checked /\ \A other \in Threads \ {th} : ~Busy(other)
       IN  /\ checked' = checked \cup {t}
           /\ Todo(th, (IF pass THEN <<>> ELSE PartsOf(t)) \o Tail(work[th]))
    /\ UNCHANGED errorCount

\* Under mu a type is found or marked; then, without mu, its parts are next.
checkType(th) ==
    /\ Busy(th) /\ Head(work[th]).do = "check"
    /\ LET t == Head(work[th]).type
       IN  /\ checked' = checked \cup {t}
           /\ Todo(th, (IF t \in checked THEN <<>> ELSE PartsOf(t)) \o Tail(work[th]))
    /\ UNCHANGED errorCount

\* errorCount += 1 under mu, for a lower-case field or a value that is not zero.
complain(th) ==
    /\ Busy(th) /\ Head(work[th]) = Complain
    /\ errorCount' = errorCount + 1
    /\ Todo(th, Tail(work[th]))
    /\ UNCHANGED checked

GobStep(th) == checkType(th) \/ complain(th)

-----------------------------------------------------------------------------
\* Complaints a thread has yet to make, and the lower-case fields of a type.
Pending(th) == Cardinality({i \in DOMAIN work[th] : work[th][i] = Complain})
LowerCase(t) == Cardinality({i \in DOMAIN Upper[t] : ~Upper[t][i]})
=============================================================================
