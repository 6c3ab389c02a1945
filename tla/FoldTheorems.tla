---------------------------- MODULE FoldTheorems ----------------------------
(***************************************************************************)
(* What the folds of the community modules compute, for the proofs about   *)
(* modules that use them.  The induction theorems of the library take an   *)
(* operator, which the provers cannot instantiate; CountUp takes a set     *)
(* instead, and everything here follows from it.                           *)
(***************************************************************************)
EXTENDS Integers, FiniteSetsExt, FiniteSetTheorems, TLAPS

(* Induction over a set of numbers. *)
LEMMA CountUp ==
  ASSUME NEW P, 0 \in P, \A n \in Nat : n \in P => n + 1 \in P
  PROVE  Nat \subseteq P
<1> SUFFICES ASSUME Nat \ P # {} PROVE FALSE
  OBVIOUS
<1> DEFINE T == Nat \ P
<1>1. PICK m \in T : \A y \in T : ~ (<<y, m>> \in OpToRel(<, Nat))
  <2>1. T \subseteq Nat /\ T # {}
    OBVIOUS
  <2> QED
    BY <2>1, NatLessThanWellFounded, WFMin, Zenon
<1>2. \A y \in T : ~ (y < m)
  BY <1>1 DEF OpToRel
<1>3. m \in Nat /\ m # 0 /\ m - 1 \in Nat
  OBVIOUS
<1>4. m - 1 \in P
  BY <1>2, <1>3
<1>5. (m - 1) + 1 \in P
  BY <1>3, <1>4
<1> QED
  BY <1>3, <1>5

(* The image of a finite set is finite. *)
LEMMA ImageFinite ==
  ASSUME NEW S, IsFiniteSet(S), NEW f
  PROVE  IsFiniteSet({f[x] : x \in S})
<1> DEFINE T == {f[x] : x \in S}
           g == [x \in S |-> f[x]]
<1>1. g \in Surjection(S, T)
  BY DEF Surjection
<1> HIDE DEF g, T
<1>2. IsFiniteSet(T)
  BY <1>1, FS_Surjection
<1> QED
  BY <1>2 DEF T

\* g[s] folds the elements of s, in the order in which c picks them, into base.
FoldOf(g, D, c, step, base) ==
    \A s \in SUBSET D : g[s] = IF s = {} THEN base ELSE step[<<c[s], g[s \ {c[s]}]>>]

(* A fold over a finite set is defined. *)
LEMMA FoldExists ==
  ASSUME NEW D, IsFiniteSet(D), NEW A, NEW base \in A,
         NEW c, \A s \in SUBSET D : s # {} => c[s] \in s,
         NEW step, \A x \in D, y \in A : step[<<x, y>>] \in A
  PROVE  \E g \in [SUBSET D -> A] : FoldOf(g, D, c, step, base)
<1> DEFINE Small(n) == {s \in SUBSET D : Cardinality(s) <= n}
           Val(g, s) == IF s = {} THEN base ELSE step[<<c[s], g[s \ {c[s]}]>>]
           Fine(g, n) == g \in [Small(n) -> A] /\ \A s \in Small(n) : g[s] = Val(g, s)
           P == {n \in Nat : \E g : Fine(g, n)}
<1>1. \A s \in SUBSET D : IsFiniteSet(s) /\ Cardinality(s) \in Nat /\ (Cardinality(s) = 0 <=> s = {})
  BY FS_Subset, FS_CardinalityType, FS_EmptySet
<1>2. 0 \in P
  <2>1. Small(0) = {{}}
    BY <1>1
  <2>2. Fine([s \in Small(0) |-> base], 0)
    BY <2>1
  <2> HIDE DEF Fine
  <2>3. \E g : Fine(g, 0)
    BY <2>2
  <2> QED
    BY <2>3
<1>3. ASSUME NEW n \in Nat, n \in P PROVE n + 1 \in P
  <2>1. PICK g : Fine(g, n)
    BY <1>3
  <2> DEFINE h == [s \in Small(n + 1) |-> Val(g, s)]
  <2>2. \A s \in Small(n + 1) : s # {} => c[s] \in D /\ s \ {c[s]} \in Small(n)
    <3> SUFFICES ASSUME NEW s \in Small(n + 1), s # {} PROVE c[s] \in D /\ s \ {c[s]} \in Small(n)
      OBVIOUS
    <3>1. c[s] \in s
      OBVIOUS
    <3>2. Cardinality(s \ {c[s]}) = Cardinality(s) - 1
      BY <1>1, <3>1, FS_RemoveElement
    <3> QED
      BY <1>1, <3>1, <3>2
  <2>3. \A s \in Small(n) : s \in Small(n + 1) /\ h[s] = g[s]
    <3>1. \A s \in Small(n) : s \in Small(n + 1)
      BY <1>1
    <3>2. \A s \in Small(n) : g[s] = Val(g, s)
      BY <2>1
    <3> HIDE DEF Small, Val
    <3> QED
      BY <3>1, <3>2
  <2>4. \A s \in Small(n + 1) : h[s] = Val(h, s)
    <3>1. \A s \in Small(n + 1) : s # {} => h[s \ {c[s]}] = g[s \ {c[s]}]
      BY <2>2, <2>3
    <3> HIDE DEF Small
    <3> QED
      BY <3>1
  <2>5. h \in [Small(n + 1) -> A]
    <3>1. ASSUME NEW s \in Small(n + 1) PROVE Val(g, s) \in A
      <4>1. s # {} => g[s \ {c[s]}] \in A
        BY <2>1, <2>2
      <4> HIDE DEF Small
      <4> QED
        BY <2>2, <4>1
    <3> HIDE DEF Small, Val
    <3> QED
      BY <3>1
  <2>6. Fine(h, n + 1)
    <3> HIDE DEF h, Small, Val
    <3> QED
      BY <2>4, <2>5
  <2> HIDE DEF h, Fine
  <2>7. \E q : Fine(q, n + 1)
    BY <2>6
  <2> QED
    BY <2>7
<1>4. Cardinality(D) \in P
  <2>1. Nat \subseteq P
    BY <1>2, <1>3, CountUp
  <2> QED
    BY <1>1, <2>1
<1>5. Small(Cardinality(D)) = SUBSET D
  BY FS_Subset, <1>1
<1>6. PICK g : Fine(g, Cardinality(D))
  BY <1>4
<1> HIDE DEF Small
<1> QED
  BY <1>5, <1>6 DEF FoldOf

(* A set of indices has a largest one. *)
LEMMA MaxExists ==
  ASSUME NEW N \in Nat, NEW s \in SUBSET (1 .. N), s # {}
  PROVE  Max(s) \in s /\ \A y \in s : Max(s) >= y
<1> DEFINE U == {n \in Nat : \A x \in s : x <= n}
<1>1. N \in U
  OBVIOUS
<1>2. PICK m \in U : \A y \in U : ~ (<<y, m>> \in OpToRel(<, Nat))
  <2>1. U \subseteq Nat /\ U # {}
    BY <1>1
  <2> QED
    BY <2>1, NatLessThanWellFounded, WFMin, Zenon
<1>3. \A y \in U : ~ (y < m)
  BY <1>2 DEF OpToRel
<1>4. m \in s
  <2> SUFFICES ASSUME m \notin s PROVE FALSE
    OBVIOUS
  <2>1. PICK x \in s : TRUE
    OBVIOUS
  <2>2. m >= 1 /\ \A y \in s : y \in Nat /\ y < m
    BY <2>1
  <2>3. m - 1 \in U
    BY <2>2
  <2> QED
    BY <1>3, <2>2, <2>3
<1>5. \E x \in s : \A y \in s : x >= y
  BY <1>4
<1> QED
  BY <1>5 DEF Max

\* g[i] is computed from i and the value before it.
RecurrenceOf(g, N, step, base) ==
    g[0] = base /\ \A i \in 1 .. N : g[i] = step[<<i, g[i - 1]>>]

(* A sequence of values each of which is computed from the one before is defined. *)
LEMMA RecurrenceExists ==
  ASSUME NEW N \in Nat, NEW A, NEW base \in A,
         NEW step, \A i \in 1 .. N, y \in A : step[<<i, y>>] \in A
  PROVE  \E g \in [0 .. N -> A] : RecurrenceOf(g, N, step, base)
<1> DEFINE Fine(g, n) == /\ g \in [0 .. n -> A] /\ g[0] = base
                         /\ \A i \in 1 .. n : g[i] = step[<<i, g[i - 1]>>]
           P == {n \in Nat : n <= N => \E g : Fine(g, n)}
<1>1. 0 \in P
  <2>1. Fine([i \in 0 .. 0 |-> base], 0)
    OBVIOUS
  <2> HIDE DEF Fine
  <2> QED
    BY <2>1
<1>2. ASSUME NEW n \in Nat, n \in P PROVE n + 1 \in P
  <2> SUFFICES ASSUME n + 1 <= N PROVE \E g : Fine(g, n + 1)
    OBVIOUS
  <2>1. PICK g : Fine(g, n)
    BY <1>2
  <2> DEFINE h == [i \in 0 .. n + 1 |-> IF i = n + 1 THEN step[<<n + 1, g[n]>>] ELSE g[i]]
  <2>2. g[n] \in A /\ step[<<n + 1, g[n]>>] \in A
    BY <2>1
  <2>3. \A i \in 0 .. n : h[i] = g[i]
    OBVIOUS
  <2>4. h[n + 1] = step[<<n + 1, g[n]>>]
    OBVIOUS
  <2>5. h \in [0 .. n + 1 -> A]
    BY <2>1, <2>2
  <2> HIDE DEF h
  <2>6. ASSUME NEW i \in 1 .. n + 1 PROVE h[i] = step[<<i, h[i - 1]>>]
    <3>1. CASE i = n + 1
      <4>1. i - 1 = n /\ h[i - 1] = g[n]
        BY <2>3, <3>1
      <4> QED
        BY <2>4, <3>1, <4>1
    <3>2. CASE i # n + 1
      <4>1. i \in 1 .. n /\ i - 1 \in 0 .. n /\ i \in 0 .. n
        BY <3>2
      <4>2. h[i] = g[i] /\ h[i - 1] = g[i - 1] /\ g[i] = step[<<i, g[i - 1]>>]
        BY <2>1, <2>3, <4>1
      <4> QED
        BY <4>2
    <3> QED
      BY <3>1, <3>2
  <2>7. Fine(h, n + 1)
    BY <2>1, <2>3, <2>5, <2>6
  <2> HIDE DEF Fine
  <2> QED
    BY <2>7
<1>3. Nat \subseteq P
  <2> HIDE DEF P
  <2> QED
    BY <1>1, <1>2, CountUp
<1>4. PICK g : Fine(g, N)
  <2> HIDE DEF Fine
  <2> QED
    BY <1>3
<1> QED
  BY <1>4 DEF RecurrenceOf

-----------------------------------------------------------------------------
(* Sums                                                                    *)

\* Any element of a set that has one.
Pick(s) == CHOOSE x \in s : TRUE

\* g adds up the weights of the subsets of D.
SumsOf(g, D, w) ==
  g = [s \in SUBSET D |-> IF s = {} THEN 0 ELSE w[Pick(s)] + g[s \ {Pick(s)}]]

\* MapThenSumSet with a function instead of an operator.
SumOver(w, D) == (CHOOSE g : SumsOf(g, D, w))[D]

(* A set may be added up from any of its elements on. *)
LEMMA SumsAnyOrder ==
  ASSUME NEW D, IsFiniteSet(D), NEW w, \A x \in D : w[x] \in Nat, NEW g, SumsOf(g, D, w)
  PROVE  /\ g[{}] = 0
         /\ \A s \in SUBSET D : g[s] \in Nat /\ \A x \in s : g[s] = w[x] + g[s \ {x}]
<1> DEFINE Good(s) == g[s] \in Nat /\ \A x \in s : g[s] = w[x] + g[s \ {x}]
           P == {n \in Nat : \A s \in SUBSET D : Cardinality(s) <= n => Good(s)}
<1>0. \A s \in SUBSET D : g[s] = IF s = {} THEN 0 ELSE w[Pick(s)] + g[s \ {Pick(s)}]
  BY DEF SumsOf
<1>1. \A s \in SUBSET D : IsFiniteSet(s) /\ Cardinality(s) \in Nat /\ (Cardinality(s) = 0 <=> s = {})
  BY FS_Subset, FS_CardinalityType, FS_EmptySet
<1>2. g[{}] = 0
  BY <1>0
<1>3. 0 \in P
  BY <1>1, <1>2
<1>4. ASSUME NEW n \in Nat, n \in P PROVE n + 1 \in P
  <2> SUFFICES ASSUME NEW s \in SUBSET D, Cardinality(s) <= n + 1 PROVE Good(s)
    OBVIOUS
  <2>1. CASE s = {}
    BY <1>2, <2>1
  <2>2. CASE s # {}
    <3>1. \A x \in s : s \ {x} \in SUBSET D /\ Cardinality(s \ {x}) <= n
      BY <1>1, FS_RemoveElement
    <3>2. \A x \in s : Good(s \ {x})
      BY <1>4, <3>1
    <3>3. Pick(s) \in s /\ g[s] = w[Pick(s)] + g[s \ {Pick(s)}]
      BY <1>0, <2>2 DEF Pick
    <3>4. g[s] \in Nat
      BY <3>2, <3>3
    <3>5. ASSUME NEW x \in s, x # Pick(s) PROVE g[s] = w[x] + g[s \ {x}]
      <4>1. g[s \ {Pick(s)}] = w[x] + g[(s \ {Pick(s)}) \ {x}]
        BY <3>2, <3>3, <3>5
      <4>2. g[s \ {x}] = w[Pick(s)] + g[(s \ {x}) \ {Pick(s)}]
        BY <3>2, <3>3, <3>5
      <4>3. (s \ {x}) \ {Pick(s)} = (s \ {Pick(s)}) \ {x}
        OBVIOUS
      <4>4. (s \ {Pick(s)}) \ {x} \in SUBSET D /\ Cardinality((s \ {Pick(s)}) \ {x}) <= n
        <5>1. s \ {x} \in SUBSET D /\ Pick(s) \in s \ {x}
          BY <3>3, <3>5
        <5>2. Cardinality((s \ {x}) \ {Pick(s)}) = Cardinality(s \ {x}) - 1
          BY <5>1, <1>1, FS_RemoveElement
        <5> QED
          BY <1>1, <3>1, <4>3, <5>1, <5>2
      <4>5. g[(s \ {Pick(s)}) \ {x}] \in Nat
        BY <1>4, <4>4
      <4>6. w[x] \in Nat /\ w[Pick(s)] \in Nat
        BY <3>3
      <4>7. \A p, q, c \in Nat : p + (q + c) = q + (p + c)
        BY ONLY SMT
      <4>8. w[Pick(s)] + (w[x] + g[(s \ {Pick(s)}) \ {x}]) = w[x] + (w[Pick(s)] + g[(s \ {Pick(s)}) \ {x}])
        BY ONLY <4>5, <4>6, <4>7, Zenon
      <4> QED
        BY ONLY <3>3, <4>1, <4>2, <4>3, <4>8, Zenon
    <3> QED
      BY <3>3, <3>4, <3>5
  <2> QED
    BY <2>1, <2>2
<1>5. ASSUME NEW s \in SUBSET D PROVE Good(s)
  <2>1. Nat \subseteq P
    BY <1>3, <1>4, CountUp
  <2>2. Cardinality(s) \in P /\ Cardinality(s) <= Cardinality(s)
    BY <1>1, <2>1
  <2> QED
    BY <2>2
<1> QED
  BY <1>2, <1>5

(* That is what it is. *)
LEMMA SumIs == \A w, D : MapThenSumSet(LAMBDA x : w[x], D) = SumOver(w, D)
  BY DEF MapThenSumSet, MapThenFoldSet, SumOver, SumsOf, Pick

(* There is a function that adds up the weights of the subsets of a finite set. *)
LEMMA SumsExist ==
  ASSUME NEW D, IsFiniteSet(D), NEW w, \A x \in D : w[x] \in Nat
  PROVE  SumsOf(CHOOSE g : SumsOf(g, D, w), D, w)
<1> DEFINE c == [s \in SUBSET D |-> Pick(s)]
           step == [z \in D \X Nat |-> w[z[1]] + z[2]]
<1>1. \A s \in SUBSET D : s # {} => c[s] = Pick(s) /\ c[s] \in s
  BY DEF Pick
<1>2. \A x \in D, n \in Nat : step[<<x, n>>] = w[x] + n /\ step[<<x, n>>] \in Nat
  <2> SUFFICES ASSUME NEW x \in D, NEW n \in Nat
               PROVE  step[<<x, n>>] = w[x] + n /\ step[<<x, n>>] \in Nat
    OBVIOUS
  <2>1. <<x, n>> \in D \X Nat /\ <<x, n>>[1] = x /\ <<x, n>>[2] = n
    OBVIOUS
  <2>2. step[<<x, n>>] = w[x] + n
    BY <2>1
  <2> QED
    BY <2>2
<1>3. PICK g \in [SUBSET D -> Nat] : FoldOf(g, D, c, step, 0)
  <2> HIDE DEF c, step
  <2> QED
    BY <1>1, <1>2, FoldExists
<1>4. ASSUME NEW s \in SUBSET D, s # {} PROVE g[s] = w[Pick(s)] + g[s \ {Pick(s)}]
  <2>1. c[s] = Pick(s) /\ Pick(s) \in D /\ g[s \ {Pick(s)}] \in Nat
    BY <1>1, <1>4
  <2> HIDE DEF c, step
  <2> QED
    BY <1>2, <1>3, <1>4, <2>1 DEF FoldOf
<1>5. g[{}] = 0
  BY <1>3 DEF FoldOf
<1>6. g = [s \in SUBSET D |-> g[s]]
  OBVIOUS
<1>7. SumsOf(g, D, w)
  BY <1>4, <1>5, <1>6 DEF SumsOf
<1> QED
  BY <1>7, Zenon

(* A sum depends on the weights of its elements only. *)
LEMMA SumsAgree ==
  ASSUME NEW D, NEW E, IsFiniteSet(D), NEW w, NEW v, NEW g, NEW h,
         SumsOf(g, D, w), SumsOf(h, E, v), D \subseteq E, \A x \in D : w[x] = v[x]
  PROVE  g[D] = h[D]
<1> DEFINE P == {n \in Nat : \A s \in SUBSET D : Cardinality(s) <= n => g[s] = h[s]}
<1>0. \A s \in SUBSET D : /\ g[s] = IF s = {} THEN 0 ELSE w[Pick(s)] + g[s \ {Pick(s)}]
                          /\ h[s] = IF s = {} THEN 0 ELSE v[Pick(s)] + h[s \ {Pick(s)}]
  BY DEF SumsOf
<1>1. \A s \in SUBSET D : IsFiniteSet(s) /\ Cardinality(s) \in Nat /\ (Cardinality(s) = 0 <=> s = {})
  BY FS_Subset, FS_CardinalityType, FS_EmptySet
<1>2. 0 \in P
  BY <1>0, <1>1
<1>3. ASSUME NEW n \in Nat, n \in P PROVE n + 1 \in P
  <2> SUFFICES ASSUME NEW s \in SUBSET D, Cardinality(s) <= n + 1 PROVE g[s] = h[s]
    OBVIOUS
  <2>1. CASE s = {}
    BY <1>0, <2>1
  <2>2. CASE s # {}
    <3>1. Pick(s) \in s
      BY <2>2 DEF Pick
    <3>2. s \ {Pick(s)} \in SUBSET D /\ Cardinality(s \ {Pick(s)}) <= n
      BY <1>1, <3>1, FS_RemoveElement
    <3>3. g[s \ {Pick(s)}] = h[s \ {Pick(s)}]
      BY <1>3, <3>2
    <3> QED
      BY <1>0, <2>2, <3>1, <3>3
  <2> QED
    BY <2>1, <2>2
<1>4. Nat \subseteq P
  <2> HIDE DEF P
  <2> QED
    BY <1>2, <1>3, CountUp
<1>5. Cardinality(D) \in P /\ Cardinality(D) <= Cardinality(D)
  BY <1>1, <1>4
<1> QED
  BY <1>5

(* Nothing adds up to 0. *)
LEMMA SumEmpty == \A w : SumOver(w, {}) = 0
<1> SUFFICES ASSUME NEW w PROVE SumOver(w, {}) = 0
  OBVIOUS
<1>1. SumsOf(CHOOSE g : SumsOf(g, {}, w), {}, w)
  BY SumsExist, FS_EmptySet
<1> QED
  BY <1>1 DEF SumsOf, SumOver

(* Weights that are the same have the same sum. *)
LEMMA SumSame ==
  ASSUME NEW D, IsFiniteSet(D), NEW w, NEW v, \A x \in D : w[x] \in Nat /\ w[x] = v[x]
  PROVE  SumOver(w, D) = SumOver(v, D)
<1>1. SumsOf(CHOOSE g : SumsOf(g, D, w), D, w) /\ SumsOf(CHOOSE g : SumsOf(g, D, v), D, v)
  BY SumsExist
<1> QED
  BY <1>1, SumsAgree DEF SumOver

(* A sum of numbers is a number, and any element may be taken out of it. *)
LEMMA SumRemove ==
  ASSUME NEW D, IsFiniteSet(D), NEW w, \A x \in D : w[x] \in Nat
  PROVE  SumOver(w, D) \in Nat /\ \A x \in D : SumOver(w, D) = w[x] + SumOver(w, D \ {x})
<1> DEFINE g == CHOOSE g : SumsOf(g, D, w)
<1>1. SumsOf(g, D, w)
  BY SumsExist
<1> HIDE DEF g
<1>2. \A s \in SUBSET D : g[s] \in Nat /\ \A x \in s : g[s] = w[x] + g[s \ {x}]
  BY <1>1, SumsAnyOrder
<1>3. SumOver(w, D) = g[D]
  BY DEF g, SumOver
<1>4. ASSUME NEW x \in D PROVE SumOver(w, D \ {x}) = g[D \ {x}]
  <2> DEFINE E == D \ {x}
             h == CHOOSE h : SumsOf(h, E, w)
  <2>1. E \subseteq D /\ IsFiniteSet(E)
    BY FS_Subset
  <2> HIDE DEF E
  <2>2. SumsOf(h, E, w)
    BY <2>1, SumsExist
  <2> HIDE DEF h
  <2>3. h[E] = g[E]
    BY <1>1, <2>1, <2>2, SumsAgree
  <2> QED
    BY <2>3 DEF E, h, SumOver
<1> QED
  BY <1>2, <1>3, <1>4

(* Changing one weight changes the sum by as much. *)
LEMMA SumChange ==
  ASSUME NEW D, IsFiniteSet(D), NEW w, NEW v, NEW x \in D,
         \A y \in D : w[y] \in Nat /\ v[y] \in Nat /\ (y # x => w[y] = v[y])
  PROVE  SumOver(v, D) + w[x] = SumOver(w, D) + v[x]
<1>1. IsFiniteSet(D \ {x}) /\ \A y \in D \ {x} : w[y] \in Nat /\ w[y] = v[y]
  BY FS_Subset
<1>2. SumOver(w, D \ {x}) = SumOver(v, D \ {x}) /\ SumOver(w, D \ {x}) \in Nat
  BY <1>1, SumSame, SumRemove
<1>3. SumOver(w, D) = w[x] + SumOver(w, D \ {x}) /\ SumOver(v, D) = v[x] + SumOver(v, D \ {x})
  BY SumRemove
<1> QED
  BY <1>2, <1>3

(* One more element adds its weight. *)
LEMMA SumAdd ==
  ASSUME NEW D, IsFiniteSet(D), NEW w, NEW x, x \notin D, \A y \in D \cup {x} : w[y] \in Nat
  PROVE  SumOver(w, D \cup {x}) = SumOver(w, D) + w[x] /\ SumOver(w, D) \in Nat
<1> DEFINE E == D \cup {x}
<1>1. IsFiniteSet(E) /\ x \in E /\ E \ {x} = D
  BY FS_AddElement
<1>2. \A y \in E : w[y] \in Nat
  OBVIOUS
<1> HIDE DEF E
<1>3. SumOver(w, E) = w[x] + SumOver(w, D)
  BY <1>1, <1>2, SumRemove
<1>4. SumOver(w, D) \in Nat
  BY SumRemove
<1>5. w[x] \in Nat
  BY <1>1, <1>2
<1> QED
  BY <1>3, <1>4, <1>5 DEF E

(* Sets that are no larger than their weights cover no more than the sum. *)
LEMMA CoverCount ==
  ASSUME NEW D, IsFiniteSet(D), NEW w, NEW G,
         \A x \in D : w[x] \in Nat /\ IsFiniteSet(G[x]) /\ Cardinality(G[x]) <= w[x]
  PROVE  IsFiniteSet(UNION {G[x] : x \in D}) /\ Cardinality(UNION {G[x] : x \in D}) <= SumOver(w, D)
<1> DEFINE U(s) == UNION {G[x] : x \in s}
           Good(s) == IsFiniteSet(U(s)) /\ Cardinality(U(s)) <= SumOver(w, s)
           P == {n \in Nat : \A s \in SUBSET D : Cardinality(s) <= n => Good(s)}
<1>1. \A s \in SUBSET D : IsFiniteSet(s) /\ Cardinality(s) \in Nat /\ (Cardinality(s) = 0 <=> s = {})
  BY FS_Subset, FS_CardinalityType, FS_EmptySet
<1>2. Good({})
  <2>1. U({}) = {}
    OBVIOUS
  <2> HIDE DEF U
  <2> QED
    BY <2>1, FS_EmptySet, SumEmpty
<1>3. 0 \in P
  <2> HIDE DEF Good
  <2> QED
    BY <1>1, <1>2
<1>4. ASSUME NEW n \in Nat, n \in P PROVE n + 1 \in P
  <2> SUFFICES ASSUME NEW s \in SUBSET D, Cardinality(s) <= n + 1 PROVE Good(s)
    OBVIOUS
  <2>1. CASE s = {}
    BY <1>2, <2>1
  <2>2. CASE s # {}
    <3>1. PICK x \in s : TRUE
      BY <2>2
    <3>2. s \ {x} \in SUBSET D /\ Cardinality(s \ {x}) <= n
      <4>1. IsFiniteSet(s) /\ Cardinality(s) \in Nat
        BY <1>1
      <4>2. Cardinality(s \ {x}) = Cardinality(s) - 1
        BY <3>1, <4>1, FS_RemoveElement
      <4> QED
        BY <4>1, <4>2
    <3>3. Good(s \ {x})
      BY <1>4, <3>2
    <3>4. U(s) = U(s \ {x}) \cup G[x]
      BY <3>1
    <3>5. IsFiniteSet(s) /\ \A y \in s : w[y] \in Nat
      BY <1>1
    <3>6. SumOver(w, s) = w[x] + SumOver(w, s \ {x})
      BY <3>1, <3>5, SumRemove
    <3>7. SumOver(w, s \ {x}) \in Nat
      <4>1. IsFiniteSet(s \ {x}) /\ \A y \in s \ {x} : w[y] \in Nat
        BY <1>1, <3>2, <3>5
      <4> QED
        BY <4>1, SumRemove
    <3>8. IsFiniteSet(G[x]) /\ Cardinality(G[x]) <= w[x] /\ w[x] \in Nat
      BY <3>1
    <3> DEFINE A == U(s \ {x})
    <3>9. IsFiniteSet(A) /\ Cardinality(A) <= SumOver(w, s \ {x})
      BY <3>3
    <3> HIDE DEF U
    <3>10. U(s) = A \cup G[x]
      BY <3>4
    <3> HIDE DEF A
    <3>11. /\ IsFiniteSet(A \cup G[x])
           /\ Cardinality(A \cup G[x]) = Cardinality(A) + Cardinality(G[x]) - Cardinality(A \cap G[x])
      BY <3>8, <3>9, FS_Union
    <3>12. Cardinality(A \cap G[x]) \in Nat /\ Cardinality(A) \in Nat /\ Cardinality(G[x]) \in Nat
      BY <3>8, <3>9, FS_Subset, FS_CardinalityType
    <3> QED
      BY <3>6, <3>7, <3>8, <3>9, <3>10, <3>11, <3>12
  <2> QED
    BY <2>1, <2>2
<1>5. D \in SUBSET D /\ Cardinality(D) \in P /\ Cardinality(D) <= Cardinality(D)
  <2>1. Nat \subseteq P
    <3> HIDE DEF P
    <3> QED
      BY <1>3, <1>4, CountUp
  <2> QED
    BY <1>1, <2>1
<1> QED
  BY <1>5

(* Pairs with the same first element are as many as their second elements. *)
LEMMA PairsCount ==
  ASSUME NEW S, IsFiniteSet(S), NEW a, NEW T, T = {<<a, x>> : x \in S}
  PROVE  IsFiniteSet(T) /\ Cardinality(T) <= Cardinality(S)
<1> DEFINE g == [x \in S |-> <<a, x>>]
<1>1. g \in Surjection(S, T)
  BY DEF Surjection
<1> HIDE DEF g
<1> QED
  BY <1>1, FS_Surjection
=============================================================================
