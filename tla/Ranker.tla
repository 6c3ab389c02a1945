------------------------------- MODULE Ranker -------------------------------
(***************************************************************************)
(* lab1/ranker/ranker.go: Rank() adds up the products of the coefficients  *)
(* a user and a video share, in the order in which Go happens to walk over *)
(* the map and modulo 2^64, and hashes the sum with a cost that depends on *)
(* it.  Several goroutines rank at once and share nothing.                 *)
(*                                                                         *)
(* Afterwards a hash is damaged or not and handed to the other functions   *)
(* of det_bcrypt.                                                          *)
(***************************************************************************)
EXTENDS DetBcrypt, FiniteSetsExt, Functions

CONSTANTS Rankers,      \* goroutines
          CoeffMaps,    \* coefficients of users and videos: feature -> number
          Modulus,      \* 2^64
          Fnv32         \* int(hasher.Sum32()) of each sum; negative where int has 32 bits

ASSUME RankAssumption == Modulus \in Nat \ {0} /\ Fnv32 \in [0 .. Modulus - 1 -> Int]
\* Maps of a program are finite, and their values unsigned.
ASSUME CoeffsAssumption ==
    \A m \in CoeffMaps : IsFiniteSet(DOMAIN m) /\ \A f \in DOMAIN m : m[f] \in Nat

VARIABLES rankPc, userCoeffs, videoCoeffs, features, dotProduct,
          scoreText,    \* the text whose FNV-64 hash Rank() returns
          hashText      \* that text, perhaps damaged
rankVars == <<rankPc, userCoeffs, videoCoeffs, features, dotProduct, scoreText, hashText>>

NoHash == <<>>

RankInit ==
    /\ rankPc = [r \in Rankers |-> "start"]
    /\ userCoeffs = [r \in Rankers |-> <<>>] /\ videoCoeffs = [r \in Rankers |-> <<>>]
    /\ features = [r \in Rankers |-> {}]
    /\ dotProduct = [r \in Rankers |-> 0]
    /\ scoreText = [r \in Rankers |-> NoHash]
    /\ hashText = [r \in Rankers |-> NoHash]

\* Go's % has the sign of its first operand.
GoMod(a, n) == IF a >= 0 THEN a % n ELSE -((-a) % n)

costHash(id) == GoMod(Fnv32[id], 6 - MinCost) + MinCost

RankCall(r, u, v) ==
    /\ rankPc[r] = "start"
    /\ rankPc' = [rankPc EXCEPT ![r] = "sum"]
    /\ userCoeffs' = [userCoeffs EXCEPT ![r] = u]
    /\ videoCoeffs' = [videoCoeffs EXCEPT ![r] = v]
    /\ features' = [features EXCEPT ![r] = DOMAIN u]
    /\ UNCHANGED <<dotProduct, scoreText, hashText>>

\* Mutant of RankAdd: saturates instead of wrapping around.
RankAddSaturating(r, f) ==
    /\ rankPc[r] = "sum" /\ f \in features[r]
    /\ features' = [features EXCEPT ![r] = @ \ {f}]
    /\ dotProduct' = [dotProduct EXCEPT ![r] =
           IF f \in DOMAIN videoCoeffs[r]
           THEN Min({Modulus - 1, @ + userCoeffs[r][f] * videoCoeffs[r][f]}) ELSE @]
    /\ UNCHANGED <<rankPc, userCoeffs, videoCoeffs, scoreText, hashText>>

\* One iteration of the loop, over features in any order.
RankAdd(r, f) ==
    /\ rankPc[r] = "sum" /\ f \in features[r]
    /\ features' = [features EXCEPT ![r] = @ \ {f}]
    /\ dotProduct' = [dotProduct EXCEPT ![r] =
           IF f \in DOMAIN videoCoeffs[r]
           THEN (@ + userCoeffs[r][f] * videoCoeffs[r][f]) % Modulus ELSE @]
    /\ UNCHANGED <<rankPc, userCoeffs, videoCoeffs, scoreText, hashText>>

\* "%020d" and bcrypt; Rank() returns the FNV-64 hash of the text (of nothing, had
\* there been an error), which is left to FNV.
RankReturn(r) ==
    /\ rankPc[r] = "sum" /\ features[r] = {}
    /\ rankPc' = [rankPc EXCEPT ![r] = "ranked"]
    /\ LET h == GenerateFromPassword(dotProduct[r], costHash(dotProduct[r]))
       IN  /\ scoreText' = [scoreText EXCEPT ![r] = h]
           /\ hashText' = [hashText EXCEPT ![r] = h.val]
    /\ UNCHANGED <<userCoeffs, videoCoeffs, features, dotProduct>>

\* Texts with one part changed, cut off, added or left out.
Damaged(h) ==
    {[h EXCEPT !.first = "?"], [h EXCEPT !.major = 1], [h EXCEPT !.major = 3],
     [h EXCEPT !.minor = NoMinor], [h EXCEPT !.salt.text = Illegal], [h EXCEPT !.salt.text = <<"b">>],
     [h EXCEPT !.hash.text = Illegal], [h EXCEPT !.salt.spare = 1], [h EXCEPT !.hash.spare = 1]} \cup
    {[h EXCEPT !.cost = c] : c \in {NotANumber, 3, 4, 5, 10, 31, 32}} \cup
    {[h EXCEPT !.hash.size = n] : n \in encodedHashSize - 2 .. encodedHashSize + 1}

Damage(r) ==
    /\ rankPc[r] = "ranked" /\ scoreText[r].err = "nil"
    /\ rankPc' = [rankPc EXCEPT ![r] = "damaged"]
    /\ \E h \in Damaged(hashText[r]) : hashText' = [hashText EXCEPT ![r] = h]
    /\ UNCHANGED <<userCoeffs, videoCoeffs, features, dotProduct, scoreText>>

RankNext ==
    \E r \in Rankers :
        \/ \E u, v \in CoeffMaps : RankCall(r, u, v)
        \/ \E f \in features[r] : RankAdd(r, f)
        \/ RankReturn(r) \/ Damage(r)

-----------------------------------------------------------------------------
(* Properties                                                              *)

Ranked(r) == rankPc[r] \in {"ranked", "damaged"}

\* "overflow u64 intentional, as long as it is deterministic": the sum is the dot
\* product modulo 2^64, whatever the order of the walk, and Rank(), which drops the
\* error of GenerateFromPassword, never meets one, whatever FNV returns and however
\* wide int is, so that equal sums, and only they, are hashed from the same text.
RankIsDeterministic ==
    \A r, s \in Rankers : Ranked(r) =>
        /\ dotProduct[r] = MapThenSumSet(LAMBDA f : userCoeffs[r][f] * videoCoeffs[r][f],
                                         DOMAIN userCoeffs[r] \cap DOMAIN videoCoeffs[r]) % Modulus
        /\ scoreText[r].err = "nil"
        /\ Ranked(s) => (scoreText[r] = scoreText[s]) = (dotProduct[r] = dotProduct[s])

\* What CompareHashAndPassword accepts carries the cost, the bytes of the salt (its
\* spare bits may differ) and the whole hash of the password, whatever else is wrong
\* with it; an undamaged text is accepted for its own password only, and Cost()
\* returns what it was made with.
AcceptsOwnPasswordOnly ==
    \A r \in Rankers : Ranked(r) /\ scoreText[r].err = "nil" =>
        /\ rankPc[r] = "ranked" =>
            /\ CompareHashAndPassword(hashText[r], dotProduct[r]) = "nil"
            /\ Cost(hashText[r]) = Is(scoreText[r].val.cost)
        /\ \A pw \in 0 .. Modulus - 1 : CompareHashAndPassword(hashText[r], pw) = "nil" =>
            /\ pw = dotProduct[r]
            /\ hashText[r].cost = scoreText[r].val.cost
            /\ base64Decode(hashText[r].salt) = base64Decode(scoreText[r].val.salt)
            /\ Fit(hashText[r].hash) = scoreText[r].val.hash
=============================================================================
