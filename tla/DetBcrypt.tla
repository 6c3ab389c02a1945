------------------------------ MODULE DetBcrypt ------------------------------
(***************************************************************************)
(* lab1/det_bcrypt/det_bcrypt.go: bcrypt with a constant salt, its textual *)
(* form and the parser of that form.                                       *)
(*                                                                         *)
(* A byte string is what it was made from and its length, where the code   *)
(* depends on it: [text, size].  Its base64 digits may hold more bits than *)
(* its bytes; these are spare.  The cipher (blowfish, external) is opaque: *)
(* what it makes of a password, a cost and a salt is a value that nothing  *)
(* else makes.  A hash in text form is the record of its parts.            *)
(***************************************************************************)
EXTENDS Integers

MinCost == 4
MaxCost == 31
DefaultCost == 10
maxSaltSize == 16
maxCryptedHashSize == 23
encodedSaltSize == 22
encodedHashSize == 31
minHashSize == 59
majorVersion == 2
NoMinor == 0          \* p.minor of a hash without one
minorVersion == 1     \* 'a'
NotANumber == -1      \* two bytes that Atoi() refuses
Illegal == <<"?">>    \* text with a byte that is not of the alphabet

Is(v) == [err |-> "nil", val |-> v]
Fails(e) == [err |-> e, val |-> 0]

\* Without padding: a byte is 8 bits, a digit 6.
base64Encode(src) == [text |-> src.text, size |-> (8 * src.size + 5) \div 6, spare |-> 0]

\* 4 - len % 4 times '=' are appended; the decoder accepts one or two, and does not
\* look at the spare bits (bcEncoding is not Strict()).
base64Decode(src) ==
    IF src.text = Illegal \/ 4 - (src.size % 4) > 2 THEN Fails("base64")
    ELSE Is([text |-> src.text, size |-> (6 * src.size) \div 8])

checkCost(cost) == MinCost <= cost /\ cost <= MaxCost

bcrypt(password, cost, salt) ==
    LET csalt == base64Decode(salt)
    IN  IF csalt.err # "nil" THEN csalt
        ELSE Is(base64Encode([text |-> <<password, cost, csalt.val>>, size |-> maxCryptedHashSize]))

newFromPassword(password, cost) ==
    LET c == IF cost < MinCost THEN DefaultCost ELSE cost
        salt == base64Encode([text |-> <<"a">>, size |-> maxSaltSize])
        hash == bcrypt(password, c, salt)
    IN  IF ~checkCost(c) THEN Fails("cost")
        ELSE IF hash.err # "nil" THEN hash
        ELSE Is([major |-> majorVersion, minor |-> minorVersion, cost |-> c,
                 salt |-> salt, hash |-> hash.val])

\* What fits of p.hash into the 60 bytes of the text.
Fit(hash) == IF hash.size > encodedHashSize THEN [hash EXCEPT !.size = encodedHashSize] ELSE hash

\* "$2a$10$", the minor version being optional, then the salt and the hash.
HashLen(minor, hash) == (IF minor = NoMinor THEN 6 ELSE 7) + encodedSaltSize + hash.size

\* (p *hashed) Hash()
Hash(p) == [first |-> "$", major |-> p.major, minor |-> p.minor, cost |-> p.cost,
            salt |-> p.salt, hash |-> Fit(p.hash)]

\* (p *hashed) decodeVersion(): a hash without a minor version is accepted.
decodeVersion(h) == IF h.first # "$" THEN "prefix" ELSE IF h.major > majorVersion THEN "version" ELSE "nil"

decodeCost(h) == IF h.cost = NotANumber THEN "atoi" ELSE IF ~checkCost(h.cost) THEN "cost" ELSE "nil"

\* The salt is the 22 bytes after the cost and the hash whatever follows.
newFromHash(h) ==
    IF HashLen(h.minor, h.hash) < minHashSize THEN Fails("short")
    ELSE IF decodeVersion(h) # "nil" THEN Fails(decodeVersion(h))
    ELSE IF decodeCost(h) # "nil" THEN Fails(decodeCost(h))
    ELSE Is([major |-> h.major, minor |-> h.minor, cost |-> h.cost,
             salt |-> h.salt, hash |-> h.hash])

GenerateFromPassword(password, cost) ==
    LET p == newFromPassword(password, cost)
    IN  IF p.err # "nil" THEN p ELSE Is(Hash(p.val))

\* Mutant of CompareHashAndPassword: the cost of the hash is not used.
CompareAtDefaultCost(h, password) ==
    LET p == newFromHash(h)
        other == bcrypt(password, DefaultCost, p.val.salt)
    IN  IF p.err # "nil" THEN p.err
        ELSE IF other.err # "nil" THEN other.err
        ELSE IF Hash(p.val) = Hash([p.val EXCEPT !.hash = other.val]) THEN "nil" ELSE "mismatch"

CompareHashAndPassword(h, password) ==
    LET p == newFromHash(h)
        other == bcrypt(password, p.val.cost, p.val.salt)
    IN  IF p.err # "nil" THEN p.err
        ELSE IF other.err # "nil" THEN other.err
        ELSE IF Hash(p.val) = Hash([p.val EXCEPT !.hash = other.val]) THEN "nil" ELSE "mismatch"

Cost(h) == LET p == newFromHash(h) IN IF p.err # "nil" THEN p ELSE Is(p.val.cost)
=============================================================================
