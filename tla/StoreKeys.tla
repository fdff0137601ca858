------------------------------ MODULE StoreKeys ------------------------------
(***************************************************************************)
(* Who signed: the keys of a store, the pins a client holds for them, and   *)
(* the verification of descriptors, issue assertions and feed events.       *)
(*                                                                         *)
(* A key id is <<store, ordinal>>.  The key pair generated under it is its  *)
(* material <<store, ordinal, generation>>: an identity file restored from  *)
(* a backup (a new generation) gives the ids after the backup again, to     *)
(* other key pairs.  A signature is the material it verifies under, or      *)
(* NoSignature when it is missing, malformed or of other bytes.             *)
(***************************************************************************)
EXTENDS Integers, Sequences

CONSTANTS
    Stores,         \* stores that publish descriptors and assertions
    RemoteIssues,   \* their issue ids
    Known,          \* the states this version knows (STATUSES)
    States          \* the states a remote may assert

ASSUME StoreKeysAssumption == "closed" \in Known

\* A remote reference names one issue of one store.
Refs == Stores \X RemoteIssues

Forever == -1            \* a key without an end of validity
NoSignature == <<"none">>

Ended(end, at) == end # Forever /\ at >= end
Earliest(a, b) == IF a = Forever \/ (b # Forever /\ b < a) THEN b ELSE a

Key(s, n, g) == [id |-> <<s, n>>, pub |-> <<s, n, g>>, end |-> Forever]

\* A new identity file, of generation g.
NewIdentity(s, g) == [keys |-> <<Key(s, 1, g)>>, active |-> <<s, 1>>, gen |-> g]

ActiveKey(idn) == CHOOSE k \in {idn.keys[i] : i \in DOMAIN idn.keys} : k.id = idn.active

\* rotate: the active key keeps verifying until the overlap ends, a new one signs.
Rotated(s, idn, overlap, at) ==
    LET until == at + (IF overlap < 0 THEN 0 ELSE overlap)
        fresh == Key(s, Len(idn.keys) + 1, idn.gen)
        Retired(k) == IF k.id = idn.active THEN [k EXCEPT !.end = Earliest(@, until)] ELSE k
    IN  [idn EXCEPT !.keys = Append([i \in DOMAIN @ |-> Retired(@[i])], fresh),
                    !.active = fresh.id]

(***************************************************************************)
(* What stores publish.                                                     *)
(***************************************************************************)
DescriptorOf(s, idn) ==
    LET k == ActiveKey(idn) IN [store |-> s, key |-> k.id, pub |-> k.pub, by |-> k.pub]

AssertionOf(r, st, at, idn) ==
    LET k == ActiveKey(idn)
    IN  [ref |-> r, state |-> st, at |-> at, key |-> k.id, by |-> k.pub]

\* The same bytes with a signature that does not verify.
Damaged(x) == [x EXCEPT !.by = NoSignature]

(***************************************************************************)
(* Verification against a pin [store, key, pub, end] at an instant.         *)
(***************************************************************************)
VerifyDescriptor(d, pin, at) ==
    /\ d.store = pin.store
    /\ d.key = pin.key
    /\ d.pub = pin.pub
    /\ ~Ended(pin.end, at)
    /\ d.by = d.pub

\* First contact: whoever served the descriptor holds the key it advertises.
SelfSigned(d, at) ==
    VerifyDescriptor(d, [store |-> d.store, key |-> d.key, pub |-> d.pub, end |-> Forever], at)

\* The first check an assertion fails, in the order of the code.
AssertionVerdict(a, pin, at) ==
    IF a.ref[1] # pin.store         THEN "wrong_store"
    ELSE IF a.key # pin.key         THEN "wrong_key_id"
    ELSE IF Ended(pin.end, at)      THEN "key_retired"
    ELSE IF a.state \notin Known    THEN "unknown_state"
    ELSE IF a.by = NoSignature      THEN "unsigned"
    ELSE IF a.by # pin.pub          THEN "bad_signature"
    ELSE "verified"

Verified_AnyTime(a, pin, at) ==
    AssertionVerdict(a, [pin EXCEPT !.end = Forever], at) = "verified"
Verified(a, pin, at) == AssertionVerdict(a, pin, at) = "verified"
=============================================================================
