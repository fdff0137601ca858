------------------------------ MODULE RemotePins ------------------------------
(***************************************************************************)
(* The client's registry of pinned remotes (remotes.json): a list of        *)
(* records, each a name, the pinned key of one store and the keys retired   *)
(* by rotations of the pin.  The endpoint, a locator no check reads, and    *)
(* the advertised names and capabilities are left out.                      *)
(***************************************************************************)
EXTENDS StoreKeys, SequencesExt

CONSTANT Names    \* names a pin may be given, valid ones

EmptyRegistry == <<>>

ActivePin(rec) == [store |-> rec.store, key |-> rec.key, pub |-> rec.pub, end |-> rec.end]

\* Every key a record trusts, the active one first.
Pins(rec) == <<ActivePin(rec)>> \o
    [i \in DOMAIN rec.overlap |->
        [store |-> rec.store, key |-> rec.overlap[i].key,
         pub |-> rec.overlap[i].pub, end |-> rec.overlap[i].end]]

\* The first pin with a key id, the first record of a store: at most one index.
PinOf(rec, key) == {i \in DOMAIN Pins(rec) :
    Pins(rec)[i].key = key /\ \A j \in 1..(i - 1) : Pins(rec)[j].key # key}
RecordOf(reg, s) == {i \in DOMAIN reg :
    reg[i].store = s /\ \A j \in 1..(i - 1) : reg[j].store # s}

\* An assertion verifies under a record, or under the registry.
UnderRecord(rec, a, at) == \E i \in PinOf(rec, a.key) : Verified(a, Pins(rec)[i], at)
UnderPins(reg, a, at) == \E n \in RecordOf(reg, a.ref[1]) : UnderRecord(reg[n], a, at)

Named(reg, name) == {i \in DOMAIN reg : reg[i].name = name}

\* Adding pins the key the descriptor carries, once it is shown to be held.
CanAdd(reg, name, d, at) == Named(reg, name) = {} /\ SelfSigned(d, at)
Added(reg, name, d) ==
    Append(reg, [name |-> name, store |-> d.store, key |-> d.key, pub |-> d.pub,
                 end |-> Forever, overlap |-> <<>>])

Removed(reg, i) == RemoveAt(reg, i)

\* Rotating needs the same store, and a key that this record has not retired.
\* `confirmed' is the public key given out of band, when one is.
CanRotate_Back(rec, d, confirmed, at) ==
    /\ SelfSigned(d, at)
    /\ confirmed \in {NoSignature, d.pub}
    /\ d.store = rec.store
CanRotate(rec, d, confirmed, at) ==
    /\ SelfSigned(d, at)
    /\ confirmed \in {NoSignature, d.pub}
    /\ d.store = rec.store
    /\ \A i \in DOMAIN rec.overlap : rec.overlap[i].key # d.key

\* The same key again leaves the pin alone.
RotatedPin(rec, d, overlap, at) ==
    LET until == at + (IF overlap < 0 THEN 0 ELSE overlap)
    IN  IF d.key = rec.key THEN rec
        ELSE [rec EXCEPT !.key = d.key, !.pub = d.pub, !.end = Forever,
                         !.overlap = Append(@, [key |-> rec.key, pub |-> rec.pub,
                                                end |-> Earliest(rec.end, until)])]
=============================================================================

