--------------------------- MODULE FederationProofs ---------------------------
(***************************************************************************)
(* The gate of remote dependencies passes work only on the store's word,    *)
(* the two judges of a stored edge agree, and a retired key stays retired,  *)
(* for any number of stores, issues, names, commands and keys.              *)
(***************************************************************************)
EXTENDS Federation, FiniteSetTheorems, SequenceTheorems, TLAPS

----------------------------------------------------------------------------
(* The gate *)

\* An assertion as a store makes it: a record of these fields.
Whole(a) == a = [ref |-> a.ref, state |-> a.state, at |-> a.at, key |-> a.key, by |-> a.by]

SignedInv == \A a \in signed : Whole(a) /\ a.ref \in Refs /\ a.at \in Int

\* A file holds what was published for its own reference.
FileOK(r, file) ==
    \/ file.kind \in {"absent", "unreachable", "damaged"}
    \/ file.kind = "assertion" /\ file.a \in Assertions /\ file.a.ref = r /\ file.at \in Int

CacheInv ==
    /\ cache = [r \in Refs |-> cache[r]]
    /\ \A r \in Refs : FileOK(r, cache[r])

GateInv == now \in Nat /\ SignedInv /\ CacheInv

(* Nothing that was published is forgotten, so files stay what they are. *)
LEMMA FilesStay ==
    ASSUME SignedInv, signed \subseteq signed', NEW r, NEW file, FileOK(r, file)
    PROVE  FileOK(r, file)'
BY DEF FileOK, Assertions

(* Pruning keeps files or drops them. *)
LEMMA WrittenOK ==
    ASSUME CacheInv, NEW q, NEW file, FileOK(q, file), signed' = signed,
           cache' \in Written(cache, q, file)
    PROVE  CacheInv'
<1> DEFINE new == [cache EXCEPT ![q] = file]
<1>1. PICK kept \in SUBSET Files(new) :
          cache' = [r \in Refs |-> IF r \in kept THEN new[r] ELSE NoFile]
  BY DEF Written, Pruned
<1>2. \A r \in Refs : FileOK(r, new[r])
  BY DEF CacheInv
<1>3. \A r \in Refs : FileOK(r, cache'[r])
  BY <1>1, <1>2 DEF FileOK, NoFile
<1>4. Assertions' = Assertions
  BY DEF Assertions
<1> QED BY <1>1, <1>3, <1>4 DEF CacheInv, FileOK

(* At first nothing is signed and nothing is cached. *)
LEMMA GateInit == Init => GateInv
BY DEF Init, GateInv, SignedInv, CacheInv, FileOK, NoFile

(* Signing adds assertions, and the client writes only what it has heard. *)
LEMMA GateStep ==
    ASSUME GateInv, [Next]_vars
    PROVE  GateInv'
<1> USE DEF GateInv
<1>1. ASSUME UNCHANGED <<signed, cache>>, now' \in Nat PROVE GateInv'
  BY <1>1 DEF SignedInv, CacheInv, FileOK, Assertions
<1>2. ASSUME NEW r \in Refs, NEW st \in States, NEW at \in now..(now + Ahead), Sign(r, st, at)
      PROVE  GateInv'
  <2>1. /\ signed' = signed \cup {AssertionOf(r, st, at, identity[r[1]])}
        /\ UNCHANGED <<now, cache>>
    BY <1>2 DEF Sign
  <2>2. SignedInv'
    BY <2>1, FederationAssumption DEF SignedInv, Whole, AssertionOf
  <2>3. CacheInv'
    BY <2>1, FilesStay DEF CacheInv
  <2> QED BY <2>1, <2>2, <2>3
<1>3. ASSUME NEW a \in Assertions, Observe(a) PROVE GateInv'
  <2>1. cache' \in Written(cache, a.ref, Observation(a, now)) /\ UNCHANGED <<now, signed>>
    BY <1>3 DEF Observe, storeVars
  <2>2. FileOK(a.ref, Observation(a, now))
    BY DEF FileOK, Observation
  <2> QED BY <2>1, <2>2, WrittenOK DEF SignedInv
<1>4. ASSUME NEW r \in Refs, NoteUnreachable(r) PROVE GateInv'
  <2>1. cache' \in Written(cache, r, Unreachable(now)) /\ UNCHANGED <<now, signed>>
    BY <1>4 DEF NoteUnreachable, storeVars
  <2>2. FileOK(r, Unreachable(now))
    BY DEF FileOK, Unreachable
  <2> QED BY <2>1, <2>2, WrittenOK DEF SignedInv
<1>5. ASSUME NEW r \in Refs, DamageFile(r) PROVE GateInv'
  <2>1. cache' = [cache EXCEPT ![r] = BadFile(@.at)] /\ UNCHANGED <<now, signed>>
    BY <1>5 DEF DamageFile, storeVars
  <2>2. \A q \in Refs : FileOK(q, cache'[q])
    BY <2>1 DEF CacheInv, FileOK, BadFile
  <2>3. cache' = [q \in Refs |-> cache'[q]]
    BY <2>1 DEF CacheInv
  <2>4. Assertions' = Assertions
    BY <2>1 DEF Assertions
  <2> QED BY <2>1, <2>2, <2>3, <2>4 DEF CacheInv, FileOK, SignedInv
<1>6. ASSUME NEW s \in Stores, RestoreIdentity(s) \/ \E overlap \in Overlaps : RotateKey(s, overlap)
      PROVE  GateInv'
  BY <1>1, <1>6 DEF RestoreIdentity, RotateKey
<1>7. ASSUME NEW p \in Commands,
             \/ Load(p) \/ GiveUp(p)
             \/ \E name \in Names :
                   \/ RemovePin(p, name)
                   \/ \E d \in Descriptors :
                         \/ AddPin(p, name, d)
                         \/ \E overlap \in Overlaps, confirmed \in {NoSignature, d.pub} :
                               RotatePin(p, name, d, confirmed, overlap)
      PROVE  GateInv'
  <2>1. UNCHANGED <<now, signed, cache>>
    BY <1>7 DEF Load, GiveUp, RemovePin, AddPin, RotatePin, Save, storeVars
  <2> QED BY <1>1, <2>1
<1>8. CASE DiscardRegistry
  BY <1>1, <1>8 DEF DiscardRegistry, storeVars
<1>9. ASSUME NEW r \in Refs, AddEdge(r) \/ RemoveEdge(r) PROVE GateInv'
  BY <1>1, <1>9 DEF AddEdge, RemoveEdge, storeVars
<1>10. CASE Tick
  BY <1>1, <1>10 DEF Tick, storeVars
<1>11. CASE UNCHANGED vars
  BY <1>1, <1>11 DEF vars
<1> QED BY <1>2, <1>3, <1>4, <1>5, <1>6, <1>7, <1>8, <1>9, <1>10, <1>11 DEF Next

(* What a fresh view rests on. *)
LEMMA FreshView ==
    ASSUME GateInv, NEW r \in Refs, View(registry, cache, r, now) = "fresh"
    PROVE  /\ cache[r].kind = "assertion"
           /\ UnderPins(registry, cache[r].a, now)
           /\ cache[r].a.at <= cache[r].at + Skew
           /\ cache[r].at >= now - Window
<1>1. FileOK(r, cache[r])
  BY DEF GateInv, CacheInv
<1>2. cache[r].kind = "assertion" /\ cache[r].at \in Int
  BY <1>1 DEF FileOK, View
<1>3. /\ UnderPins(registry, cache[r].a, now)
      /\ InTolerance(cache[r].a, cache[r].at)
      /\ ~(now - cache[r].at > Window)
  BY <1>2 DEF View
<1>4. now \in Nat /\ Window \in Nat
  BY CacheAssumption DEF GateInv
<1> QED BY <1>2, <1>3, <1>4 DEF InTolerance

(* What the cache holds was published for its reference, by a store or by   *)
(* damage on the way, in every state.                                       *)
THEOREM CacheHonest == Spec => []GateInv
BY GateInit, GateStep, PTL DEF Spec

(* Local work passes a remote blocker only on a `closed' its store signed,  *)
(* under a key a pin of now trusts, seen within the freshness window        *)
(* (db.rs:1254 readiness_rows, remote_gate).                                *)
THEOREM Gate == Spec => []GateSound
<1>1. ASSUME GateInv PROVE GateSound
  <2> SUFFICES ASSUME NEW r \in Refs, Satisfied(registry, cache, r, now)
               PROVE  \E a \in signed :
                 /\ a.ref = r /\ a.state = "closed"
                 /\ cache[r].at >= now - Window /\ a.at <= cache[r].at + Skew
                 /\ \E i \in DOMAIN registry : \E j \in DOMAIN Pins(registry[i]) :
                       LET pin == Pins(registry[i])[j]
                       IN  pin.store = r[1] /\ pin.pub = a.by /\ ~Ended(pin.end, now)
    BY DEF GateSound
  <2> DEFINE a == cache[r].a
  <2>1. View(registry, cache, r, now) = "fresh" /\ a.state = "closed"
    BY DEF Satisfied, AssertedState
  <2>2. /\ cache[r].kind = "assertion" /\ UnderPins(registry, a, now)
        /\ a.at <= cache[r].at + Skew /\ cache[r].at >= now - Window
    BY <1>1, <2>1, FreshView
  <2>3. a.ref = r /\ a \in Assertions
    BY <1>1, <2>2 DEF GateInv, CacheInv, FileOK
  <2>4. PICK i \in DOMAIN registry :
            \E j \in DOMAIN Pins(registry[i]) : Verified(a, Pins(registry[i])[j], now)
    BY <2>2 DEF UnderPins, UnderRecord, RecordOf, PinOf
  <2>5. PICK j \in DOMAIN Pins(registry[i]) : Verified(a, Pins(registry[i])[j], now)
    BY <2>4
  <2> DEFINE pin == Pins(registry[i])[j]
  <2>6. pin.store = r[1] /\ ~Ended(pin.end, now) /\ a.by # NoSignature /\ pin.pub = a.by
    BY <2>3, <2>5 DEF Verified, AssertionVerdict
  <2>7. \A b \in signed : Damaged(b).by = NoSignature
    BY <1>1 DEF GateInv, SignedInv, Whole, Damaged
  <2>8. a \in signed
    BY <2>3, <2>6, <2>7 DEF Assertions
  <2> HIDE DEF a
  <2> QED BY <2>1, <2>2, <2>3, <2>6, <2>8
<1> QED BY <1>1, CacheHonest, PTL

----------------------------------------------------------------------------
(* Keys, descriptors and pins *)

KeyNames == Stores \X (Nat \ {0})
KeyPairs == Stores \X (Nat \ {0}) \X Nat

\* The name a key pair was generated under.
NameOf(pub) == <<pub[1], pub[2]>>

OwnKeys == [id : KeyNames, pub : KeyPairs, end : Int]
IdentityOK(idn) ==
    /\ idn = [keys |-> idn.keys, active |-> idn.active, gen |-> idn.gen]
    /\ idn.keys \in Seq(OwnKeys) /\ idn.gen \in Nat
    /\ \A i \in DOMAIN idn.keys : idn.keys[i].id = NameOf(idn.keys[i].pub)
    /\ \E i \in DOMAIN idn.keys : idn.keys[i].id = idn.active

DescriptorOK(d) ==
    /\ d \in [store : Stores, key : KeyNames, pub : KeyPairs, by : KeyPairs \cup {NoSignature}]
    /\ d.key = NameOf(d.pub)

\* A record trusts each key once, and its active key without an end.
OverlapKeys == [key : KeyNames, pub : KeyPairs, end : Int]
Records == [name : Names, store : Stores, key : KeyNames, pub : KeyPairs, end : {Forever},
            overlap : Seq(OverlapKeys)]
RecordOK(rec) ==
    /\ rec \in Records
    /\ rec.key = NameOf(rec.pub)
    /\ \A i \in DOMAIN rec.overlap :
          /\ rec.overlap[i].key = NameOf(rec.overlap[i].pub)
          /\ rec.overlap[i].key # rec.key
          /\ \A j \in DOMAIN rec.overlap : rec.overlap[i].key = rec.overlap[j].key => i = j

RegistryOK(reg) ==
    /\ reg \in Seq(Records)
    /\ \A i \in DOMAIN reg : RecordOK(reg[i])
    /\ \A i, j \in DOMAIN reg : reg[i].name = reg[j].name => i = j

PinsInv ==
    /\ now \in Nat
    /\ identity = [s \in Stores |-> identity[s]] /\ \A s \in Stores : IdentityOK(identity[s])
    /\ \A d \in issued : DescriptorOK(d)
    /\ RegistryOK(registry)
    /\ editing \in [Commands -> [open : BOOLEAN, reg : Seq(Records)]]
    /\ \A p \in Commands : RegistryOK(editing[p].reg)

(* The pins of a record: the active one, then the retired ones in order.    *)
LEMMA PinsOf ==
    ASSUME NEW rec \in Records
    PROVE  /\ DOMAIN Pins(rec) = 1 .. Len(rec.overlap) + 1
           /\ Pins(rec)[1] = ActivePin(rec)
           /\ \A i \in DOMAIN rec.overlap : Pins(rec)[i + 1] =
                 [store |-> rec.store, key |-> rec.overlap[i].key,
                  pub |-> rec.overlap[i].pub, end |-> rec.overlap[i].end]
<1> DEFINE old == [i \in DOMAIN rec.overlap |->
               [store |-> rec.store, key |-> rec.overlap[i].key,
                pub |-> rec.overlap[i].pub, end |-> rec.overlap[i].end]]
           P == [store : Stores, key : KeyNames, pub : KeyPairs, end : Int]
<1>1. rec.overlap \in Seq(OverlapKeys) /\ ActivePin(rec) \in P
  BY DEF Records, ActivePin, Forever
<1>2. old \in Seq(P) /\ Len(old) = Len(rec.overlap)
  <2>1. Len(rec.overlap) \in Nat /\ DOMAIN rec.overlap = 1 .. Len(rec.overlap)
    BY <1>1
  <2>2. \A i \in 1 .. Len(rec.overlap) : rec.overlap[i] \in OverlapKeys
    BY <1>1
  <2>3. \A i \in 1 .. Len(rec.overlap) : old[i] \in P
    BY <2>1, <2>2 DEF Records, OverlapKeys
  <2>4. old = [i \in 1 .. Len(rec.overlap) |-> old[i]]
    BY <2>1
  <2> HIDE DEF old, P
  <2> QED BY <2>1, <2>3, <2>4
<1>3. Pins(rec) = <<ActivePin(rec)>> \o old
  BY DEF Pins
<1> HIDE DEF P
<1>4. /\ DOMAIN Pins(rec) = 1 .. Len(old) + 1
      /\ Pins(rec)[1] = ActivePin(rec)
      /\ \A i \in 1 .. Len(old) : Pins(rec)[i + 1] = old[i]
  <2> HIDE DEF old
  <2> QED BY <1>1, <1>2, <1>3
<1>5. DOMAIN rec.overlap = 1 .. Len(old)
  BY <1>1, <1>2
<1> QED BY <1>2, <1>4, <1>5

(* A pin is the active one or a retired one. *)
LEMMA PinCases ==
    ASSUME NEW rec \in Records, NEW m \in DOMAIN Pins(rec)
    PROVE  \/ Pins(rec)[m] = ActivePin(rec)
           \/ \E i \in DOMAIN rec.overlap : m = i + 1 /\ Pins(rec)[m] =
                 [store |-> rec.store, key |-> rec.overlap[i].key,
                  pub |-> rec.overlap[i].pub, end |-> rec.overlap[i].end]
<1>1. rec.overlap \in Seq(OverlapKeys) /\ m \in 1 .. Len(rec.overlap) + 1
  BY PinsOf DEF Records
<1>2. m = 1 \/ m - 1 \in DOMAIN rec.overlap
  BY <1>1
<1>3. CASE m = 1
  BY <1>3, PinsOf
<1>4. CASE m - 1 \in DOMAIN rec.overlap
  <2>1. m = (m - 1) + 1
    BY <1>1
  <2>2. Pins(rec)[(m - 1) + 1] =
           [store |-> rec.store, key |-> rec.overlap[m - 1].key,
            pub |-> rec.overlap[m - 1].pub, end |-> rec.overlap[m - 1].end]
    BY <1>4, PinsOf
  <2> QED BY <1>4, <2>1, <2>2
<1> QED BY <1>2, <1>3, <1>4

(* A pin that has ended is a retired one. *)
LEMMA EndedCase ==
    ASSUME NEW rec \in Records, NEW m \in DOMAIN Pins(rec), NEW at, Ended(Pins(rec)[m].end, at)
    PROVE  \E i \in DOMAIN rec.overlap : Pins(rec)[m] =
              [store |-> rec.store, key |-> rec.overlap[i].key,
               pub |-> rec.overlap[i].pub, end |-> rec.overlap[i].end]
<1>1. ActivePin(rec).end = Forever
  BY DEF ActivePin, Records
<1>2. Pins(rec)[m] # ActivePin(rec)
  BY <1>1 DEF Ended
<1> QED BY <1>2, PinCases

\* What the pins of a record have retired, those of another do not trust.
KeepsRetired(old, new, at, later) ==
    \A m \in DOMAIN Pins(old), n \in DOMAIN Pins(new) :
        Ended(Pins(old)[m].end, at) /\ Pins(old)[m].pub = Pins(new)[n].pub
            => Ended(Pins(new)[n].end, later)

(* Time does not bring a key back. *)
LEMMA SameRecord ==
    ASSUME NEW rec, RecordOK(rec), NEW at \in Int, NEW later \in Int, later >= at
    PROVE  KeepsRetired(rec, rec, at, later)
<1> SUFFICES ASSUME NEW m \in DOMAIN Pins(rec), NEW n \in DOMAIN Pins(rec),
                    Ended(Pins(rec)[m].end, at), Pins(rec)[m].pub = Pins(rec)[n].pub
             PROVE  Ended(Pins(rec)[n].end, later)
  BY DEF KeepsRetired
<1>1. rec \in Records
  BY DEF RecordOK
<1>2. PICK i \in DOMAIN rec.overlap : Pins(rec)[m] =
         [store |-> rec.store, key |-> rec.overlap[i].key,
          pub |-> rec.overlap[i].pub, end |-> rec.overlap[i].end]
  BY <1>1, EndedCase
<1>3. rec.overlap[i] \in OverlapKeys
  BY <1>1 DEF Records
<1>4. CASE Pins(rec)[n] = ActivePin(rec)
  BY <1>2, <1>4 DEF ActivePin, RecordOK
<1>5. ASSUME NEW k \in DOMAIN rec.overlap, Pins(rec)[n] =
         [store |-> rec.store, key |-> rec.overlap[k].key,
          pub |-> rec.overlap[k].pub, end |-> rec.overlap[k].end]
      PROVE  Ended(Pins(rec)[n].end, later)
  <2>1. k = i
    BY <1>2, <1>5 DEF RecordOK
  <2> QED BY <1>2, <1>3, <1>5, <2>1 DEF Ended, OverlapKeys
<1> QED BY <1>1, <1>4, <1>5, PinCases

(* Rotating a pin keeps what it retired: a key in the overlap is refused,   *)
(* and the key that leaves was not retired yet.                             *)
LEMMA RotatedRecord ==
    ASSUME NEW rec, RecordOK(rec), NEW d, DescriptorOK(d), NEW confirmed, NEW at \in Nat,
           NEW overlap \in Int, CanRotate(rec, d, confirmed, at)
    PROVE  /\ RecordOK(RotatedPin(rec, d, overlap, at))
           /\ RotatedPin(rec, d, overlap, at).name = rec.name
           /\ KeepsRetired(rec, RotatedPin(rec, d, overlap, at), at, at)
<1> DEFINE new == RotatedPin(rec, d, overlap, at)
<1>1. CASE d.key = rec.key
  <2>1. new = rec
    BY <1>1 DEF RotatedPin
  <2> QED BY <2>1, SameRecord
<1>2. CASE d.key # rec.key
  <2>1. rec \in Records /\ rec.overlap \in Seq(OverlapKeys)
    BY DEF RecordOK, Records
  <2>2. PICK until \in Int : new =
           [rec EXCEPT !.key = d.key, !.pub = d.pub, !.end = Forever,
                       !.overlap = Append(@, [key |-> rec.key, pub |-> rec.pub, end |-> until])]
    <3> DEFINE end == Earliest(rec.end, at + (IF overlap < 0 THEN 0 ELSE overlap))
    <3>1. end \in Int
      BY <2>1 DEF Earliest, Records, Forever
    <3>2. new = [rec EXCEPT !.key = d.key, !.pub = d.pub, !.end = Forever,
                   !.overlap = Append(@, [key |-> rec.key, pub |-> rec.pub, end |-> end])]
      BY <1>2 DEF RotatedPin
    <3> HIDE DEF end, new
    <3> QED BY <3>1, <3>2
  <2> DEFINE last == [key |-> rec.key, pub |-> rec.pub, end |-> until]
             n == Len(rec.overlap)
  <2>3. last \in OverlapKeys
    BY <2>1, <2>2 DEF Records, OverlapKeys
  <2>4. /\ new.name = rec.name /\ new.store = rec.store /\ new.key = d.key /\ new.pub = d.pub
        /\ new.end = Forever /\ new.overlap = Append(rec.overlap, last)
    BY <2>1, <2>2 DEF Records
  <2>5. /\ n \in Nat /\ DOMAIN rec.overlap = 1 .. n /\ DOMAIN new.overlap = 1 .. n + 1
        /\ new.overlap[n + 1] = last
        /\ \A i \in 1 .. n : new.overlap[i] = rec.overlap[i]
        /\ new.overlap \in Seq(OverlapKeys)
    <3> HIDE DEF last, new
    <3> QED BY <2>1, <2>3, <2>4
  <2>6. new \in Records
    BY <2>1, <2>2, <2>4, <2>5 DEF Records, DescriptorOK
  <2>7. \A i \in 1 .. n : rec.overlap[i].key # d.key
    BY <2>5 DEF CanRotate
  <2>8. RecordOK(new)
    <3>1. new.key = NameOf(new.pub)
      BY <2>4 DEF DescriptorOK
    <3>2. ASSUME NEW i \in 1 .. n + 1
          PROVE  new.overlap[i].key = NameOf(new.overlap[i].pub) /\ new.overlap[i].key # new.key
      <4>1. i \in 1 .. n \/ i = n + 1
        BY <2>5
      <4> HIDE DEF new
      <4> QED BY <1>2, <2>4, <2>5, <2>7, <4>1 DEF RecordOK
    <3>3. ASSUME NEW i \in 1 .. n + 1, NEW j \in 1 .. n + 1,
                 new.overlap[i].key = new.overlap[j].key
          PROVE  i = j
      <4>1. (i \in 1 .. n \/ i = n + 1) /\ (j \in 1 .. n \/ j = n + 1)
        BY <2>5
      <4>2. \A k \in 1 .. n : new.overlap[k].key # rec.key
        BY <2>5 DEF RecordOK
      <4>3. new.overlap[n + 1].key = rec.key
        BY <2>5
      <4>4. CASE i \in 1 .. n /\ j \in 1 .. n
        <5>1. rec.overlap[i].key = rec.overlap[j].key
          BY <2>5, <3>3, <4>4
        <5> QED BY <2>5, <4>4, <5>1 DEF RecordOK
      <4> HIDE DEF new
      <4> QED BY <3>3, <4>1, <4>2, <4>3, <4>4
    <3> HIDE DEF new
    <3> QED BY <2>5, <2>6, <3>1, <3>2, <3>3 DEF RecordOK
  <2>9. KeepsRetired(rec, new, at, at)
    <3> SUFFICES ASSUME NEW a \in DOMAIN Pins(rec), NEW b \in DOMAIN Pins(new),
                        Ended(Pins(rec)[a].end, at), Pins(rec)[a].pub = Pins(new)[b].pub
                 PROVE  Ended(Pins(new)[b].end, at)
      BY DEF KeepsRetired
    <3> HIDE DEF new
    <3>1. PICK i \in 1 .. n : Pins(rec)[a] =
             [store |-> rec.store, key |-> rec.overlap[i].key,
              pub |-> rec.overlap[i].pub, end |-> rec.overlap[i].end]
      <4> HIDE DEF last, n
      <4> QED BY <2>1, <2>5, EndedCase
    <3>2. CASE Pins(new)[b] = ActivePin(new)
      BY <2>4, <2>5, <2>7, <3>1, <3>2 DEF ActivePin, RecordOK, DescriptorOK
    <3>3. ASSUME NEW k \in 1 .. n + 1, Pins(new)[b] =
             [store |-> new.store, key |-> new.overlap[k].key,
              pub |-> new.overlap[k].pub, end |-> new.overlap[k].end]
          PROVE  Ended(Pins(new)[b].end, at)
      <4>1. k \in 1 .. n \/ k = n + 1
        BY <2>5
      <4>2. k # n + 1
        BY <2>5, <3>1, <3>3 DEF RecordOK
      <4>3. new.overlap[k] = rec.overlap[k] /\ k = i
        <5>1. k \in 1 .. n /\ new.overlap[k] = rec.overlap[k]
          BY <2>5, <4>1, <4>2
        <5>2. rec.overlap[k].pub = rec.overlap[i].pub
          BY <3>1, <3>3, <5>1
        <5>3. rec.overlap[k].key = rec.overlap[i].key
          BY <2>5, <5>1, <5>2 DEF RecordOK
        <5> QED BY <2>5, <5>1, <5>3 DEF RecordOK
      <4> QED BY <3>1, <3>3, <4>3
    <3> QED BY <2>5, <2>6, <3>2, <3>3, PinCases
  <2> QED BY <2>4, <2>8, <2>9
<1> QED BY <1>1, <1>2

\* A change of the registry keeps, under every name, what was retired.
Keeps(reg, new, at, later) ==
    \A i \in DOMAIN reg, j \in DOMAIN new :
        reg[i].name = new[j].name => KeepsRetired(reg[i], new[j], at, later)

(* A registry that is absent, or does not parse, is empty. *)
LEMMA EmptyOK == RegistryOK(EmptyRegistry)
BY DEF RegistryOK, EmptyRegistry

(* A registry left alone keeps what it retired, as time passes. *)
LEMMA SameRegistry ==
    ASSUME NEW reg, RegistryOK(reg), NEW at \in Int, NEW later \in Int, later >= at
    PROVE  Keeps(reg, reg, at, later)
BY SameRecord DEF Keeps, RegistryOK

(* A new name brings one record, and changes no other. *)
LEMMA AddedRegistry ==
    ASSUME NEW reg, RegistryOK(reg), NEW name \in Names, NEW d, DescriptorOK(d),
           NEW at \in Nat, CanAdd(reg, name, d, at)
    PROVE  RegistryOK(Added(reg, name, d)) /\ Keeps(reg, Added(reg, name, d), at, at)
<1> DEFINE rec == [name |-> name, store |-> d.store, key |-> d.key, pub |-> d.pub,
                   end |-> Forever, overlap |-> <<>>]
           new == Added(reg, name, d)
           n == Len(reg)
<1>1. rec \in Records /\ RecordOK(rec)
  BY DEF DescriptorOK, Records, RecordOK
<1>2. reg \in Seq(Records) /\ n \in Nat /\ DOMAIN reg = 1 .. n
  BY DEF RegistryOK
<1>3. /\ new \in Seq(Records) /\ DOMAIN new = 1 .. n + 1 /\ new[n + 1] = rec
      /\ \A i \in 1 .. n : new[i] = reg[i]
  <2>1. new = Append(reg, rec)
    BY DEF Added
  <2> HIDE DEF rec, new
  <2> QED BY <1>1, <1>2, <2>1
<1>4. \A i \in 1 .. n : reg[i].name # name
  BY <1>2 DEF CanAdd, Named
<1>5. \A i \in 1 .. n + 1 : i \in 1 .. n \/ i = n + 1
  BY <1>2
<1>6. rec.name = name
  OBVIOUS
<1>7. RegistryOK(new)
  <2> HIDE DEF rec, new
  <2>1. \A i \in 1 .. n + 1 : RecordOK(new[i])
    BY <1>1, <1>2, <1>3, <1>5 DEF RegistryOK
  <2>2. ASSUME NEW i \in 1 .. n + 1, NEW j \in 1 .. n + 1, new[i].name = new[j].name
        PROVE  i = j
    <3>1. CASE i \in 1 .. n /\ j \in 1 .. n
      <4>1. reg[i].name = reg[j].name
        BY <1>3, <2>2, <3>1
      <4> QED BY <1>2, <3>1, <4>1 DEF RegistryOK
    <3> QED BY <1>3, <1>4, <1>5, <1>6, <2>2, <3>1
  <2> QED BY <1>3, <2>1, <2>2 DEF RegistryOK
<1>8. Keeps(reg, new, at, at)
  <2> HIDE DEF rec, new
  <2> SUFFICES ASSUME NEW i \in 1 .. n, NEW j \in 1 .. n + 1, reg[i].name = new[j].name
               PROVE  KeepsRetired(reg[i], new[j], at, at)
    BY <1>2, <1>3 DEF Keeps
  <2>1. j \in 1 .. n /\ new[j] = reg[j]
    BY <1>3, <1>4, <1>5, <1>6
  <2> QED BY <1>2, <2>1, SameRegistry DEF Keeps
<1> QED BY <1>7, <1>8

(* A removal leaves the other records as they are. *)
LEMMA RemovedRegistry ==
    ASSUME NEW reg, RegistryOK(reg), NEW i \in DOMAIN reg, NEW at \in Nat
    PROVE  RegistryOK(Removed(reg, i)) /\ Keeps(reg, Removed(reg, i), at, at)
<1> DEFINE new == Removed(reg, i)
           n == Len(reg)
           From(k) == IF k < i THEN k ELSE k + 1
           before == SubSeq(reg, 1, i - 1)
           after == SubSeq(reg, i + 1, n)
<1>1. reg \in Seq(Records) /\ n \in Nat /\ DOMAIN reg = 1 .. n /\ i \in 1 .. n
  BY DEF RegistryOK
<1>2. /\ before \in Seq(Records) /\ Len(before) = i - 1
      /\ \A k \in 1 .. i - 1 : before[k] = reg[k]
  BY <1>1
<1>3. /\ after \in Seq(Records) /\ Len(after) = n - i
      /\ \A k \in 1 .. n - i : after[k] = reg[k + i]
  BY <1>1
<1>4. /\ new \in Seq(Records) /\ DOMAIN new = 1 .. n - 1
      /\ \A k \in 1 .. n - 1 : new[k] = reg[From(k)] /\ From(k) \in 1 .. n
  <2>1. new = before \o after
    BY DEF Removed, RemoveAt
  <2> HIDE DEF new, before, after
  <2>2. /\ new \in Seq(Records) /\ Len(new) = n - 1
        /\ \A k \in 1 .. n - 1 : new[k] = IF k <= i - 1 THEN before[k] ELSE after[k - (i - 1)]
    <3>1. Len(before) + Len(after) = n - 1
      BY <1>1, <1>2, <1>3
    <3>2. /\ new \in Seq(Records) /\ Len(new) = Len(before) + Len(after)
          /\ \A k \in 1 .. Len(before) + Len(after) :
                new[k] = IF k <= Len(before) THEN before[k] ELSE after[k - Len(before)]
      BY <1>2, <1>3, <2>1, ConcatProperties
    <3> QED BY <1>2, <3>1, <3>2
  <2>3. ASSUME NEW k \in 1 .. n - 1 PROVE new[k] = reg[From(k)] /\ From(k) \in 1 .. n
    <3>1. CASE k < i
      <4>1. k \in 1 .. i - 1 /\ k <= i - 1
        BY <1>1, <3>1
      <4> QED BY <1>1, <1>2, <2>2, <3>1, <4>1
    <3>2. CASE ~(k < i)
      <4>1. k - (i - 1) \in 1 .. n - i /\ (k - (i - 1)) + i = k + 1 /\ ~(k <= i - 1)
        BY <1>1, <3>2
      <4>2. new[k] = after[k - (i - 1)]
        BY <2>2, <4>1
      <4>3. after[k - (i - 1)] = reg[k + 1]
        BY <1>3, <4>1
      <4> QED BY <1>1, <3>2, <4>2, <4>3
    <3> QED BY <3>1, <3>2
  <2> QED BY <1>1, <2>2, <2>3
<1>5. \A j, k \in 1 .. n - 1 : From(j) = From(k) => j = k
  BY <1>1
<1> HIDE DEF new, From
<1>6. RegistryOK(new)
  <2>1. \A k \in 1 .. n - 1 : RecordOK(new[k])
    BY <1>1, <1>4 DEF RegistryOK
  <2>2. ASSUME NEW j \in 1 .. n - 1, NEW k \in 1 .. n - 1, new[j].name = new[k].name
        PROVE  j = k
    <3>1. From(j) = From(k)
      BY <1>1, <1>4, <2>2 DEF RegistryOK
    <3> QED BY <1>5, <3>1
  <2> QED BY <1>4, <2>1, <2>2 DEF RegistryOK
<1>7. Keeps(reg, new, at, at)
  <2> SUFFICES ASSUME NEW a \in 1 .. n, NEW k \in 1 .. n - 1, reg[a].name = new[k].name
               PROVE  KeepsRetired(reg[a], new[k], at, at)
    BY <1>1, <1>4 DEF Keeps
  <2>1. new[k] = reg[From(k)] /\ From(k) \in 1 .. n
    BY <1>4
  <2>2. Keeps(reg, reg, at, at)
    BY SameRegistry
  <2> QED BY <1>1, <2>1, <2>2 DEF Keeps
<1> QED BY <1>6, <1>7 DEF new

(* A rotation changes the record it names. *)
LEMMA RotatedRegistry ==
    ASSUME NEW reg, RegistryOK(reg), NEW i \in DOMAIN reg, NEW d, DescriptorOK(d),
           NEW confirmed, NEW at \in Nat, NEW overlap \in Int,
           CanRotate(reg[i], d, confirmed, at)
    PROVE  LET new == [reg EXCEPT ![i] = RotatedPin(@, d, overlap, at)]
           IN  RegistryOK(new) /\ Keeps(reg, new, at, at)
<1> DEFINE rec == RotatedPin(reg[i], d, overlap, at)
           new == [reg EXCEPT ![i] = rec]
<1>1. RecordOK(reg[i]) /\ reg \in Seq(Records) /\ DOMAIN reg = 1 .. Len(reg)
  BY DEF RegistryOK
<1>2. RecordOK(rec) /\ rec.name = reg[i].name /\ KeepsRetired(reg[i], rec, at, at)
  BY <1>1, RotatedRecord
<1>3. DOMAIN new = DOMAIN reg /\ \A k \in DOMAIN reg : new[k] = IF k = i THEN rec ELSE reg[k]
  OBVIOUS
<1> HIDE DEF rec
<1>4. new \in Seq(Records)
  BY <1>1, <1>2, ExceptSeq DEF RecordOK
<1> HIDE DEF new
<1>5. RegistryOK(new)
  BY <1>2, <1>3, <1>4 DEF RegistryOK
<1>6. Keeps(reg, new, at, at)
  <2> SUFFICES ASSUME NEW k \in DOMAIN reg, NEW j \in DOMAIN reg, reg[k].name = new[j].name
               PROVE  KeepsRetired(reg[k], new[j], at, at)
    BY <1>3 DEF Keeps
  <2>1. k = j
    BY <1>2, <1>3 DEF RegistryOK
  <2> QED BY <1>2, <1>3, <2>1, SameRegistry DEF Keeps
<1> QED BY <1>5, <1>6 DEF new, rec

----------------------------------------------------------------------------
(* The stores and the registry, step by step *)

(* A new identity file, or one restored, has one key, the active one. *)
LEMMA NewIdentityOK ==
    ASSUME NEW s \in Stores, NEW g \in Nat
    PROVE  IdentityOK(NewIdentity(s, g))
           /\ IdentityOK([NewIdentity(s, 0) EXCEPT !.gen = g])
<1> DEFINE k(h) == [id |-> <<s, 1>>, pub |-> <<s, 1, h>>, end |-> -1]
<1>1. \A h \in Nat : NewIdentity(s, h) = [keys |-> <<k(h)>>, active |-> <<s, 1>>, gen |-> h]
  BY DEF NewIdentity, Key, Forever
<1>2. \A h \in Nat : k(h) \in OwnKeys /\ k(h).id = NameOf(k(h).pub) /\ k(h).id = <<s, 1>>
  BY DEF OwnKeys, KeyNames, KeyPairs, NameOf
<1> HIDE DEF k
<1>3. \A h \in Nat : /\ <<k(h)>> \in Seq(OwnKeys) /\ DOMAIN <<k(h)>> = {1} /\ <<k(h)>>[1] = k(h)
  BY <1>2
<1> QED BY <1>1, <1>2, <1>3 DEF IdentityOK

(* The active key signs what a store publishes. *)
LEMMA PublishedOK ==
    ASSUME NEW s \in Stores, NEW idn, IdentityOK(idn)
    PROVE  DescriptorOK(DescriptorOf(s, idn))
<1>1. ActiveKey(idn) \in {idn.keys[i] : i \in DOMAIN idn.keys}
  BY DEF ActiveKey, IdentityOK
<1>2. ActiveKey(idn) \in OwnKeys /\ ActiveKey(idn).id = NameOf(ActiveKey(idn).pub)
  BY <1>1 DEF IdentityOK
<1> QED BY <1>2 DEF DescriptorOf, DescriptorOK, OwnKeys

(* A rotation adds a key under a name of its own, and activates it. *)
LEMMA RotatedIdentity ==
    ASSUME NEW s \in Stores, NEW idn, IdentityOK(idn), NEW at \in Nat, NEW overlap \in Int
    PROVE  IdentityOK(Rotated(s, idn, overlap, at))
<1> DEFINE until == at + (IF overlap < 0 THEN 0 ELSE overlap)
           n == Len(idn.keys)
           last == Key(s, n + 1, idn.gen)
           Retired(k) == IF k.id = idn.active THEN [k EXCEPT !.end = Earliest(@, until)] ELSE k
           old == [i \in DOMAIN idn.keys |-> Retired(idn.keys[i])]
           new == Rotated(s, idn, overlap, at)
<1>1. idn.keys \in Seq(OwnKeys) /\ n \in Nat /\ DOMAIN idn.keys = 1 .. n /\ idn.gen \in Nat
  BY DEF IdentityOK
<1>2. new = [keys |-> Append(old, last), active |-> last.id, gen |-> idn.gen]
  <2>1. new = [idn EXCEPT !.keys = Append(old, last), !.active = last.id]
    BY DEF Rotated
  <2>2. idn = [keys |-> idn.keys, active |-> idn.active, gen |-> idn.gen]
    BY DEF IdentityOK
  <2> HIDE DEF old, last, new
  <2> QED BY <2>1, <2>2
<1>3. last \in OwnKeys /\ last.id = NameOf(last.pub)
  BY <1>1 DEF Key, OwnKeys, KeyNames, KeyPairs, NameOf, Forever
<1>4. ASSUME NEW i \in 1 .. n
      PROVE  /\ old[i] \in OwnKeys /\ old[i].id = NameOf(old[i].pub)
  <2>1. idn.keys[i] \in OwnKeys /\ idn.keys[i].id = NameOf(idn.keys[i].pub)
    BY <1>1 DEF IdentityOK
  <2>2. Earliest(idn.keys[i].end, until) \in Int
    BY <2>1 DEF Earliest, OwnKeys
  <2>3. old[i] = Retired(idn.keys[i])
    BY <1>1
  <2> HIDE DEF until, old
  <2> QED BY <2>1, <2>2, <2>3 DEF OwnKeys
<1>5. old \in Seq(OwnKeys) /\ Len(old) = n
  <2>1. old = [i \in 1 .. n |-> old[i]]
    BY <1>1
  <2>2. \A i \in 1 .. n : old[i] \in OwnKeys
    BY <1>4
  <2> HIDE DEF old, n
  <2> QED BY <1>1, <2>1, <2>2
<1> HIDE DEF old, last, new
<1>6. /\ new.keys \in Seq(OwnKeys) /\ DOMAIN new.keys = 1 .. n + 1
      /\ new.keys[n + 1] = last /\ \A i \in 1 .. n : new.keys[i] = old[i]
  BY <1>1, <1>2, <1>3, <1>5
<1>7. \A i \in 1 .. n + 1 : i \in 1 .. n \/ i = n + 1
  BY <1>1
<1>8. \A i \in 1 .. n + 1 : new.keys[i].id = NameOf(new.keys[i].pub)
  BY <1>3, <1>4, <1>6, <1>7
<1>9. n + 1 \in 1 .. n + 1 /\ new.active = last.id /\ new.gen = idn.gen
  BY <1>1, <1>2
<1>10. new = [keys |-> new.keys, active |-> new.active, gen |-> new.gen]
  BY <1>2
<1>11. IdentityOK(new)
  BY <1>1, <1>6, <1>8, <1>9, <1>10 DEF IdentityOK
<1> QED BY <1>11 DEF new

(* Damage on the way spoils the signature and nothing else. *)
LEMMA HeardOK ==
    ASSUME PinsInv, NEW d \in Descriptors
    PROVE  DescriptorOK(d)
<1>1. PICK e \in issued : d = e \/ d = Damaged(e)
  BY DEF Descriptors
<1>2. DescriptorOK(e)
  BY DEF PinsInv
<1> QED BY <1>1, <1>2 DEF Damaged, DescriptorOK

(* The copy a command holds was a registry. *)
LEMMA HeldOK ==
    ASSUME PinsInv, NEW p \in Commands
    PROVE  RegistryOK(Held(p))
BY DEF PinsInv, Held

(* What a save changes, given what it saves. *)
LEMMA SaveStep ==
    ASSUME PinsInv, NEW p \in Commands, NEW reg, RegistryOK(reg), Save(p, reg),
           Keeps(Held(p), reg, now, now)
    PROVE  PinsInv' /\ (Overtaken \/ Keeps(registry, registry', now, now'))
<1>1. /\ editing' = [editing EXCEPT ![p] = NotEditing]
      /\ registry' = reg \/ registry' = EmptyRegistry
      /\ UNCHANGED <<now, identity, issued>>
  BY DEF Save, storeVars
<1>2. NotEditing \in [open : BOOLEAN, reg : Seq(Records)] /\ NotEditing.reg = EmptyRegistry
      /\ NotEditing.open = FALSE
  BY DEF NotEditing, EmptyRegistry
<1>3. PinsInv'
  BY <1>1, <1>2, EmptyOK DEF PinsInv
<1>4. Overtaken \/ Held(p) = registry
  BY <1>1, <1>2 DEF PinsInv, Overtaken, Held
<1>5. Keeps(registry, EmptyRegistry, now, now)
  BY DEF Keeps, EmptyRegistry
<1> QED BY <1>1, <1>3, <1>4, <1>5

(* At first every store has one key, and no pin exists. *)
LEMMA PinsInit == Init => PinsInv
<1> SUFFICES ASSUME Init PROVE PinsInv
  OBVIOUS
<1>1. \A s \in Stores : IdentityOK(identity[s])
  BY NewIdentityOK DEF Init
<1>2. \A d \in issued : DescriptorOK(d)
  BY <1>1, PublishedOK DEF Init
<1>3. \A q \in Commands : editing[q] = NotEditing
  BY DEF Init
<1>4. NotEditing \in [open : BOOLEAN, reg : Seq(Records)] /\ NotEditing.reg = EmptyRegistry
  BY DEF NotEditing, EmptyRegistry
<1> QED BY <1>1, <1>2, <1>3, <1>4, EmptyOK DEF Init, PinsInv

(* Every step keeps the shape of keys and pins, and what is retired unless
   a stale copy is written back. *)
LEMMA PinsStep ==
    ASSUME PinsInv, [Next]_vars
    PROVE  PinsInv' /\ (Overtaken \/ Keeps(registry, registry', now, now'))
<1> USE DEF PinsInv
<1>1. Keeps(registry, registry, now, now)
  BY SameRegistry
<1>2. ASSUME UNCHANGED <<now, identity, issued, registry, editing>>
      PROVE  PinsInv' /\ Keeps(registry, registry', now, now')
  BY <1>1, <1>2
<1>3. ASSUME NEW s \in Stores, NEW overlap \in Overlaps, RotateKey(s, overlap)
      PROVE  PinsInv' /\ Keeps(registry, registry', now, now')
  <2>1. /\ identity' = [identity EXCEPT ![s] = Rotated(s, @, overlap, now)]
        /\ issued' = issued \cup {DescriptorOf(s, identity'[s])}
        /\ UNCHANGED <<now, registry, editing>>
    BY <1>3 DEF RotateKey, pinVars
  <2>2. IdentityOK(identity'[s])
    BY <2>1, RotatedIdentity, FederationAssumption
  <2>3. DescriptorOK(DescriptorOf(s, identity'[s]))
    BY <2>2, PublishedOK
  <2> QED BY <1>1, <2>1, <2>2, <2>3
<1>4. ASSUME NEW s \in Stores, RestoreIdentity(s)
      PROVE  PinsInv' /\ Keeps(registry, registry', now, now')
  <2>1. /\ identity' = [identity EXCEPT ![s] = [NewIdentity(s, 0) EXCEPT
                                                   !.gen = identity[s].gen + 1]]
        /\ UNCHANGED <<now, issued, registry, editing>>
    BY <1>4 DEF RestoreIdentity, pinVars
  <2>2. identity[s].gen + 1 \in Nat
    BY DEF IdentityOK
  <2>3. IdentityOK(identity'[s])
    BY <2>1, <2>2, NewIdentityOK
  <2> QED BY <1>1, <2>1, <2>3
<1>5. ASSUME NEW p \in Commands, Load(p) \/ GiveUp(p)
      PROVE  PinsInv' /\ Keeps(registry, registry', now, now')
  <2>1. PICK e : /\ editing' = [editing EXCEPT ![p] = e]
                 /\ e = NotEditing \/ e = [open |-> TRUE, reg |-> registry]
                 /\ UNCHANGED <<now, identity, issued, registry>>
    BY <1>5 DEF Load, GiveUp, storeVars
  <2>2. e \in [open : BOOLEAN, reg : Seq(Records)] /\ RegistryOK(e.reg)
    <3>1. CASE e = NotEditing
      BY <3>1, EmptyOK DEF NotEditing, EmptyRegistry
    <3>2. CASE e = [open |-> TRUE, reg |-> registry]
      BY <3>2 DEF RegistryOK
    <3> QED BY <2>1, <3>1, <3>2
  <2> QED BY <1>1, <2>1, <2>2
<1>6. ASSUME NEW p \in Commands, NEW name \in Names, RemovePin(p, name)
      PROVE  PinsInv' /\ (Overtaken \/ Keeps(registry, registry', now, now'))
  <2>1. PICK i \in DOMAIN Held(p) : Save(p, Removed(Held(p), i))
    BY <1>6 DEF RemovePin, Named
  <2> QED BY <2>1, HeldOK, RemovedRegistry, SaveStep
<1>7. ASSUME NEW p \in Commands, NEW name \in Names, NEW d \in Descriptors, AddPin(p, name, d)
      PROVE  PinsInv' /\ (Overtaken \/ Keeps(registry, registry', now, now'))
  BY <1>7, HeldOK, HeardOK, AddedRegistry, SaveStep DEF AddPin
<1>8. ASSUME NEW p \in Commands, NEW name \in Names, NEW d \in Descriptors,
             NEW overlap \in Overlaps, NEW confirmed, RotatePin(p, name, d, confirmed, overlap)
      PROVE  PinsInv' /\ (Overtaken \/ Keeps(registry, registry', now, now'))
  <2>1. PICK i \in DOMAIN Held(p) :
           /\ CanRotate(Held(p)[i], d, confirmed, now)
           /\ Save(p, [Held(p) EXCEPT ![i] = RotatedPin(@, d, overlap, now)])
    BY <1>8 DEF RotatePin, Named
  <2>2. DescriptorOK(d) /\ RegistryOK(Held(p)) /\ overlap \in Int
    BY HeardOK, HeldOK, FederationAssumption
  <2>3. LET new == [Held(p) EXCEPT ![i] = RotatedPin(@, d, overlap, now)]
        IN  RegistryOK(new) /\ Keeps(Held(p), new, now, now)
    BY <2>1, <2>2, RotatedRegistry
  <2> QED BY <2>1, <2>3, SaveStep
<1>9. CASE Tick
  <2>1. now' = now + 1 /\ UNCHANGED <<identity, issued, registry, editing>>
    BY <1>9 DEF Tick, storeVars, pinVars
  <2>2. Keeps(registry, registry, now, now + 1)
    BY SameRegistry
  <2> QED BY <2>1, <2>2
<1>10. ASSUME NEW r \in Refs,
              \/ NoteUnreachable(r) \/ DamageFile(r) \/ AddEdge(r) \/ RemoveEdge(r)
              \/ \E st \in States, at \in now..(now + Ahead) : Sign(r, st, at)
       PROVE  PinsInv' /\ Keeps(registry, registry', now, now')
  BY <1>2, <1>10 DEF NoteUnreachable, DamageFile, AddEdge, RemoveEdge, Sign, storeVars, pinVars
<1>11. CASE \/ DiscardRegistry \/ UNCHANGED vars \/ \E a \in Assertions : Observe(a)
  BY <1>2, <1>11 DEF DiscardRegistry, Observe, vars, storeVars, pinVars
<1> QED
  BY <1>3, <1>4, <1>5, <1>6, <1>7, <1>8, <1>9, <1>10, <1>11 DEF Next

(* Keys are named after the pair generated under them, a record trusts each *)
(* key once, and its active one without an end, in every state.             *)
THEOREM PinsHonest == Spec => []PinsInv
<1>1. PinsInv /\ [Next]_vars => PinsInv'
  BY PinsStep
<1> QED BY <1>1, PinsInit, PTL DEF Spec

(* A key whose overlap ended under a pin is not trusted by that pin again,  *)
(* unless a command writes back a copy others have overtaken                *)
(* (RemoteRegistry::rotate, identity.rs:859).                               *)
THEOREM Retired == Spec => RetiredStays
<1>1. PinsInv /\ [Next]_vars => [~Overtaken => RetiredStep]_vars
  BY PinsStep DEF Keeps, KeepsRetired, RetiredStep
<1> QED BY <1>1, PinsHonest, PTL DEF Spec, RetiredStays

----------------------------------------------------------------------------
(* The two judges of a stored edge *)

(* One record judges a store's assertions, and one pin of it. *)
LEMMA OneRecord ==
    ASSUME NEW reg, RegistryOK(reg), NEW s, NEW n \in RecordOf(reg, s)
    PROVE  RecordOf(reg, s) = {n}
<1>1. DOMAIN reg = 1 .. Len(reg) /\ Len(reg) \in Nat
  BY DEF RegistryOK
<1>2. ASSUME NEW m \in RecordOf(reg, s) PROVE m = n
  <2>1. m \in 1 .. Len(reg) /\ n \in 1 .. Len(reg) /\ reg[m].store = s /\ reg[n].store = s
    BY <1>1 DEF RecordOf
  <2>2. /\ m < n => m \in 1 .. (n - 1)
        /\ n < m => n \in 1 .. (m - 1)
    BY <2>1
  <2>3. ~(m < n) /\ ~(n < m)
    BY <2>1, <2>2 DEF RecordOf
  <2> QED BY <2>1, <2>3
<1> QED BY <1>2

(* A record has at most one first pin of a name. *)
LEMMA OnePin ==
    ASSUME NEW rec \in Records, NEW key, NEW n \in PinOf(rec, key)
    PROVE  PinOf(rec, key) = {n}
<1>1. DOMAIN Pins(rec) = 1 .. Len(rec.overlap) + 1 /\ Len(rec.overlap) \in Nat
  BY PinsOf DEF Records
<1>2. ASSUME NEW m \in PinOf(rec, key) PROVE m = n
  <2>1. /\ m \in 1 .. Len(rec.overlap) + 1 /\ n \in 1 .. Len(rec.overlap) + 1
        /\ Pins(rec)[m].key = key /\ Pins(rec)[n].key = key
    BY <1>1 DEF PinOf
  <2>2. /\ m < n => m \in 1 .. (n - 1)
        /\ n < m => n \in 1 .. (m - 1)
    BY <1>1, <2>1
  <2>3. ~(m < n) /\ ~(n < m)
    BY <2>1, <2>2 DEF PinOf
  <2> QED BY <1>1, <2>1, <2>3
<1> QED BY <1>2

(* The freshness shown for a stored edge and its audit receipt agree, on    *)
(* whatever the registry has become since (remote_dependency_freshness,     *)
(* audit_receipt).                                                          *)
THEOREM Judges == Spec => []AuditAgrees
<1>1. ASSUME RegistryOK(registry) PROVE AuditAgrees
  <2> SUFFICES ASSUME NEW edge, NEW at
               PROVE  LET shown == EdgeFreshness(registry, edge, at)
                          audit == EdgeAudit(registry, edge, at)
                      IN  /\ shown = "fresh" <=> audit = "verified"
                          /\ shown = "stale" <=> audit = "stale"
    BY DEF AuditAgrees
  <2> DEFINE recs == RecordOf(registry, edge.a.ref[1])
             late == at - edge.at > Window
  <2>1. CASE recs = {}
    BY <2>1 DEF EdgeFreshness, EdgeAudit, UnderPins
  <2>2. ASSUME NEW n \in recs
        PROVE  LET shown == EdgeFreshness(registry, edge, at)
                   audit == EdgeAudit(registry, edge, at)
               IN  /\ shown = "fresh" <=> audit = "verified"
                   /\ shown = "stale" <=> audit = "stale"
    <3> DEFINE rec == registry[n]
               pins == PinOf(rec, edge.a.key)
    <3>1. recs = {n} /\ rec \in Records
      BY <1>1, OneRecord DEF RecordOf, RegistryOK, RecordOK
    <3>2. (CHOOSE k \in recs : TRUE) = n
      BY <3>1
    <3>3. CASE pins = {}
      <4>1. ~UnderPins(registry, edge.a, at)
        BY <3>1, <3>3 DEF UnderPins, UnderRecord
      <4>2. EdgeAudit(registry, edge, at) = "wrong_key"
        BY <3>1, <3>2, <3>3 DEF EdgeAudit
      <4> QED BY <4>1, <4>2 DEF EdgeFreshness
    <3>4. ASSUME NEW i \in pins
          PROVE  LET shown == EdgeFreshness(registry, edge, at)
                     audit == EdgeAudit(registry, edge, at)
                 IN  /\ shown = "fresh" <=> audit = "verified"
                     /\ shown = "stale" <=> audit = "stale"
      <4>1. pins = {i} /\ (CHOOSE k \in pins : TRUE) = i
        BY <3>1, OnePin
      <4>2. UnderPins(registry, edge.a, at) <=> Verified(edge.a, Pins(rec)[i], at)
        BY <3>1, <4>1 DEF UnderPins, UnderRecord
      <4>3. EdgeAudit(registry, edge, at) =
              LET verdict == AssertionVerdict(edge.a, Pins(rec)[i], at)
              IN  IF verdict = "wrong_store" THEN "wrong_store"
                  ELSE IF verdict \in {"wrong_key_id", "key_retired"} THEN "wrong_key"
                  ELSE IF verdict # "verified" THEN "forged_signature"
                  ELSE IF late THEN "stale"
                  ELSE "verified"
        BY <3>1, <3>2, <4>1 DEF EdgeAudit
      <4> QED BY <4>2, <4>3 DEF EdgeFreshness, Verified
    <3> QED BY <3>3, <3>4
  <2> QED BY <2>1, <2>2
<1> QED BY <1>1, PinsHonest, PTL DEF PinsInv

----------------------------------------------------------------------------
(* What the cache forgets *)

\* There are at most MaxEntries files, and none is from the future.
AgeInv ==
    /\ now \in Nat /\ broken \in Nat
    /\ cache = [r \in Refs |-> cache[r]]
    /\ IsFiniteSet(Files(cache)) /\ Cardinality(Files(cache)) <= MaxEntries
    /\ \A r \in Refs : cache[r].kind # "absent" => cache[r].at \in 0..now

\* What LastKnownKept asks of the replacement.
Vouched(file, q) ==
    file.a.ref = q /\ \E i \in DOMAIN registry : CanRecord(registry[i], file.a, now)

(* A write of a file of now keeps the ages and the bound, and forgets only  *)
(* what is oldest in a full cache, to make room for the new file.           *)
LEMMA WrittenAges ==
    ASSUME AgeInv, NEW q \in Refs, NEW file, file.kind # "absent", file.at = now,
           now' = now, broken' = broken, cache' \in Written(cache, q, file),
           cache[q].kind = "assertion" => file.kind = "assertion" /\ Vouched(file, q)
    PROVE  AgeInv' /\ \A r \in Refs : cache[r].kind = "assertion" => KeptOrReplaced(r)
<1> DEFINE new == [cache EXCEPT ![q] = file]
           full == Files(new)
<1>0. now \in Nat /\ broken \in Nat /\ MaxEntries \in Nat \ {0}
  BY CacheAssumption DEF AgeInv
<1>1. /\ new = [r \in Refs |-> new[r]] /\ new[q] = file
      /\ \A r \in Refs : r # q => new[r] = cache[r]
  BY DEF AgeInv
<1>2. IsFiniteSet(full) /\ Cardinality(full) \in Nat
  <2>1. IsFiniteSet(Files(cache) \cup {q})
    BY FS_AddElement DEF AgeInv
  <2>2. full \subseteq Files(cache) \cup {q}
    BY <1>1 DEF Files
  <2> HIDE DEF full
  <2>3. IsFiniteSet(full)
    BY <2>1, <2>2, FS_Subset
  <2> QED BY <2>3, FS_CardinalityType
<1>3. PICK kept \in SUBSET full :
         /\ Cardinality(kept) = IF Cardinality(full) <= MaxEntries
                                THEN Cardinality(full) ELSE MaxEntries
         /\ \A r \in kept : \A o \in full \ kept : new[r].at >= new[o].at
         /\ cache' = [r \in Refs |-> IF r \in kept THEN new[r] ELSE NoFile]
  BY DEF Written, Pruned
<1>4. kept # full => Cardinality(kept) = MaxEntries
  <2> HIDE DEF full
  <2> QED BY <1>2, <1>3, FS_Subset
<1>5. \A r \in Refs : new[r].kind # "absent" => new[r].at \in 0..now
  BY <1>0, <1>1 DEF AgeInv
<1>6. \A r \in Refs : cache'[r] = IF r \in kept THEN new[r] ELSE NoFile
  BY <1>3
<1>7. kept \subseteq Refs /\ \A r \in kept : new[r].kind # "absent"
  BY <1>3 DEF Files
<1>8. Files(cache') = kept
  BY <1>6, <1>7 DEF Files, NoFile
<1>9. IsFiniteSet(kept) /\ Cardinality(kept) <= MaxEntries
  <2> HIDE DEF full
  <2> QED BY <1>0, <1>2, <1>3, FS_Subset
<1>10. AgeInv'
  <2>1. cache' = [r \in Refs |-> cache'[r]]
    BY <1>3
  <2>2. \A r \in Refs : cache'[r].kind # "absent" => cache'[r].at \in 0..now
    BY <1>5, <1>6 DEF NoFile
  <2> QED BY <1>0, <1>8, <1>9, <2>1, <2>2 DEF AgeInv
<1>11. full \subseteq Files(cache) \cup {q} /\ Files(cache) \subseteq full /\ q \in full
  BY <1>1 DEF Files
(* A full cache only gives way to a file that was not there. *)
<1>12. ASSUME NEW r \in Files(cache), r \notin kept PROVE q \in kept /\ q \notin Files(cache)
  <2> DEFINE old == Files(cache)
  <2>1. IsFiniteSet(old) /\ Cardinality(old) <= MaxEntries /\ Cardinality(old) \in Nat
    BY FS_CardinalityType DEF AgeInv
  <2>2. kept # full /\ Cardinality(kept) = MaxEntries /\ kept \subseteq full
    BY <1>3, <1>4, <1>11, <1>12
  <2> HIDE DEF full, old
  <2>3. old \subseteq full /\ full \subseteq old \cup {q} /\ r \in old
    BY <1>11, <1>12 DEF old
  <2>4. q \notin old
    <3>1. SUFFICES ASSUME q \in old PROVE FALSE
      OBVIOUS
    <3>2. full = old
      BY <2>3, <3>1
    <3> QED BY <1>0, <1>3, <2>1, <2>2, <3>2, FS_Subset
  <2>5. q \in kept
    <3>1. SUFFICES ASSUME q \notin kept PROVE FALSE
      OBVIOUS
    <3>2. kept \subseteq old \ {r}
      BY <1>12, <2>2, <2>3, <3>1
    <3>3. IsFiniteSet(old \ {r}) /\ Cardinality(old \ {r}) = Cardinality(old) - 1
      BY <2>1, <2>3, FS_RemoveElement
    <3>4. Cardinality(kept) <= Cardinality(old \ {r})
      BY <3>2, <3>3, FS_Subset
    <3> QED BY <1>0, <2>1, <2>2, <3>3, <3>4
  <2> QED BY <2>4, <2>5 DEF old
<1>13. ASSUME NEW r \in Refs, cache[r].kind = "assertion" PROVE KeptOrReplaced(r)
  <2>1. CASE r \in kept /\ r = q
    <3>1. cache'[r] = file /\ file.kind = "assertion" /\ Vouched(file, r)
      BY <1>1, <1>6, <1>13, <2>1
    <3> QED BY <3>1 DEF KeptOrReplaced, Vouched
  <2>2. CASE r \in kept /\ r # q
    BY <1>1, <1>6, <2>2 DEF KeptOrReplaced
  <2>3. CASE r \notin kept
    <3>1. r \in Files(cache) /\ r \in full /\ cache'[r] = NoFile
      BY <1>6, <1>11, <1>13, <2>3 DEF Files
    <3>2. q \in Files(cache') /\ q \notin Files(cache)
      BY <1>8, <1>12, <2>3, <3>1
    <3>3. Cardinality(Files(cache')) = MaxEntries
      BY <1>4, <1>8, <2>3, <3>1
    <3>4. cache[r].at \in 0..now /\ new[r].at = cache[r].at
      BY <1>1, <1>13, <3>1, <3>2 DEF AgeInv
    <3>5. ASSUME NEW o \in kept PROVE cache'[o].at >= cache[r].at
      <4>1. cache'[o] = new[o] /\ new[o].at \in 0..now
        BY <1>5, <1>6, <1>7
      <4>2. new[o].at >= new[r].at
        BY <1>3, <2>3, <3>1
      <4> HIDE DEF new
      <4> QED BY <1>0, <3>4, <4>1, <4>2
    <3> QED BY <1>8, <3>1, <3>2, <3>3, <3>5 DEF KeptOrReplaced
  <2> QED BY <2>1, <2>2, <2>3
<1> QED BY <1>10, <1>13

(* At first there is no file. *)
LEMMA AgeInit == Init => AgeInv
<1> SUFFICES ASSUME Init PROVE AgeInv
  OBVIOUS
<1>1. /\ cache = [r \in Refs |-> cache[r]]
      /\ \A r \in Refs : cache[r].kind = "absent"
  BY DEF Init, NoFile
<1>2. Files(cache) = {}
  BY <1>1 DEF Files
<1>3. IsFiniteSet(Files(cache)) /\ Cardinality(Files(cache)) <= MaxEntries
  BY <1>2, FS_EmptySet, CacheAssumption
<1> QED BY <1>1, <1>3 DEF Init, AgeInv

(* Every step keeps the ages, and what was verified. *)
LEMMA AgeStep ==
    ASSUME AgeInv, GateInv, [Next]_vars
    PROVE  AgeInv' /\ \A r \in Refs : cache[r].kind = "assertion" => KeptOrReplaced(r)
<1> DEFINE Kept == \A r \in Refs : cache[r].kind = "assertion" => KeptOrReplaced(r)
           Good == AgeInv' /\ Kept
<1>0. now \in Nat /\ broken \in Nat
  BY DEF AgeInv
<1>1. ASSUME cache' = cache, broken' \in Nat, now' \in {now, now + 1} PROVE Good
  <2>1. Kept
    BY <1>1 DEF KeptOrReplaced
  <2>2. now' \in Nat /\ now' >= now
    BY <1>0, <1>1
  <2>3. \A r \in Refs : cache[r].kind # "absent" => cache[r].at \in 0..now'
    BY <1>0, <2>2 DEF AgeInv
  <2> QED BY <1>1, <2>1, <2>2, <2>3 DEF AgeInv
<1>2. ASSUME NEW a \in Assertions, Observe(a) PROVE Good
  <2>1. /\ cache' \in Written(cache, a.ref, Observation(a, now)) /\ UNCHANGED <<now, broken>>
    BY <1>2 DEF Observe
  <2>2. /\ Observation(a, now).kind = "assertion" /\ Observation(a, now).at = now
        /\ Vouched(Observation(a, now), a.ref)
    BY <1>2 DEF Observe, Observation, Vouched
  <2>3. a.ref \in Refs
    BY DEF GateInv, SignedInv, Assertions, Whole, Damaged
  <2> QED BY <2>1, <2>2, <2>3, WrittenAges
<1>3. ASSUME NEW q \in Refs, NoteUnreachable(q) PROVE Good
  <2>1. /\ cache[q].kind \in {"absent", "unreachable"}
        /\ cache' \in Written(cache, q, Unreachable(now)) /\ UNCHANGED <<now, broken>>
    BY <1>3 DEF NoteUnreachable, CanNote
  <2>2. Unreachable(now).kind = "unreachable" /\ Unreachable(now).at = now
    BY DEF Unreachable
  <2> QED BY <2>1, <2>2, WrittenAges
<1>4. ASSUME NEW q \in Refs, DamageFile(q) PROVE Good
  <2>1. /\ cache[q].kind = "assertion" /\ cache' = [cache EXCEPT ![q] = BadFile(cache[q].at)]
        /\ broken' = broken + 1 /\ now' = now
    BY <1>4 DEF DamageFile
  <2>2. BadFile(cache[q].at).kind = "damaged" /\ BadFile(cache[q].at).at = cache[q].at
    BY DEF BadFile
  <2>3. /\ cache' = [r \in Refs |-> cache'[r]] /\ cache'[q] = BadFile(cache[q].at)
        /\ \A r \in Refs : r # q => cache'[r] = cache[r]
    BY <2>1 DEF AgeInv
  <2>4. Files(cache') = Files(cache)
    BY <2>1, <2>2, <2>3 DEF Files
  <2>5. \A r \in Refs : cache'[r].kind # "absent" => cache'[r].at \in 0..now
    BY <2>1, <2>2, <2>3 DEF AgeInv
  <2>6. AgeInv'
    BY <1>0, <2>1, <2>3, <2>4, <2>5 DEF AgeInv
  <2>7. Kept
    BY <1>0, <2>1, <2>2, <2>3 DEF KeptOrReplaced
  <2> QED BY <2>6, <2>7
<1>5. ASSUME NEW p \in Commands,
             \/ Load(p) \/ GiveUp(p)
             \/ \E name \in Names :
                   \/ RemovePin(p, name)
                   \/ \E d \in Descriptors :
                         \/ AddPin(p, name, d)
                         \/ \E overlap \in Overlaps, confirmed \in {NoSignature, d.pub} :
                               RotatePin(p, name, d, confirmed, overlap)
      PROVE  Good
  <2>1. ASSUME NEW reg, Save(p, reg)
        PROVE  UNCHANGED <<now, cache>> /\ broken' \in Nat
    BY <1>0, <2>1 DEF Save
  <2>2. UNCHANGED <<now, cache>> /\ broken' \in Nat
    BY <1>0, <1>5, <2>1 DEF Load, GiveUp, RemovePin, AddPin, RotatePin
  <2> QED BY <1>1, <2>2
<1>6. ASSUME NEW s \in Stores, RestoreIdentity(s) \/ \E overlap \in Overlaps : RotateKey(s, overlap)
      PROVE  Good
  BY <1>0, <1>1, <1>6 DEF RestoreIdentity, RotateKey
<1>7. ASSUME NEW r \in Refs, NEW st \in States, NEW at \in now..(now + Ahead), Sign(r, st, at)
      PROVE  Good
  BY <1>0, <1>1, <1>7 DEF Sign
<1>8. ASSUME NEW r \in Refs, AddEdge(r) \/ RemoveEdge(r) PROVE Good
  BY <1>0, <1>1, <1>8 DEF AddEdge, RemoveEdge
<1>9. ASSUME DiscardRegistry \/ Tick \/ UNCHANGED vars PROVE Good
  BY <1>0, <1>1, <1>9 DEF DiscardRegistry, Tick, vars
<1> HIDE DEF Good
<1>10. Good
  BY <1>2, <1>3, <1>4, <1>5, <1>6, <1>7, <1>8, <1>9 DEF Next
<1> QED BY <1>10 DEF Good

(* What was verified once is replaced by another observation that verifies  *)
(* now, makes room, as one of the oldest of a full cache, for the file of   *)
(* another reference, or is damaged                                         *)
(* (AssertionCache::record, note_unreachable, prune).                       *)
THEOREM LastKnown == Spec => LastKnownKept
<1>1. AgeInv /\ GateInv /\ [Next]_vars
         => AgeInv' /\ [\A r \in Refs : cache[r].kind = "assertion" => KeptOrReplaced(r)]_vars
  BY AgeStep
<1> QED BY <1>1, AgeInit, CacheHonest, PTL DEF Spec, LastKnownKept
=============================================================================
