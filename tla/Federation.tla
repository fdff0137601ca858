------------------------------ MODULE Federation ------------------------------
(***************************************************************************)
(* Remote dependencies end to end: stores rotate their keys and sign the    *)
(* states of their issues; a client pins a store, caches the assertions it  *)
(* observes, late, twice, out of order or damaged, stores edges to remote   *)
(* issues, and gates its local work on them without asking anybody.         *)
(*                                                                         *)
(* The client's commands read remotes.json, change the copy and write the   *)
(* whole file back, without a lock (`editing' is the copy a command holds), *)
(* and a crash in the middle of the write leaves a file that does not       *)
(* parse.  A command nobody overtakes might as well load and save at once:  *)
(* only those in Slow load first and save later.  A cache entry is written  *)
(* beside and renamed, so a crash leaves the old one.                       *)
(***************************************************************************)
EXTENDS AssertionCache

CONSTANTS
    Commands,     \* commands of the client that may run at once
    Slow,         \* bound: those others may overtake between load and save
    Overlaps,     \* rotation overlaps, in seconds
    Ahead,        \* how far a remote's clock may run ahead
    Horizon,      \* bound: the last second
    MaxKeys,      \* bound: key pairs and restores per identity file, together
    MaxRestores,  \* bound: identity files restored from a backup
    MaxSigned,    \* bound: assertions signed
    MaxBroken     \* bound: damaged cache files and torn registry writes

ASSUME FederationAssumption ==
    /\ Slow \subseteq Commands /\ Overlaps \subseteq Int
    /\ {Ahead, Horizon, MaxKeys, MaxRestores, MaxSigned, MaxBroken} \subseteq Nat

VARIABLES
    now,        \* the client's clock
    identity,   \* the identity file of each store
    issued,     \* descriptors any store has issued
    signed,     \* assertions any store has signed
    registry,   \* remotes.json
    torn,       \* remotes.json does not parse
    editing,    \* the registry a running command has loaded, if any
    cache,      \* the file of each reference
    edges,      \* remote dependencies of the local issue, by reference
    broken      \* damaged files so far

vars == <<now, identity, issued, signed, registry, torn, editing, cache, edges, broken>>
storeVars == <<identity, issued, signed>>
pinVars == <<registry, torn, editing>>

NoEdge == [at |-> -1]
NotEditing == [open |-> FALSE, reg |-> EmptyRegistry]

Init ==
    /\ now = 0
    /\ identity = [s \in Stores |-> NewIdentity(s, 0)]
    /\ issued = {DescriptorOf(s, identity[s]) : s \in Stores} /\ signed = {}
    /\ registry = EmptyRegistry /\ torn = FALSE
    /\ editing = [p \in Commands |-> NotEditing]
    /\ cache = [r \in Refs |-> NoFile]
    /\ edges = [r \in Refs |-> NoEdge]
    /\ broken = 0

----------------------------------------------------------------------------
(* The remote stores. *)

Sign(r, st, at) ==
    /\ Cardinality(signed) < MaxSigned
    /\ signed' = signed \cup {AssertionOf(r, st, at, identity[r[1]])}
    /\ UNCHANGED <<now, identity, issued, cache, edges, broken>> /\ UNCHANGED pinVars

RotateKey(s, overlap) ==
    /\ Len(identity[s].keys) + identity[s].gen < MaxKeys
    /\ identity' = [identity EXCEPT ![s] = Rotated(s, @, overlap, now)]
    /\ issued' = issued \cup {DescriptorOf(s, identity'[s])}
    /\ UNCHANGED <<now, signed, cache, edges, broken>> /\ UNCHANGED pinVars

\* The identity file is restored from the backup taken when it was created.
RestoreIdentity(s) ==
    /\ identity[s].gen < MaxRestores
    /\ identity' = [identity EXCEPT ![s] = [NewIdentity(s, 0) EXCEPT !.gen = identity[s].gen + 1]]
    /\ UNCHANGED <<now, issued, signed, cache, edges, broken>> /\ UNCHANGED pinVars

----------------------------------------------------------------------------
(* The client's registry of pins. *)

Load(p) ==
    /\ p \in Slow /\ ~editing[p].open /\ ~torn
    /\ editing' = [editing EXCEPT ![p] = [open |-> TRUE, reg |-> registry]]
    /\ UNCHANGED <<now, registry, torn, cache, edges, broken>> /\ UNCHANGED storeVars

\* The registry a command works on: the copy it loaded, or the file as it is.
Held(p) == IF editing[p].open THEN editing[p].reg ELSE registry
Holds(p) == editing[p].open \/ (p \notin Slow /\ ~torn)

\* Save the changed copy, whole; or crash in the middle of it.
\* Readers take a registry that does not parse for an empty one.
Save(p, reg) ==
    /\ editing' = [editing EXCEPT ![p] = NotEditing]
    /\ \/ registry' = reg /\ torn' = FALSE /\ UNCHANGED broken
       \/ registry' = EmptyRegistry /\ torn' = TRUE
          /\ broken < MaxBroken /\ broken' = broken + 1
    /\ UNCHANGED <<now, cache, edges>> /\ UNCHANGED storeVars

AddPin(p, name, d) ==
    /\ Holds(p)
    /\ CanAdd(Held(p), name, d, now)
    /\ Save(p, Added(Held(p), name, d))

RemovePin(p, name) ==
    /\ Holds(p)
    /\ \E i \in Named(Held(p), name) : Save(p, Removed(Held(p), i))

RotatePin(p, name, d, confirmed, overlap) ==
    /\ Holds(p)
    /\ \E i \in Named(Held(p), name) :
          /\ CanRotate(Held(p)[i], d, confirmed, now)
          /\ Save(p, [Held(p) EXCEPT ![i] = RotatedPin(@, d, overlap, now)])

\* A command whose check failed ends with an error and writes nothing.
GiveUp(p) ==
    /\ editing[p].open
    /\ editing' = [editing EXCEPT ![p] = NotEditing]
    /\ UNCHANGED <<now, registry, torn, cache, edges, broken>> /\ UNCHANGED storeVars

\* External: the operator deletes the file that does not parse.
DiscardRegistry ==
    /\ torn
    /\ torn' = FALSE
    /\ UNCHANGED <<now, registry, editing, cache, edges, broken>> /\ UNCHANGED storeVars

----------------------------------------------------------------------------
(* The client's cache and edges. *)

Observe(a) ==
    /\ \E i \in DOMAIN registry : CanRecord(registry[i], a, now)
    /\ cache' \in Written(cache, a.ref, Observation(a, now))
    /\ UNCHANGED <<now, edges, broken>> /\ UNCHANGED storeVars /\ UNCHANGED pinVars

NoteUnreachable(r) ==
    /\ CanNote(cache, r)
    /\ cache' \in Written(cache, r, Unreachable(now))
    /\ UNCHANGED <<now, edges, broken>> /\ UNCHANGED storeVars /\ UNCHANGED pinVars

\* External: the disk damages a file.
DamageFile(r) ==
    /\ broken < MaxBroken /\ cache[r].kind = "assertion"
    /\ cache' = [cache EXCEPT ![r] = BadFile(@.at)]
    /\ broken' = broken + 1
    /\ UNCHANGED <<now, edges>> /\ UNCHANGED storeVars /\ UNCHANGED pinVars

\* `mb dep add' stores the cached assertion once it verifies, fresh or stale;
\* the transaction replaces an edge to the same reference.
AddEdge(r) ==
    /\ ~torn
    /\ View(registry, cache, r, now) \in {"fresh", "stale"}
    /\ edges' = [edges EXCEPT ![r] = [a |-> cache[r].a, at |-> cache[r].at]]
    /\ UNCHANGED <<now, cache, broken>> /\ UNCHANGED storeVars /\ UNCHANGED pinVars

RemoveEdge(r) ==
    /\ edges[r] # NoEdge
    /\ edges' = [edges EXCEPT ![r] = NoEdge]
    /\ UNCHANGED <<now, cache, broken>> /\ UNCHANGED storeVars /\ UNCHANGED pinVars

Tick ==
    /\ now < Horizon
    /\ now' = now + 1
    /\ UNCHANGED <<cache, edges, broken>> /\ UNCHANGED storeVars /\ UNCHANGED pinVars

\* What reaches the client: anything ever published, intact or damaged.
Descriptors == issued \cup {Damaged(d) : d \in issued}
Assertions == signed \cup {Damaged(a) : a \in signed}

Next ==
    \/ \E s \in Stores : RestoreIdentity(s)
    \/ \E s \in Stores, overlap \in Overlaps : RotateKey(s, overlap)
    \/ \E r \in Refs, st \in States, at \in now..(now + Ahead) : Sign(r, st, at)
    \/ \E p \in Commands : Load(p) \/ GiveUp(p)
    \/ \E p \in Commands, name \in Names :
          \/ RemovePin(p, name)
          \/ \E d \in Descriptors :
                \/ AddPin(p, name, d)
                \/ \E overlap \in Overlaps, confirmed \in {NoSignature, d.pub} :
                      RotatePin(p, name, d, confirmed, overlap)
    \/ DiscardRegistry
    \/ \E a \in Assertions : Observe(a)
    \/ \E r \in Refs : NoteUnreachable(r) \/ DamageFile(r) \/ AddEdge(r) \/ RemoveEdge(r)
    \/ Tick

Spec == Init /\ [][Next]_vars

----------------------------------------------------------------------------
(* Properties *)

Material == {<<s, n, g>> : s \in Stores, n \in 1..MaxKeys, g \in 0..MaxRestores}
KeyIds == {<<s, n>> : s \in Stores, n \in 1..MaxKeys}
Ends == {Forever} \cup Nat

IsAssertion(a) ==
    /\ a.ref \in Refs /\ a.state \in States /\ a.at \in Nat
    /\ a.key \in KeyIds /\ a.by \in Material \cup {NoSignature}

\* Every file, key and pin keeps its shape.
TypeOK ==
    /\ now \in 0..Horizon /\ broken \in 0..MaxBroken /\ torn \in BOOLEAN
    /\ \A s \in Stores : \A i \in DOMAIN identity[s].keys :
          LET k == identity[s].keys[i] IN k.id = <<s, i>> /\ k.pub \in Material /\ k.end \in Ends
    /\ \A a \in signed : IsAssertion(a)
    /\ \A i \in DOMAIN registry : registry[i].name \in Names /\ registry[i].store \in Stores
    /\ \A r \in Refs : cache[r].kind = "assertion" => IsAssertion(cache[r].a) /\ cache[r].at <= now
    /\ \A r \in Refs : edges[r] # NoEdge => IsAssertion(edges[r].a) /\ edges[r].at <= now

\* Local work passes a remote blocker only on the store's own word: the store
\* has signed `closed' for that very issue, with a key pair that a pin of now
\* still trusts, and the client has seen it within the freshness window.
\* (readiness_rows, remote_gate; the store is not asked.)
GateSound ==
    \A r \in Refs : edges[r] # NoEdge /\ Satisfied(registry, cache, r, now) =>
        \E a \in signed :
            /\ a.ref = r /\ a.state = "closed"
            /\ cache[r].at >= now - Window /\ a.at <= cache[r].at + Skew
            /\ \E i \in DOMAIN registry : \E j \in DOMAIN Pins(registry[i]) :
                  LET pin == Pins(registry[i])[j]
                  IN  pin.store = r[1] /\ pin.pub = a.by /\ ~Ended(pin.end, now)

\* A command writes back a copy that other commands have overtaken.
Overtaken == \E p \in Commands : editing[p].open /\ ~editing'[p].open /\ Held(p) # registry

\* A key whose overlap has ended under a pin is never trusted by that pin
\* again, whatever descriptors come back late, until the pin is removed; except
\* that a save of a copy others have overtaken puts back what it had loaded
\* (README.md of this directory, Disagreements).
\* (RemoteRegistry::rotate: "an old key is never resurrected".)
RetiredStep ==
    \A i \in DOMAIN registry, j \in DOMAIN registry' :
        registry[i].name = registry'[j].name =>
            \A m \in DOMAIN Pins(registry[i]), n \in DOMAIN Pins(registry'[j]) :
                LET old == Pins(registry[i])[m]
                    new == Pins(registry'[j])[n]
                IN  Ended(old.end, now) /\ old.pub = new.pub => Ended(new.end, now')

RetiredStays == [][~Overtaken => RetiredStep]_vars

\* "An old key is never resurrected by a later rotation" (identity.rs:873), though the copy
\* that is rotated was loaded before another command's rotation.
\* Refuted (README.md of this directory, Disagreements).
RetiredForGood ==
    [][\A p \in Commands, name \in Names, d \in Descriptors, overlap \in Overlaps :
          \A confirmed \in {NoSignature, d.pub} :
              RotatePin(p, name, d, confirmed, overlap) => RetiredStep]_vars

KeptOrReplaced(r) ==
    \/ cache'[r] = cache[r]
    \/ /\ cache'[r].kind = "assertion" /\ cache'[r].at = now /\ cache'[r].a.ref = r
       /\ \E i \in DOMAIN registry : CanRecord(registry[i], cache'[r].a, now)
    \/ /\ cache'[r] = NoFile
       /\ Files(cache') \ Files(cache) # {} /\ Cardinality(Files(cache')) = MaxEntries
       /\ \A q \in Files(cache') : cache'[q].at >= cache[r].at
    \/ broken' > broken /\ cache'[r].kind = "damaged"

\* What was verified once is not forgotten because of a failure: it is
\* replaced by another observation of the same reference that verifies under a
\* pin now (which may carry an older assertion), gives way, as one of the
\* oldest, to the file of another reference in a full cache, or is damaged; it
\* is never overwritten by a note that the remote could not be reached, nor
\* touched by a change of the pins.
\* (AssertionCache::record, note_unreachable, prune.)
LastKnownKept == [][\A r \in Refs : cache[r].kind = "assertion" => KeptOrReplaced(r)]_vars

\* Two pieces of code judge a stored edge, the freshness shown by `mb show'
\* and the audit receipt printed next to it: they never disagree.
AuditAgrees ==
    \A r \in Refs : edges[r] # NoEdge =>
        LET shown == EdgeFreshness(registry, edges[r], now)
            audit == EdgeAudit(registry, edges[r], now)
        IN  (shown = "fresh" <=> audit = "verified") /\ (shown = "stale" <=> audit = "stale")

\* The workspace "never reports more health than the weakest reference we hold"
\* (report.rs:898), a damaged file of the store among them, which reads as
\* `unverifiable'.
\* Refuted (README.md of this directory, Disagreements).
WorkspaceHonest ==
    \A s \in Stores : "fresh" \in Workspace(registry, cache, s, now) =>
        \A r \in Files(cache) : r[1] = s => View(registry, cache, r, now) = "fresh"
=============================================================================
