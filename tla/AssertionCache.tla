---------------------------- MODULE AssertionCache ----------------------------
(***************************************************************************)
(* The client's cache of remote issue assertions, one file per reference,   *)
(* and what readers make of it: the named freshness of a reference, the     *)
(* gate of a remote dependency, the audit of a stored edge, the workspace   *)
(* of a remote.  A file is absent, an assertion with the instant it was     *)
(* observed, a note that the remote was unreachable, or damaged (it does    *)
(* not parse).                                                              *)
(***************************************************************************)
EXTENDS RemotePins, FiniteSets

CONSTANTS
    Window,       \* DEFAULT_FRESHNESS_WINDOW_SECONDS
    Skew,         \* MAX_CLOCK_SKEW_SECONDS
    MaxEntries    \* files kept

ASSUME CacheAssumption == {Window, Skew} \subseteq Nat /\ MaxEntries \in Nat \ {0}

NoFile == [kind |-> "absent"]
Observation(a, at) == [kind |-> "assertion", a |-> a, at |-> at]
Unreachable(at) == [kind |-> "unreachable", at |-> at]
BadFile(at) == [kind |-> "damaged", at |-> at]

\* A remote's clock may run ahead of ours by no more than the tolerance.
InTolerance(a, at) == a.at <= at + Skew

\* record: nothing is cached unless it verifies under a key of the pin.
CanRecord(rec, a, at) ==
    /\ UnderRecord(rec, a, at)
    /\ InTolerance(a, at)

\* note_unreachable: an assertion is kept, and a file that cannot be parsed
\* is an error.
CanNote_Always(cache, r) == TRUE
CanNote(cache, r) == cache[r].kind \in {"absent", "unreachable"}

\* prune after a write: the newest files stay, ties fall either way.
Files(cache) == {r \in Refs : cache[r].kind # "absent"}
Pruned(cache) ==
    LET Newest(kept) ==
            /\ Cardinality(kept) = IF Cardinality(Files(cache)) <= MaxEntries
                                   THEN Cardinality(Files(cache)) ELSE MaxEntries
            /\ \A r \in kept : \A q \in Files(cache) \ kept : cache[r].at >= cache[q].at
    IN  {[r \in Refs |-> IF r \in kept THEN cache[r] ELSE NoFile] :
             kept \in {k \in SUBSET Files(cache) : Newest(k)}}

Written(cache, r, file) == Pruned([cache EXCEPT ![r] = file])

----------------------------------------------------------------------------
(* Reading a reference against the pins of now. *)

View(reg, cache, r, at) ==
    LET file == cache[r] IN
        IF file.kind \in {"absent", "unreachable"} THEN "unknown"
        ELSE IF \/ file.kind = "damaged"
                \/ ~UnderPins(reg, file.a, at)
                \/ ~InTolerance(file.a, file.at)
                \/ file.at > at + Skew THEN "unverifiable"
        ELSE IF at - file.at > Window THEN "stale"
        ELSE "fresh"

\* The state a view lets its reader see.
AssertedState(reg, cache, r, at) ==
    IF View(reg, cache, r, at) \in {"fresh", "stale"} THEN cache[r].a.state ELSE "none"

\* remote_gate: only a fresh, verified "closed" satisfies a remote blocker.
Satisfied(reg, cache, r, at) ==
    View(reg, cache, r, at) = "fresh" /\ AssertedState(reg, cache, r, at) = "closed"

\* read_all skips a file that does not parse.  remote_workspace_freshness: the first
\* reference that has no verified state decides, in the order of the issue ids.
CachedOf(cache, s) == {r \in Refs : r[1] = s /\ cache[r].kind \in {"assertion", "unreachable"}}
WorkspaceStates(reg, cache, s, at) == {View(reg, cache, r, at) : r \in CachedOf(cache, s)}
Workspace(reg, cache, s, at) ==
    LET states == WorkspaceStates(reg, cache, s, at)
        bad == states \cap {"unverifiable", "unknown"}
    IN  IF bad # {} THEN bad
        ELSE IF "stale" \in states THEN {"stale"}
        ELSE IF "fresh" \in states THEN {"fresh"}
        ELSE {"unknown"}

----------------------------------------------------------------------------
(* A stored edge, [a, at], re-verified offline by two pieces of code. *)

EdgeFreshness_AnyAge(reg, edge, at) ==
    IF UnderPins(reg, edge.a, at) THEN "fresh" ELSE "unverifiable"

\* remote_dependency_freshness
EdgeFreshness(reg, edge, at) ==
    IF ~UnderPins(reg, edge.a, at) THEN "unverifiable"
    ELSE IF at - edge.at > Window THEN "stale"
    ELSE "fresh"

\* audit_receipt for the edge's own reference, check by check
EdgeAudit(reg, edge, at) ==
    LET recs == RecordOf(reg, edge.a.ref[1])
        rec == reg[CHOOSE n \in recs : TRUE]
        pins == PinOf(rec, edge.a.key)
        verdict == AssertionVerdict(edge.a, Pins(rec)[CHOOSE i \in pins : TRUE], at)
    IN  IF recs = {} THEN "absent_store"
        ELSE IF pins = {} THEN "wrong_key"
        ELSE IF verdict = "wrong_store" THEN "wrong_store"
        ELSE IF verdict \in {"wrong_key_id", "key_retired"} THEN "wrong_key"
        ELSE IF verdict # "verified" THEN "forged_signature"
        ELSE IF at - edge.at > Window THEN "stale"
        ELSE "verified"
=============================================================================
