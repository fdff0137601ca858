---------------------------- MODULE PostgresStore ----------------------------
(****************************************************************************)
(* One company's rows in PostgreSQL (src/src/postgres_store.rs), written by *)
(* several server processes (a blue/green deployment).  Every mutation is   *)
(* one transaction under the company's advisory lock, so what takes two     *)
(* lock sections in SqliteStore is one step here; only the release handler  *)
(* still reads in one transaction and writes in another.                    *)
(*                                                                          *)
(* `now` is the most advanced clock of the servers: a Stamp is a reading of *)
(* any of them, at most MaxLag behind for skew and for waiting on the lock. *)
(* That a server replays or loses a transaction is PgSession's subject.     *)
(****************************************************************************)
EXTENDS IssueRows

CONSTANTS
    Servers,        \* server processes on one database
    Threads,        \* their blocking workers
    ServerOf,       \* the server a worker belongs to
    Ops,            \* bound: the operations the clients of this instance call
    TTLRequests,    \* ttl_seconds values agents ask for
    PatchStatuses,  \* bound: statuses clients patch in
    AvailableTimes, \* available_at values clients ask for
    MaxLag          \* bound: clock skew plus the time a reading waits for the lock

ASSUME ServerAssumption == ServerOf \in [Threads -> Servers]
ASSUME RequestAssumption ==
    /\ TTLRequests \subseteq Int
    /\ PatchStatuses \subseteq Statuses
    /\ AvailableTimes \subseteq Int
    /\ MaxLag \in Nat

VARIABLE call       \* per worker, a release between its get and its write

vars == <<now, projects, issue, dep, events, call>>

Idle == [pc |-> "idle"]
Call == {Idle} \cup [pc : {"release"}, id : Issues, who : Names]

TypeOK == RowsTypeOK /\ call \in [Threads -> Call]

Init == RowsInit /\ call = [t \in Threads |-> Idle]

Stamps == {at \in 0..now : now - at <= MaxLag}

\* A transaction that only reads.
Reads == events' = {} /\ UNCHANGED <<now, projects, issue, dep>>

----------------------------------------------------------------------------
(* Requests of one transaction.  There is no drop_project on PostgreSQL. *)

EnsureProject(p) == "project" \in Ops /\ EnsureProjectTx(p) /\ UNCHANGED call

Create(i) ==
    /\ "create" \in Ops
    /\ \E at \in Stamps, ls \in SUBSET Labels :
         \E available \in AvailableTimes \cup {at + Grace} : CreateTx(i, ls, available)
    /\ UNCHANGED call

\* As in SqliteStore: a human holds until a business-hours deadline, an agent for the
\* ttl it asks for, both clamped.  Bound: leases end by Horizon.
Claim(i, who) ==
    /\ "claim" \in Ops
    /\ \E at \in Stamps, k \in Kinds, ttl \in Deadlines \cup TTLRequests \cup {AgentTTL} :
         /\ k = "human" => who \in Humans /\ ttl \in Deadlines
         /\ k = "agent" => ttl \in TTLRequests \cup {AgentTTL}
         /\ at + Lesser(ttl, MaxTTL) <= Horizon
         /\ ClaimTx(i, who, k, Lesser(ttl, MaxTTL), at)
    /\ UNCHANGED call

Touch(i, who) ==
    /\ "touch" \in Ops
    /\ \E at \in Stamps, ttl \in Deadlines \cup {AgentTTL} :
         at + ttl <= Horizon /\ TouchTx(i, who, ttl, at)
    /\ UNCHANGED call

Sweep(at) == "sweep" \in Ops /\ SweepTx(at) /\ UNCHANGED call

Update(i) ==
    /\ "update" \in Ops
    /\ \E at \in Stamps :
         \E st \in PatchStatuses \cup {issue[i].status},
            ev \in (SUBSET Receipts) \cup {issue[i].evidence},
            available \in AvailableTimes \cup {DeferredTo(i, at)} :
                UpdateTx(i, st, ev, available)
    /\ UNCHANGED call

\* The blockers are read, and locked, in the transaction that closes.
Close(i, ev) ==
    /\ "close" \in Ops
    /\ ev # {}
    /\ OpenBlockers(i) = {}
    /\ CloseTx(i, ev)
    /\ UNCHANGED call

Supersede(i, r) == "supersede" \in Ops /\ SupersedeTx(i, r) /\ UNCHANGED call

\* A label the issue already has is no change, and no history row.
AddLabel(i, l) ==
    /\ "label" \in Ops
    /\ l \notin issue[i].labels
    /\ SetLabelsTx(i, issue[i].labels \cup {l})
    /\ UNCHANGED call

RemoveLabel(i, l) ==
    /\ "unlabel" \in Ops
    /\ SetLabelsTx(i, issue[i].labels \ {l})
    /\ UNCHANGED call

AddDep(c, p) == "dep" \in Ops /\ AddDepTx(c, p) /\ UNCHANGED call
RemoveDep(c, p) == "dep" \in Ops /\ RemoveDepTx(c, p) /\ UNCHANGED call

----------------------------------------------------------------------------
(* The release handler: get, check the holder, then release *)

ReleaseCheck(t, i, who) ==
    /\ "release" \in Ops
    /\ call[t] = Idle
    /\ Exists(i)
    /\ issue[i].assignee \in {NoOne, who}
    /\ call' = [call EXCEPT ![t] = [pc |-> "release", id |-> i, who |-> who]]
    /\ Reads

ReleaseCommit(t) ==
    /\ call[t].pc = "release"
    /\ Exists(call[t].id)
    /\ ReleaseTx(call[t].id)
    /\ call' = [call EXCEPT ![t] = Idle]

\* One server stops (a crash, or the other colour took over); its requests are gone
\* and a transaction it had not committed rolls back.
Stop(s) ==
    /\ "crash" \in Ops
    /\ call' = [t \in Threads |-> IF ServerOf[t] = s THEN Idle ELSE call[t]]
    /\ Reads

Tick ==
    /\ now < Horizon
    /\ now' = now + 1
    /\ events' = {}
    /\ UNCHANGED <<projects, issue, dep, call>>

Next ==
    \/ \E p \in Projects : EnsureProject(p)
    \/ \E i \in Issues : Create(i) \/ Update(i)
    \/ \E i \in Issues, who \in Names : Claim(i, who) \/ Touch(i, who)
    \/ \E at \in Stamps : Sweep(at)
    \/ \E i \in Issues :
          \/ \E ev \in SUBSET Receipts : Close(i, ev)
          \/ \E r \in Issues : Supersede(i, r)
          \/ \E l \in Labels : AddLabel(i, l)
          \/ \E l \in LabelSet : RemoveLabel(i, l)
    \/ \E c, p \in Issues : AddDep(c, p) \/ RemoveDep(c, p)
    \/ \E t \in Threads :
          \/ \E i \in Issues, who \in Names : ReleaseCheck(t, i, who)
          \/ ReleaseCommit(t)
    \/ \E s \in Servers : Stop(s)
    \/ Tick

Spec == Init /\ [][Next]_vars
==============================================================================
