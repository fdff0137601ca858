----------------------------- MODULE RecordStore -----------------------------
(****************************************************************************)
(* The records backend (src/src/adapter.rs over src/src/records.rs, or over *)
(* src/src/soil_engine.rs): the issue tables kept as append-only records.   *)
(* An operation reads the current records and then appends one revision     *)
(* after another: the issue, the audit event, the outbox event.  Nothing    *)
(* groups them: a process can die between two appends, and with soil:records*)
(* (shared) other invocations run between two calls.                        *)
(*                                                                          *)
(* issue, dep and projects are the live records of their types; `events` is *)
(* what the last operation begun appends to the audit trail.  A tombstoned  *)
(* key is like one never written, but for the sequence numbers it used.     *)
(****************************************************************************)
EXTENDS IssueRows, Sequences, Functions

CONSTANTS
    Procs,          \* invocations
    Hosts,          \* bound: the values of `shared` of this instance
    Ops,            \* bound: the operations this instance calls
    TTLRequests,    \* ttl_seconds values agents ask for
    PatchStatuses,  \* bound: statuses clients patch in
    Stock,          \* the issues the trail holds at the start, in order of creation
    MaxAppends      \* bound: revisions appended in a run

Seqs == 1..MaxAppends
Unused == "unused"
Gone == "gone"      \* tombstoned

ASSUME RecordsAssumption ==
    /\ Hosts \subseteq BOOLEAN /\ TTLRequests \subseteq Int /\ PatchStatuses \subseteq Statuses
    /\ {Unused, Gone} \cap Issues = {}
    /\ IsFiniteSet(Issues) /\ IsFiniteSet(Projects) /\ Stock \in Seq(Issues)
    /\ MaxAppends \in Nat /\ 1 + Cardinality(Projects) + 3 * Len(Stock) <= MaxAppends

VARIABLES
    shared,     \* the records live in a soil:records host that every invocation calls,
                \* otherwise in the trail file of a single process
    top,        \* the last revision number of the trail
    audit,      \* marbles_event: per sequence number the issue it is about
    outbox,     \* outbound_event: per sequence number its delivery
    proc        \* per invocation, its counter and the appends it has still to make

vars == <<now, projects, issue, dep, events, shared, top, audit, outbox, proc>>

Closed0 == [open |-> FALSE, seq |-> 0, todo |-> {}, version |-> "none"]

----------------------------------------------------------------------------
(* Appends *)

\* `turn' orders the appends of one operation; those a drop makes in one turn, over the
\* keys of one type, come in any order.
Save(t, i, row) == [turn |-> t, kind |-> "issue", id |-> i, row |-> row, swap |-> FALSE]
Swap(t, i, row) == [turn |-> t, kind |-> "issue", id |-> i, row |-> row, swap |-> TRUE]
Tombstone(t, i) == Save(t, i, Absent)
Edge(t, e, live) == [turn |-> t, kind |-> "dep", edge |-> e, live |-> live]
Project(t, s, live) == [turn |-> t, kind |-> "project", slug |-> s, live |-> live]
Audit(t, n, i) == [turn |-> t, kind |-> "audit", at |-> n, id |-> i]
Outbound(t, n, i) == [turn |-> t, kind |-> "outbound", at |-> n, id |-> i]
Delivery(t, n, s) == [turn |-> t, kind |-> "delivery", at |-> n, state |-> s]
CutAudit(t, n) == [turn |-> t, kind |-> "cut audit", at |-> n]
CutOutbound(t, n) == [turn |-> t, kind |-> "cut outbound", at |-> n]

\* Mutant: the outbox event is appended before the audit event.
Log_OutboxFirst(t, n, i) == {Outbound(t, n, i), Audit(t + 1, n, i)}

\* log_event: one sequence number for the audit event and the outbox event.
Log(t, n, i) == {Audit(t, n, i), Outbound(t + 1, n, i)}

Idle(p) == proc[p].open /\ proc[p].todo = {}
NextSeq(p) == proc[p].seq + 1

\* An operation that passed its checks: the revisions it is going to append.
Begin(p, script, evs) ==
    /\ Idle(p)
    /\ proc' = [proc EXCEPT ![p].todo = script, ![p].version = "none"]
    /\ events' = evs
    /\ UNCHANGED <<now, projects, issue, dep, shared, top, audit, outbox>>

Named(i, e) == [issue |-> i, event |-> e, queued |-> TRUE]

----------------------------------------------------------------------------
(* Opening, dying, time *)

\* The audit sequence numbers a new invocation finds used, tombstones included.
MaxAudit == LET used == {n \in Seqs : audit[n] # Unused}
            IN  IF used = {} THEN 0 ELSE CHOOSE n \in used : \A m \in used : m <= n

\* Mutant: a reopened store counts its events from one again.
Resume_FromZero == 0

Resume == IF shared THEN MaxAudit ELSE top

\* with_engine, after the trail is replayed: the audit counter is aligned with the
\* engine's, and seed_meta appends one revision.
Open(p) ==
    /\ ~proc[p].open
    /\ shared \/ \A q \in Procs : ~proc[q].open
    /\ top < MaxAppends
    /\ proc' = [proc EXCEPT ![p] = [Closed0 EXCEPT !.open = TRUE, !.seq = Resume]]
    /\ top' = top + 1
    /\ UNCHANGED <<now, projects, issue, dep, events, shared, audit, outbox>>

\* The process ends, or dies with appends still to make.
Stop(p) ==
    /\ proc[p].open
    /\ proc' = [proc EXCEPT ![p] = Closed0]
    /\ UNCHANGED <<now, projects, issue, dep, events, shared, top, audit, outbox>>

Tick ==
    /\ now < Horizon
    /\ now' = now + 1
    /\ UNCHANGED <<projects, issue, dep, events, shared, top, audit, outbox, proc>>

----------------------------------------------------------------------------
(* One append each *)

First(p) == {a \in proc[p].todo : \A b \in proc[p].todo : a.turn <= b.turn}
Due(p, a, k) == a \in First(p) /\ a.kind = k /\ top < MaxAppends

\* Append a is made, and seq is the audit counter from then on: the versions other
\* invocations hold of the issues touched are stale.
Done(p, a, seq, touched) ==
    /\ top' = top + 1
    /\ proc' = [q \in Procs |->
                  IF q = p THEN [proc[p] EXCEPT !.todo = @ \ {a}, !.seq = seq]
                  ELSE IF /\ proc[q].version = "fresh"
                          /\ \E b \in First(q) : b.kind = "issue" /\ b.id \in touched
                       THEN [proc[q] EXCEPT !.version = "stale"] ELSE proc[q]]
    /\ UNCHANGED <<now, events, shared>>

PutIssue(p, a) ==
    /\ Due(p, a, "issue") /\ ~a.swap
    /\ issue' = [issue EXCEPT ![a.id] = a.row]
    /\ Done(p, a, proc[p].seq, {a.id})
    /\ UNCHANGED <<projects, dep, audit, outbox>>

\* issue_version, a read of its own after the issue was read.
ReadVersion(p, a) ==
    /\ Due(p, a, "issue") /\ a.swap /\ proc[p].version = "none"
    /\ proc' = [proc EXCEPT ![p].version = "fresh"]
    /\ UNCHANGED <<now, projects, issue, dep, events, shared, top, audit, outbox>>

\* compare_and_swap: applied only if the version read is still the latest.
SwapIssue(p, a) ==
    /\ Due(p, a, "issue") /\ a.swap /\ proc[p].version = "fresh"
    /\ issue' = [issue EXCEPT ![a.id] = a.row]
    /\ Done(p, a, proc[p].seq, {a.id})
    /\ UNCHANGED <<projects, dep, audit, outbox>>

SwapRefused(p, a) ==
    /\ Due(p, a, "issue") /\ a.swap /\ proc[p].version = "stale"
    /\ proc' = [proc EXCEPT ![p].todo = {}, ![p].version = "none"]
    /\ UNCHANGED <<now, projects, issue, dep, events, shared, top, audit, outbox>>

PutEdge(p, a) ==
    /\ Due(p, a, "dep")
    /\ dep' = IF a.live THEN dep \cup {a.edge} ELSE dep \ {a.edge}
    /\ Done(p, a, proc[p].seq, {})
    /\ UNCHANGED <<projects, issue, audit, outbox>>

PutProject(p, a) ==
    /\ Due(p, a, "project")
    /\ projects' = IF a.live THEN projects \cup {a.slug} ELSE projects \ {a.slug}
    /\ Done(p, a, proc[p].seq, {})
    /\ UNCHANGED <<issue, dep, audit, outbox>>

\* next_seq, and the audit event under that number.
PutAudit(p, a) ==
    /\ Due(p, a, "audit")
    /\ audit' = [audit EXCEPT ![a.at] = a.id]
    /\ Done(p, a, a.at, {})
    /\ UNCHANGED <<projects, issue, dep, outbox>>

\* The outbox event is only appended when the issue exists (otherwise nothing is; the
\* model counts a revision that changes no record).
PutOutbound(p, a) ==
    /\ Due(p, a, "outbound")
    /\ outbox' = IF Exists(a.id) THEN [outbox EXCEPT ![a.at] = "pending"] ELSE outbox
    /\ Done(p, a, proc[p].seq, {})
    /\ UNCHANGED <<projects, issue, dep, audit>>

PutDelivery(p, a) ==
    /\ Due(p, a, "delivery")
    /\ outbox' = [outbox EXCEPT ![a.at] = a.state]
    /\ Done(p, a, proc[p].seq, {})
    /\ UNCHANGED <<projects, issue, dep, audit>>

Cut(p, a) ==
    /\ \/ /\ Due(p, a, "cut audit")
          /\ audit' = [audit EXCEPT ![a.at] = Gone]
          /\ UNCHANGED outbox
       \/ /\ Due(p, a, "cut outbound")
          /\ outbox' = [outbox EXCEPT ![a.at] = Gone]
          /\ UNCHANGED audit
    /\ Done(p, a, proc[p].seq, {})
    /\ UNCHANGED <<projects, issue, dep>>

----------------------------------------------------------------------------
(* The operations *)

\* Over soil:records only the commands of `mb` run.
Offered(op) == op \in Ops /\ (shared => op \in {"create", "claim", "release", "close"})

EnsureProject(p, s) ==
    /\ Offered("project")
    /\ Begin(p, {Project(1, s, TRUE)}, {})

Drops(s) == {i \in Issues : ProjectOf[i] = s /\ Exists(i)}

\* Mutant: the issues go first, their edges last.
DropWrites_IssuesFirst(s) ==
    LET mine == Drops(s)
        evs  == {n \in Seqs : audit[n] \in mine}
    IN  {Tombstone(1, i) : i \in mine}
        \cup {CutOutbound(2, n) : n \in {m \in evs : outbox[m] \notin {Unused, Gone}}}
        \cup {CutAudit(3, n) : n \in evs}
        \cup {Edge(4, e, FALSE) : e \in {d \in dep : {d[1], d[2]} \cap mine # {}}}
        \cup {Project(5, s, FALSE)}

\* Tombstones, type by type: outbox, audit, edges, issues, and the project last.
DropWrites(s) ==
    LET mine == Drops(s)
        evs  == {n \in Seqs : audit[n] \in mine}
    IN  {CutOutbound(1, n) : n \in {m \in evs : outbox[m] \notin {Unused, Gone}}}
        \cup {CutAudit(2, n) : n \in evs}
        \cup {Edge(3, e, FALSE) : e \in {d \in dep : {d[1], d[2]} \cap mine # {}}}
        \cup {Tombstone(4, i) : i \in mine}
        \cup {Project(5, s, FALSE)}

DropProject(p, s) ==
    /\ Offered("drop")
    /\ s \in projects
    /\ Begin(p, DropWrites(s), {})

\* An operation that saves one row of issue i and logs the event e of it.
SaveAndLog(p, i, row, e) ==
    Begin(p, {Save(1, i, row)} \cup Log(2, NextSeq(p), i), {Named(i, e)})

Create(p, i) ==
    /\ Offered("create")
    /\ ProjectOf[i] \in projects /\ ~Exists(i)
    /\ SaveAndLog(p, i, [Absent EXCEPT !.status = "open", !.available = now + Grace], "created")

Update(p, i) ==
    /\ Offered("update")
    /\ Exists(i)
    /\ \E st \in PatchStatuses :
         LET row == [issue[i] EXCEPT !.status = st, !.available = DeferredTo(i, now)]
             moved == {Save(1, i, row)} \cup Log(2, NextSeq(p), i)
         IN  IF st = issue[i].status THEN Begin(p, moved, {Named(i, "updated")})
             ELSE Begin(p, moved \cup Log(4, NextSeq(p) + 1, i),
                        {Named(i, "updated"), Named(i, "status")})

AddLabel(p, i, l) ==
    /\ Offered("label")
    /\ Exists(i) /\ l \notin issue[i].labels
    /\ SaveAndLog(p, i, [issue[i] EXCEPT !.labels = @ \cup {l}], "labels")

RemoveLabel(p, i, l) ==
    /\ Offered("label")
    /\ Exists(i)
    /\ SaveAndLog(p, i, [issue[i] EXCEPT !.labels = @ \ {l}], "labels")

Refused(c, b) == c = b \/ c \in Reach(dep, b)

\* An edge that is there already appends nothing.
AddDep(p, c, b) ==
    /\ Offered("dep")
    /\ Exists(c) /\ Exists(b) /\ ~Refused(c, b)
    /\ <<c, b>> \notin dep
    /\ Begin(p, {Edge(1, <<c, b>>, TRUE), Save(2, c, issue[c])} \cup Log(3, NextSeq(p), c),
             {Named(c, "depends_on")})

RemoveDep(p, c, b) ==
    /\ Offered("dep")
    /\ <<c, b>> \in dep
    /\ Begin(p, {Edge(1, <<c, b>>, FALSE)} \cup Log(2, NextSeq(p), c),
             {Named(c, "unblocked_from")})

\* Mutant: the holder is not looked at.
Claimable_Anyone(i, who) == Exists(i)

Claimable(i, who) == Exists(i) /\ ~(Held(i, now) /\ issue[i].assignee # who)

\* The issue is read here, its version in a later step.
Claim(p, i, who) ==
    /\ Offered("claim")
    /\ Claimable(i, who)
    /\ LET k == IF who \in Humans THEN "human" ELSE "agent"
       IN  \E ttl \in IF who \in Humans THEN Deadlines ELSE TTLRequests \cup {AgentTTL} :
             /\ now + Lesser(ttl, MaxTTL) <= Horizon
             /\ Begin(p, {Swap(1, i, [issue[i] EXCEPT !.assignee = who, !.kind = k,
                                                     !.expires = now + Lesser(ttl, MaxTTL)])}
                         \cup Log(2, NextSeq(p), i),
                      {Named(i, "claimed")})

Touch(p, i) ==
    /\ Offered("touch")
    /\ Exists(i) /\ issue[i].assignee # NoOne
    /\ \E ttl \in IF issue[i].kind = "human" THEN Deadlines ELSE {AgentTTL} :
         /\ now + ttl <= Horizon
         /\ SaveAndLog(p, i, [issue[i] EXCEPT !.expires = now + ttl], "heartbeat")

Release(p, i) ==
    /\ Offered("release")
    /\ Exists(i)
    /\ SaveAndLog(p, i, Freed(issue[i]), "released")

\* Mutant: a lapsed human hold is requeued like an agent's claim.
Requeued_Everyone(i) == Lapsed(i, now)

Requeued(i) == Lapsed(i, now) /\ issue[i].kind # "human"

\* The eligible issues, one after another (rank is their order): each is requeued, or
\* only reported, and logged.
Sweep(p) ==
    /\ Offered("sweep")
    /\ LET lapsed == {i \in Issues : Lapsed(i, now)}
       IN  /\ lapsed # {}
           /\ \E rank \in Bijection(lapsed, 1..Cardinality(lapsed)) :
                Begin(p, {Save(3 * rank[i], i, Freed(issue[i])) : i \in {j \in lapsed : Requeued(j)}}
                         \cup UNION {Log(3 * rank[i] + 1, proc[p].seq + rank[i], i) : i \in lapsed},
                      {Named(i, IF Requeued(i) THEN "claim_expired" ELSE "escalated") :
                          i \in lapsed})

Close(p, i) ==
    /\ Offered("close")
    /\ Exists(i) /\ OpenBlockers(i) = {}
    /\ \E ev \in Receipts : SaveAndLog(p, i, Closed(issue[i], {ev}), "closed")

\* close_unchecked, then add_label, under one lock.
Supersede(p, i, r) ==
    /\ Offered("supersede")
    /\ Exists(i) /\ Exists(r)
    /\ LET told  == Pointer(r) \in issue[i].labels
           close == {Save(1, i, Closed(issue[i], {Ack(r)}))} \cup Log(2, NextSeq(p), i)
           point == {Save(4, i, Superseded(issue[i], r))} \cup Log(5, NextSeq(p) + 1, i)
       IN  IF told THEN Begin(p, close, {Named(i, "closed")})
           ELSE Begin(p, close \cup point, {Named(i, "closed"), Named(i, "labels")})

Undelivered(n) == outbox[n] \in {"pending", "failed"}

\* mark_event_delivered and mark_event_failed: no effect on a delivered event.
MarkEvent(p, n) ==
    /\ Offered("mark")
    /\ Undelivered(n)
    /\ \E s \in {"delivered", "failed"} : Begin(p, {Delivery(1, n, s)}, events)

----------------------------------------------------------------------------
\* A trail with the projects and the issues of Stock, created and published.
Init ==
    /\ shared \in Hosts
    /\ now = 0
    /\ projects = Projects /\ dep = {} /\ events = {}
    /\ issue = [i \in Issues |-> IF i \in Range(Stock) THEN [Absent EXCEPT !.status = "open"]
                                 ELSE Absent]
    /\ top = 1 + Cardinality(Projects) + 3 * Len(Stock)
    /\ audit = [n \in Seqs |-> IF n <= Len(Stock) THEN Stock[n] ELSE Unused]
    /\ outbox = [n \in Seqs |-> IF n <= Len(Stock) THEN "pending" ELSE Unused]
    /\ proc = [p \in Procs |-> Closed0]

Appends(p) ==
    \E a \in proc[p].todo :
        \/ PutIssue(p, a) \/ ReadVersion(p, a) \/ SwapIssue(p, a) \/ SwapRefused(p, a)
        \/ PutEdge(p, a) \/ PutProject(p, a) \/ PutAudit(p, a) \/ PutOutbound(p, a)
        \/ PutDelivery(p, a) \/ Cut(p, a)

Operation(p) ==
    \/ \E s \in Projects : EnsureProject(p, s) \/ DropProject(p, s)
    \/ \E i \in Issues :
         \/ Create(p, i) \/ Update(p, i) \/ Touch(p, i) \/ Release(p, i) \/ Close(p, i)
         \/ \E l \in Labels : AddLabel(p, i, l) \/ RemoveLabel(p, i, l)
         \/ \E b \in Issues : AddDep(p, i, b) \/ RemoveDep(p, i, b) \/ Supersede(p, i, b)
         \/ \E who \in Names : Claim(p, i, who)
    \/ Sweep(p)
    \/ \E n \in Seqs : MarkEvent(p, n)

Next == Tick \/ \E p \in Procs : Open(p) \/ Stop(p) \/ Appends(p) \/ Operation(p)

Spec == Init /\ [][Next]_vars

----------------------------------------------------------------------------
(* Properties *)

TypeOK ==
    /\ RowsTypeOK
    /\ top \in 0..MaxAppends
    /\ audit \in [Seqs -> Issues \cup {Unused, Gone}]
    /\ outbox \in [Seqs -> {Unused, Gone, "pending", "failed", "delivered"}]
    /\ \A p \in Procs : proc[p].version \in {"none", "fresh", "stale"}

Fixed(n) == outbox[n] \in {"delivered", Gone}

SequencesStep ==
    \A n \in Seqs :
        /\ audit'[n] # audit[n] => shared \/ audit[n] = Unused \/ audit'[n] = Gone
        /\ Fixed(n) => outbox'[n] \in {outbox[n], Gone} \/ shared

\* "So a reopened store does not reuse sequence numbers" (adapter.rs:152): whatever
\* was appended before the one process died, an audit event is never written over
\* another, and an outbox event, once delivered, stays so or goes with its project.
SequencesKept == [][SequencesStep]_vars

\* An outbox event points at an audit event of the same number (records-backend.md,
\* "one seq feeds both"), at every point between two appends.
OutboxHasAudit ==
    \A n \in Seqs : outbox[n] \notin {Unused, Gone} => audit[n] \in Issues

\* The appends of the operation in flight, type by type, and what they make of a row.
Flight(k) == {a \in UNION {proc[p].todo : p \in Procs} : a.kind = k}

RowAfter(row, saves) ==
    IF saves = {} THEN row ELSE (CHOOSE a \in saves : \A b \in saves : b.turn <= a.turn).row

\* The rows as they will be when the operation in flight has made its appends.
dueIssue == [i \in Issues |-> RowAfter(issue[i], {a \in Flight("issue") : a.id = i})]
dueDep == (dep \cup {a.edge : a \in {b \in Flight("dep") : b.live}})
              \ {a.edge : a \in {b \in Flight("dep") : ~b.live}}
dueProjects == (projects \cup {a.slug : a \in {b \in Flight("project") : b.live}})
                   \ {a.slug : a \in {b \in Flight("project") : ~b.live}}

Tables == INSTANCE IssueRows WITH issue <- dueIssue, dep <- dueDep, projects <- dueProjects
dueRows == <<now, dueProjects, dueIssue, dueDep, events>>

\* A transaction of the issue tables, as the SQLite store commits it.
Transaction ==
    \/ \E s \in Projects : Tables!EnsureProjectTx(s) \/ Tables!DropProjectTx(s)
    \/ Tables!SweepTx(now)
    \/ \E i \in Issues :
         \/ Tables!CreateTx(i, {}, now + Grace)
         \/ \E who \in Names, k \in Kinds, ttl \in Deadlines \cup TTLRequests \cup {AgentTTL, MaxTTL} :
              Tables!ClaimTx(i, who, k, ttl, now) \/ Tables!TouchTx(i, who, ttl, now)
         \/ Tables!ReleaseTx(i)
         \/ \E st \in Statuses :
              Tables!UpdateTx(i, st, dueIssue[i].evidence, Tables!DeferredTo(i, now))
         \/ \E l \in Labels : \/ Tables!SetLabelsTx(i, dueIssue[i].labels \cup {l})
                              \/ Tables!SetLabelsTx(i, dueIssue[i].labels \ {l})
         \/ \E ev \in Receipts : Tables!OpenBlockers(i) = {} /\ Tables!CloseTx(i, {ev})
         \/ \E b \in Issues : \/ Tables!AddDepTx(i, b) \/ Tables!RemoveDepTx(i, b)
                              \/ Tables!SupersedeTx(i, b)

Dies == \E p \in Procs : proc[p].todo # {} /\ ~proc'[p].open
Passes == now' # now /\ UNCHANGED <<dueProjects, dueIssue, dueDep, events>>

\* "Every Db method has a faithful counterpart here; the two stores share the same
\* invariants" (adapter.rs:5): seen from where it will have made its appends, each
\* operation is one transaction of the issue tables and each append changes nothing,
\* for as long as no process dies in the middle.
ImplementsTables == [][shared \/ Dies \/ Passes \/ Transaction]_dueRows

OneClaimStep ==
    \A i \in Issues : Held(i, now) => issue'[i].assignee \in {issue[i].assignee, NoOne}

\* "A live foreign claim is AlreadyClaimed, never a silent steal" (adapter.rs:8), with
\* a single process over its trail, whenever it died and was opened again.
NeverStolen == [][shared \/ OneClaimStep]_vars

\* "Two invocations cannot both win a claim through last-writer-wins"
\* (soil_engine.rs:5): over soil:records too, no append turns a live claim into another
\* name's.
OneClaimWins == [][OneClaimStep]_vars

----------------------------------------------------------------------------
(* The invariant that carries these, proved in RecordStoreProofs. *)

Revisions ==
    [turn : Nat, kind : {"issue"}, id : Issues, row : Row, swap : BOOLEAN]
    \cup [turn : Nat, kind : {"dep"}, edge : Issues \X Issues, live : BOOLEAN]
    \cup [turn : Nat, kind : {"project"}, slug : Projects, live : BOOLEAN]
    \cup [turn : Nat, kind : {"audit", "outbound"}, at : Nat \ {0}, id : Issues]
    \cup [turn : Nat, kind : {"delivery"}, at : Seqs, state : {"delivered", "failed"}]
    \cup [turn : Nat, kind : {"cut audit", "cut outbound"}, at : Seqs]

Invocation == [open : BOOLEAN, seq : Nat, todo : SUBSET Revisions,
               version : {"none", "fresh", "stale"}]

TypeInv ==
    /\ TypeOK
    /\ shared \in BOOLEAN
    /\ proc \in [Procs -> Invocation]
    /\ \A p \in Procs : \A a \in proc[p].todo : a.kind = "issue" => RowConsistent(a.row)

\* Sequence numbers come one after another, each revision takes one of the trail's.
CountInv ==
    /\ \A p \in Procs : proc[p].seq <= top /\ (~proc[p].open => proc[p].todo = {})
    /\ ~shared => \A p, q \in Procs : proc[p].open /\ proc[q].open => p = q
    /\ \A n \in Seqs : audit[n] # Unused =>
          /\ n <= top
          /\ ~shared => \A p \in Procs : proc[p].open => n <= proc[p].seq
    /\ \A n \in Seqs : outbox[n] # Unused => audit[n] # Unused

\* What an operation logs: the next numbers, the audit event of each first.
Numbered(p, T) ==
    /\ \A a \in T : a.kind = "audit" =>
          /\ a.at > proc[p].seq
          /\ \/ a.at = proc[p].seq + 1
             \/ \E b \in T : b.kind = "audit" /\ b.at = a.at - 1 /\ b.turn < a.turn
    /\ \A a \in T : a.kind = "outbound" =>
          \/ /\ a.at <= proc[p].seq /\ a.at \in Seqs /\ audit[a.at] \in Issues
             /\ ~shared => outbox[a.at] = Unused
          \/ \E b \in T : b.kind = "audit" /\ b.at = a.at /\ b.turn < a.turn
    /\ \A a, b \in T : a.kind \in {"audit", "outbound"} /\ a.kind = b.kind /\ a.at = b.at
                          => a = b

\* A drop takes the outbox before the audit trail.
CutsOrdered(T) ==
    /\ \A a \in T : a.kind \in {"cut audit", "cut outbound"} =>
          /\ audit[a.at] # Unused
          /\ \A b \in T : b.kind \notin {"audit", "outbound", "delivery"}
    /\ \A a \in T : a.kind = "cut audit" =>
          \/ outbox[a.at] \in {Unused, Gone}
          \/ \E b \in T : b.kind = "cut outbound" /\ b.at = a.at /\ b.turn < a.turn

\* Over a shared host nothing is dropped; a drop takes the edges before the issues.
Orderly(T) ==
    /\ \A a \in T : shared => /\ a.kind \in {"issue", "audit", "outbound"}
                              /\ a.kind = "issue" => a.row.status # "none"
    /\ CutsOrdered(T)
    /\ \A a \in T : a.kind = "delivery" => T = {a} /\ outbox[a.at] \in {"pending", "failed"}
    /\ \A a \in T : a.kind = "dep" /\ a.live =>
          /\ Exists(a.edge[1]) /\ Exists(a.edge[2])
          /\ \A b \in T : b.kind = "issue" => b.row.status # "none"
    /\ \A a \in T : a.kind = "issue" /\ a.row.status = "none" => \A e \in dep :
          a.id \in {e[1], e[2]} =>
              \E b \in T : b.kind = "dep" /\ ~b.live /\ b.edge = e /\ b.turn < a.turn

\* With one process, what is saved over a live claim keeps its holder or frees it.
Respectful(T) ==
    ~shared => \A a \in T : a.kind = "issue" =>
        /\ Held(a.id, now) => a.row.assignee \in {issue[a.id].assignee, NoOne}
        /\ \A b \in T : b.kind = "issue" /\ b.id = a.id /\ b # a => a.row.assignee = NoOne

\* The appends of a process tell what each row is going to be.
Decided(T) ==
    ~shared =>
        /\ \A a, b \in T :
              a.kind = "issue" /\ b.kind = "issue" /\ a.id = b.id /\ a.turn = b.turn => a = b
        /\ \A a \in T : a.kind = "issue" => \E b \in T :
              /\ b.kind = "issue" /\ b.id = a.id
              /\ \A c \in T : c.kind = "issue" /\ c.id = a.id => c.turn <= b.turn
        /\ \A a, b \in T : a.kind = "dep" /\ b.kind = "dep" /\ a.edge = b.edge => a.live = b.live
        /\ \A a, b \in T : a.kind = "project" /\ b.kind = "project" => a = b

Planned(p) ==
    /\ Numbered(p, proc[p].todo) /\ Orderly(proc[p].todo)
    /\ Respectful(proc[p].todo) /\ Decided(proc[p].todo)

Ind ==
    /\ TypeInv /\ CountInv /\ OutboxHasAudit /\ EdgesResolve
    /\ shared => dep = {}
    /\ \A p \in Procs : Planned(p)

\* No other invocation writes to a trail file: a version read from it stays the latest.
Current == ~shared => \A p \in Procs : proc[p].version # "stale"
==============================================================================
