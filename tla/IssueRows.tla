------------------------------ MODULE IssueRows ------------------------------
(****************************************************************************)
(* The tables of one Marbles store and the transactions that write them:    *)
(* project, issue, dep, history and outbound_event, as src/src/db.rs reads  *)
(* and writes them.  Each ...Tx operator is one committed transaction; the  *)
(* stores (SqliteStore, PostgresStore) decide which requests run which      *)
(* transactions, in how many separate steps.                                *)
(*                                                                          *)
(* Abstracted: title, description, priority, metadata, parent, close_reason *)
(* and the timestamps no guard reads (claimed_at, created_at, updated_at,   *)
(* closed_at); a receipt, a label, a name is a model value.  An operation   *)
(* that fails returns an error and writes nothing, so failure is the guard  *)
(* of its transaction being false.                                          *)
(****************************************************************************)
EXTENDS Integers, FiniteSets

CONSTANTS
    Issues,         \* issue ids
    Projects,       \* project slugs
    ProjectOf,      \* the project an id belongs to
    Humans, Agents, \* names a claim can be held under
    NoOne,          \* assignee IS NULL
    Labels,         \* labels a client may set
    Receipts,       \* evidence a client may attach (pr, commit, ack)
    MaxTTL,         \* Policy.max_ttl_seconds
    AgentTTL,       \* Policy.agent_ttl_seconds
    Deadlines,      \* lengths a business-hours deadline can have
    Grace,          \* Policy.creation_grace_seconds
    EditDeferral,   \* Policy.edit_deferral_seconds
    Horizon         \* bound: the last second of the run

Names == Humans \cup Agents

ASSUME NamesAssumption == NoOne \notin Names
ASSUME ProjectAssumption == ProjectOf \in [Issues -> Projects]
ASSUME PolicyAssumption ==
    /\ {MaxTTL, AgentTTL, Grace, EditDeferral, Horizon} \subseteq Nat
    /\ Deadlines \subseteq Nat

VARIABLES
    now,        \* the wall clock, in seconds
    projects,   \* rows of project
    issue,      \* rows of issue, one per id
    dep,        \* rows of dep: <<issue_id, depends_on>>
    events      \* what the last step appended to history and outbound_event

rowVars == <<now, projects, issue, dep, events>>

----------------------------------------------------------------------------
(* Rows *)

Statuses == {"open", "in_progress", "review", "blocked", "deferred", "closed"}
Kinds == {"agent", "human"}

\* The evidence and the label by which supersede records the replacement.
Ack(r) == <<"superseded by", r>>
Pointer(r) == <<"supersedes", r>>

Evidence == Receipts \cup {Ack(r) : r \in Issues}
LabelSet == Labels \cup {Pointer(r) : r \in Issues}

Row == [status    : Statuses \cup {"none"},
        assignee  : Names \cup {NoOne},
        kind      : Kinds \cup {"none"},
        expires   : Int,
        available : Int,
        evidence  : SUBSET Evidence,
        labels    : SUBSET LabelSet]

\* An id with no row.
Absent == [status |-> "none", assignee |-> NoOne, kind |-> "none", expires |-> 0,
           available |-> 0, evidence |-> {}, labels |-> {}]

EventNames == {"created", "claimed", "heartbeat", "released", "escalated", "claim_expired",
               "updated", "status", "labels", "closed", "depends_on", "unblocked_from"}
Event == [issue : Issues, event : EventNames, queued : BOOLEAN]

\* The columns of a claim are set and cleared together, and an id without a row
\* has nothing.
RowConsistent(row) ==
    /\ row.assignee = NoOne <=> row.kind = "none"
    /\ row.status = "none" => row = Absent

\* Type correctness: the columns have the types the schema and the setters give
\* them, and claim columns are never half set.
RowsTypeOK ==
    /\ now \in Nat
    /\ projects \subseteq Projects
    /\ issue \in [Issues -> Row]
    /\ \A i \in Issues : RowConsistent(issue[i])
    /\ dep \subseteq Issues \X Issues
    /\ events \subseteq Event

RowsInit ==
    /\ now = 0
    /\ projects = Projects
    /\ issue = [i \in Issues |-> Absent]
    /\ dep = {}
    /\ events = {}

Exists(i) == issue[i].status # "none"
Held(i, at) == issue[i].assignee # NoOne /\ issue[i].expires > at
Lapsed(i, at) == issue[i].assignee # NoOne /\ issue[i].expires <= at

Blockers(i) == {b \in Issues : <<i, b>> \in dep}
OpenBlockers(i) == {b \in Blockers(i) : issue[b].status \notin {"none", "closed"}}

Freed(row) == [row EXCEPT !.assignee = NoOne, !.kind = "none", !.expires = 0]
Lesser(a, b) == IF a < b THEN a ELSE b
Greater(a, b) == IF a > b THEN a ELSE b

\* Mutant: the outbox row is decided by the row as it was before the transaction.
Logged_FromOldRow(i, e) == [issue |-> i, event |-> e, queued |-> issue[i].status # "none"]

\* log_event: a history row always, an outbox row only when the issue row exists.
Logged(i, e) == [issue |-> i, event |-> e, queued |-> issue'[i].status # "none"]

----------------------------------------------------------------------------
(* Projects and creation *)

EnsureProjectTx(p) ==
    /\ projects' = projects \cup {p}
    /\ events' = {}
    /\ UNCHANGED <<now, issue, dep>>

\* Mutant: only the edges going out of the project are dropped.
DropProjectTx_OneWay(p) ==
    LET mine == {i \in Issues : ProjectOf[i] = p}
    IN  /\ p \in projects
        /\ projects' = projects \ {p}
        /\ issue' = [i \in Issues |-> IF i \in mine THEN Absent ELSE issue[i]]
        /\ dep' = {e \in dep : e[1] \notin mine}
        /\ events' = {}
        /\ UNCHANGED now

\* drop_project removes the project's rows, every edge touching them, and their
\* history and outbox rows.
DropProjectTx(p) ==
    LET mine == {i \in Issues : ProjectOf[i] = p}
    IN  /\ p \in projects
        /\ projects' = projects \ {p}
        /\ issue' = [i \in Issues |-> IF i \in mine THEN Absent ELSE issue[i]]
        /\ dep' = {e \in dep : e[1] \notin mine /\ e[2] \notin mine}
        /\ events' = {}
        /\ UNCHANGED now

CreateTx(i, ls, available) ==
    /\ ProjectOf[i] \in projects
    /\ ~Exists(i)
    /\ issue' = [issue EXCEPT ![i] = [Absent EXCEPT !.status = "open",
                                                    !.available = available,
                                                    !.labels = ls]]
    /\ events' = {Logged(i, "created")}
    /\ UNCHANGED <<now, projects, dep>>

----------------------------------------------------------------------------
(* Claims *)

\* Mutant: no holder check, the last claim wins.
ClaimTx_LastWins(i, who, k, ttl, at) ==
    /\ Exists(i)
    /\ issue' = [issue EXCEPT ![i] = [@ EXCEPT !.assignee = who, !.kind = k,
                                               !.expires = at + ttl]]
    /\ events' = {Logged(i, "claimed")}
    /\ UNCHANGED <<now, projects, dep>>

ClaimTx(i, who, k, ttl, at) ==
    /\ Exists(i)
    /\ ~(Held(i, at) /\ issue[i].assignee # who)
    /\ issue' = [issue EXCEPT ![i] = [@ EXCEPT !.assignee = who, !.kind = k,
                                               !.expires = at + ttl]]
    /\ events' = {Logged(i, "claimed")}
    /\ UNCHANGED <<now, projects, dep>>

\* Renewal: only the holder, with the ttl of the kind stored in the row.  A human
\* renewal is not clamped to MaxTTL.
TouchTx(i, who, ttl, at) ==
    /\ Exists(i)
    /\ issue[i].assignee = who
    /\ issue[i].kind = "human" => ttl \in Deadlines
    /\ issue[i].kind # "human" => ttl = AgentTTL
    /\ issue' = [issue EXCEPT ![i].expires = at + ttl]
    /\ events' = {Logged(i, "heartbeat")}
    /\ UNCHANGED <<now, projects, dep>>

\* Db::release clears whatever claim the row has; the holder check is the caller's.
ReleaseTx(i) ==
    /\ issue' = [issue EXCEPT ![i] = Freed(@)]
    /\ events' = {Logged(i, "released")}
    /\ UNCHANGED <<now, projects, dep>>

\* Mutant: every claim is requeued, lapsed or not.
SweepTx_TakesLive(at) ==
    LET taken == {i \in Issues : issue[i].assignee # NoOne}
    IN  /\ issue' = [i \in Issues |-> IF i \in taken THEN Freed(issue[i]) ELSE issue[i]]
        /\ events' = {Logged(i, "claim_expired") : i \in taken}
        /\ UNCHANGED <<now, projects, dep>>

\* Mutant: stops at lapsed human holds without reporting them, and agent claims
\* are reported without being cleared.
SweepTx_Swapped(at) ==
    LET lapsed == {i \in Issues : Lapsed(i, at)}
        human  == {i \in lapsed : issue[i].kind = "human"}
    IN  /\ issue' = [i \in Issues |-> IF i \in human THEN Freed(issue[i]) ELSE issue[i]]
        /\ events' = {Logged(i, "claim_expired") : i \in lapsed \ human}
        /\ UNCHANGED <<now, projects, dep>>

\* Mutant: lapsed human holds are skipped without a word.
SweepTx_NoEscalation(at) ==
    LET lapsed == {i \in Issues : Lapsed(i, at) /\ issue[i].kind # "human"}
    IN  /\ issue' = [i \in Issues |-> IF i \in lapsed THEN Freed(issue[i]) ELSE issue[i]]
        /\ events' = {Logged(i, "claim_expired") : i \in lapsed}
        /\ UNCHANGED <<now, projects, dep>>

\* Lapsed agent claims are cleared, lapsed human holds only reported.
SweepTx(at) ==
    LET lapsed == {i \in Issues : Lapsed(i, at)}
        human  == {i \in lapsed : issue[i].kind = "human"}
    IN  /\ issue' = [i \in Issues |-> IF i \in lapsed \ human THEN Freed(issue[i])
                                      ELSE issue[i]]
        /\ events' = {Logged(i, "escalated") : i \in human}
                        \cup {Logged(i, "claim_expired") : i \in lapsed \ human}
        /\ UNCHANGED <<now, projects, dep>>

----------------------------------------------------------------------------
(* Edits, labels and closing *)

\* update with the values the row ends up with: st and ev are the patch's, or the
\* row's own when the patch has none.
UpdateTx(i, st, ev, available) ==
    /\ Exists(i)
    /\ issue' = [issue EXCEPT ![i] = [@ EXCEPT !.status = st, !.evidence = ev,
                                               !.available = available]]
    /\ events' = {Logged(i, "updated")}
                    \cup (IF st # issue[i].status THEN {Logged(i, "status")} ELSE {})
    /\ UNCHANGED <<now, projects, dep>>

DeferredTo(i, at) == Greater(at + EditDeferral, issue[i].available)

SetLabelsTx(i, ls) ==
    /\ Exists(i)
    /\ issue' = [issue EXCEPT ![i].labels = ls]
    /\ events' = {Logged(i, "labels")}
    /\ UNCHANGED <<now, projects, dep>>

Closed(row, ev) == [Freed(row) EXCEPT !.status = "closed", !.evidence = @ \cup ev]

CloseTx(i, ev) ==
    /\ Exists(i)
    /\ issue' = [issue EXCEPT ![i] = Closed(@, ev)]
    /\ events' = {Logged(i, "closed")}
    /\ UNCHANGED <<now, projects, dep>>

Superseded(row, r) == [Closed(row, {Ack(r)}) EXCEPT !.labels = @ \cup {Pointer(r)}]

\* PostgreSQL's supersede: close and pointer in one transaction.
SupersedeTx(i, r) ==
    /\ Exists(i) /\ Exists(r)
    /\ issue' = [issue EXCEPT ![i] = Superseded(@, r)]
    /\ events' = {Logged(i, "closed")}
         \cup (IF Pointer(r) \in issue[i].labels THEN {} ELSE {Logged(i, "labels")})
    /\ UNCHANGED <<now, projects, dep>>

----------------------------------------------------------------------------
(* Dependencies *)

\* The rows the recursive walk of `reachable` returns: the least set holding x
\* and closed under the edges d.
Reach(d, x) ==
    {y \in Issues : \A S \in SUBSET Issues :
        (x \in S /\ \A e \in d : e[1] \in S => e[2] \in S) => y \in S}

\* Mutant: only the direct back edge is refused.
AddDepTx_ShallowCheck(c, p) ==
    /\ c # p
    /\ Exists(c) /\ Exists(p)
    /\ <<p, c>> \notin dep
    /\ dep' = dep \cup {<<c, p>>}
    /\ UNCHANGED <<now, projects, issue>>
    /\ events' = {Logged(c, "depends_on")}

AddDepTx(c, p) ==
    /\ c # p
    /\ Exists(c) /\ Exists(p)
    /\ c \notin Reach(dep, p)
    /\ dep' = dep \cup {<<c, p>>}
    /\ UNCHANGED <<now, projects, issue>>
    /\ events' = {Logged(c, "depends_on")}

\* remove_dep checks neither issue: the history row is written either way.
RemoveDepTx(c, p) ==
    /\ dep' = dep \ {<<c, p>>}
    /\ UNCHANGED <<now, projects, issue>>
    /\ events' = {Logged(c, "unblocked_from")}

----------------------------------------------------------------------------
(* Properties both stores are held to *)

\* add_dep refuses an edge whose target already reaches its source (db.rs:1126):
\* the graph never has a cycle, whatever sequence of adds, removals and drops.
DepAcyclic == \A e \in dep : e[1] \notin Reach(dep, e[2])

\* Edges have live endpoints (db.rs:502): dropping a project leaves no dangling edge.
EdgesResolve == \A e \in dep : Exists(e[1]) /\ Exists(e[2])

\* "Closing requires merge evidence or an explicit acknowledgement" (README.md:34).
\* Refuted (README.md of this directory, Disagreements).
ClosedHasReceipt == \A i \in Issues : issue[i].status = "closed" => issue[i].evidence # {}

\* The name whose live claim each issue is under.
heldBy == [i \in Issues |-> IF Held(i, now) THEN issue[i].assignee ELSE NoOne]

Lease == INSTANCE LeaseLock WITH holder <- heldBy

\* "A race with an answer" (README.md:30): claims, renewals, sweeps, releases and
\* closes, on clock readings of any age, implement a lock per issue.
LeaseSpec == Lease!Spec

LiveClaimStep ==
    \A i \in Issues :
        Held(i, now) /\ issue'[i].assignee # issue[i].assignee /\ issue'[i].status # "none"
            => \E e \in events' : e.issue = i /\ e.event \in {"released", "closed"}

\* A live claim ends only by a release or a close, never by a sweep, a claim or an
\* edit that raced with it (db.rs:1317, db.rs:1396).
LiveClaimEnds == [][LiveClaimStep]_rowVars

\* The event names that may account for a change of assignee.
ClaimEvents == {"claimed", "released", "claim_expired", "closed"}

Accounted(i, names) == \E e \in events' : e.issue = i /\ e.event \in names /\ e.queued

RowsAudited ==
    \A i \in Issues : issue'[i] # issue[i] /\ issue'[i].status # "none"
        => /\ Accounted(i, EventNames)
           /\ issue'[i].assignee # issue[i].assignee => Accounted(i, ClaimEvents)

EdgesAudited ==
    \A e \in (dep \ dep') \cup (dep' \ dep) :
        issue'[e[1]].status # "none" /\ issue'[e[2]].status # "none"
            => Accounted(e[1], {"depends_on", "unblocked_from"})

\* "Every history mutation appends an outbox row in the same transaction"
\* (README.md:324): a surviving row, or an edge between surviving rows, changes only
\* in a step that queues an event for it, and an assignee only under a claim event.
AuditTrail == [][RowsAudited /\ EdgesAudited]_rowVars
==============================================================================
