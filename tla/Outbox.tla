------------------------------- MODULE Outbox --------------------------------
(****************************************************************************)
(* The transactional outbox and the webhook publisher of each server        *)
(* (Publisher in src/src/webhook.rs), over the stores the server's registry *)
(* has open (CompanyStores in src/src/db.rs, PostgresCompanyStores in       *)
(* src/src/postgres_store.rs).  One row per event id <<store, seq>>.        *)
(*                                                                          *)
(* A row's next_attempt_at is modelled by the seconds left until then; time *)
(* may pass between any two steps.  The receiver is outside the repository. *)
(****************************************************************************)
EXTENDS Integers, FiniteSets

CONSTANTS
    Stores,         \* company stores, numbered in the order of their names
    Publishers,     \* server processes
    Sqlite,         \* whether the stores are SQLite files or companies in PostgreSQL
    Limit,          \* events one fetch returns: 64
    MaxExp,         \* cap of the backoff exponent: 8
    Refused,        \* event ids the receiver never accepts
    MaxSeq,         \* bound: per store, the events it logs
    MaxFaults       \* bound: errors, lost answers and crashes of the run

ASSUME StoresAssumption == Stores \subseteq Nat
ASSUME BoundsAssumption == {Limit, MaxExp, MaxFaults} \subseteq Nat /\ MaxSeq \in [Stores -> Nat]
ASSUME BackendAssumption == Sqlite \in BOOLEAN

Ids == UNION {{s} \X (1..MaxSeq[s]) : s \in Stores}

VARIABLES
    outbox,     \* rows of outbound_event, by id
    next,       \* per store, the sequence number the next history row gets
    open,       \* per process, the stores its registry has open
    pc,         \* per publisher: between passes, in a pass, or waiting to record a send
    todo,       \* stores the pass still has to visit
    batch,      \* <<id, attempts>> fetched from the current store and not sent yet
    sent,       \* the <<id, attempts>> being delivered
    ok,         \* whether that delivery was answered 2xx
    accepted,   \* ids the receiver has accepted
    faults      \* faults so far

vars == <<outbox, next, open, pc, todo, batch, sent, ok, accepted, faults>>
pubVars == <<pc, todo, batch, sent, ok>>

NoRow == [state |-> "none", wait |-> 0, attempts |-> 0]
Row == [state : {"none", "pending", "delivered"}, wait : 0..(2 ^ MaxExp), attempts : 0..MaxExp]
NoEvent == <<<<0, 0>>, 0>>
Entries == Ids \X (0..MaxExp)

TypeOK ==
    /\ outbox \in [Ids -> Row]
    /\ next \in [Stores -> Nat]
    /\ open \in [Publishers -> SUBSET Stores]
    /\ pc \in [Publishers -> {"idle", "pass", "mark"}]
    /\ todo \in [Publishers -> SUBSET Stores]
    /\ batch \in [Publishers -> SUBSET Entries]
    /\ sent \in [Publishers -> Entries \cup {NoEvent}]
    /\ ok \in [Publishers -> BOOLEAN]
    /\ accepted \subseteq Ids
    /\ faults \in 0..MaxFaults

\* A starting server opens every SQLite file, and no PostgreSQL company.
AtStart == IF Sqlite THEN Stores ELSE {}

Init ==
    /\ outbox = [id \in Ids |-> NoRow]
    /\ next = [s \in Stores |-> 1]
    /\ open = [p \in Publishers |-> AtStart]
    /\ pc = [p \in Publishers |-> "idle"]
    /\ todo = [p \in Publishers |-> {}]
    /\ batch = [p \in Publishers |-> {}]
    /\ sent = [p \in Publishers |-> NoEvent]
    /\ ok = [p \in Publishers |-> FALSE]
    /\ accepted = {}
    /\ faults = 0

Pending(id) == outbox[id].state = "pending"
Fault == faults < MaxFaults /\ faults' = faults + 1

----------------------------------------------------------------------------
(* What the requests do *)

\* for_company: a request opens its company's store in the process that serves it.
Open(p, s) ==
    /\ s \notin open[p]
    /\ open' = [open EXCEPT ![p] = @ \cup {s}]
    /\ UNCHANGED <<outbox, next, pubVars, accepted, faults>>

\* Mutant: the sequence number is one more than the largest in use.
Append_MaxPlusOne(s, queued) ==
    LET used == {id[2] : id \in {e \in Ids : e[1] = s /\ outbox[e].state # "none"}}
    IN  \E q \in (1..MaxSeq[s]) \ used :
            /\ \A r \in used : r < q
            /\ q - 1 \in used \cup {0}
            /\ queued
            /\ outbox' = [outbox EXCEPT ![<<s, q>>] = [NoRow EXCEPT !.state = "pending"]]
            /\ UNCHANGED <<next, open, pubVars, accepted, faults>>

\* log_event: the history row takes the next number, AUTOINCREMENT in SQLite and MAX(seq)+1
\* in PostgreSQL, where no history row is ever deleted; the outbox row is queued under it
\* when the issue exists.
Append(s, queued) ==
    /\ \E p \in Publishers : s \in open[p]
    /\ next[s] <= MaxSeq[s]
    /\ next' = [next EXCEPT ![s] = @ + 1]
    /\ outbox' = IF queued
                 THEN [outbox EXCEPT ![<<s, next[s]>>] = [NoRow EXCEPT !.state = "pending"]]
                 ELSE outbox
    /\ UNCHANGED <<open, pubVars, accepted, faults>>

\* drop_project, which only SQLite has, deletes the rows of its issues, delivered or not.
Drop(s, gone) ==
    /\ Sqlite
    /\ \A id \in gone : id[1] = s /\ outbox[id].state # "none"
    /\ outbox' = [id \in Ids |-> IF id \in gone THEN NoRow ELSE outbox[id]]
    /\ UNCHANGED <<next, open, pubVars, accepted, faults>>

----------------------------------------------------------------------------
(* The publisher: deliver_once every 250 ms *)

Start(p) ==
    /\ pc[p] = "idle"
    /\ open[p] # {}
    /\ pc' = [pc EXCEPT ![p] = "pass"]
    /\ todo' = [todo EXCEPT ![p] = open[p]]
    /\ UNCHANGED <<outbox, next, open, batch, sent, ok, accepted, faults>>

\* Mutant: an event that failed too often is left alone.
Due_GivesUp(s) ==
    {id \in Ids : id[1] = s /\ Pending(id) /\ outbox[id].wait = 0
                            /\ outbox[id].attempts < MaxExp}

\* pending_events: undelivered, due, in order of seq, at most Limit.
Due(s) == {id \in Ids : id[1] = s /\ Pending(id) /\ outbox[id].wait = 0}
FirstDue(s) == {id \in Due(s) : Cardinality({e \in Due(s) : e[2] < id[2]}) < Limit}

Fetch(p, s) ==
    /\ pc[p] = "pass" /\ batch[p] = {}
    /\ s \in todo[p] /\ \A z \in todo[p] : s <= z
    /\ todo' = [todo EXCEPT ![p] = @ \ {s}]
    /\ batch' = [batch EXCEPT ![p] = {<<id, outbox[id].attempts>> : id \in FirstDue(s)}]
    /\ UNCHANGED <<outbox, next, open, pc, sent, ok, accepted, faults>>

EndPass(p) ==
    /\ pc[p] = "pass" /\ batch[p] = {} /\ todo[p] = {}
    /\ pc' = [pc EXCEPT ![p] = "idle"]
    /\ UNCHANGED <<outbox, next, open, todo, batch, sent, ok, accepted, faults>>

\* deliver: accepted and answered, accepted but the answer lost or late, or not accepted.
Send(p, e) ==
    /\ pc[p] = "pass"
    /\ e \in batch[p] /\ \A f \in batch[p] : e[1][2] <= f[1][2]
    /\ batch' = [batch EXCEPT ![p] = @ \ {e}]
    /\ sent' = [sent EXCEPT ![p] = e]
    /\ pc' = [pc EXCEPT ![p] = "mark"]
    /\ \/ /\ e[1] \notin Refused
          /\ accepted' = accepted \cup {e[1]}
          /\ \/ ok' = [ok EXCEPT ![p] = TRUE] /\ UNCHANGED faults
             \/ ok' = [ok EXCEPT ![p] = FALSE] /\ Fault
       \/ /\ e[1] \in Refused
          /\ ok' = [ok EXCEPT ![p] = FALSE]
          /\ UNCHANGED <<accepted, faults>>
       \/ /\ ok' = [ok EXCEPT ![p] = FALSE]
          /\ Fault
          /\ UNCHANGED accepted
    /\ UNCHANGED <<outbox, next, open, todo>>

Delay(attempts) == 2 ^ attempts
Bump(attempts) == IF attempts < MaxExp THEN attempts + 1 ELSE MaxExp

\* Mutant: any answer counts as delivered.
Mark_AnyAnswer(p) ==
    /\ pc[p] = "mark"
    /\ outbox' = [outbox EXCEPT ![sent[p][1]] =
                     IF @.state = "pending" THEN [@ EXCEPT !.state = "delivered"] ELSE @]
    /\ pc' = [pc EXCEPT ![p] = "pass"]
    /\ sent' = [sent EXCEPT ![p] = NoEvent]
    /\ UNCHANGED <<next, open, todo, batch, ok, accepted, faults>>

\* mark_event_delivered or mark_event_failed, if the row is still undelivered.  The
\* delay is computed from the attempts fetched with the event.
Mark(p) ==
    /\ pc[p] = "mark"
    /\ LET id == sent[p][1]
           row == outbox[id]
       IN  outbox' = [outbox EXCEPT ![id] =
             IF row.state # "pending" THEN row
             ELSE IF ok[p] THEN [NoRow EXCEPT !.state = "delivered"]
             ELSE [state |-> "pending", wait |-> Delay(sent[p][2]),
                   attempts |-> Bump(row.attempts)]]
    /\ pc' = [pc EXCEPT ![p] = "pass"]
    /\ sent' = [sent EXCEPT ![p] = NoEvent]
    /\ UNCHANGED <<next, open, todo, batch, ok, accepted, faults>>

\* An error of a store, reading or marking, abandons the rest of the pass.
StoreError(p) ==
    /\ \/ pc[p] = "pass" /\ batch[p] = {} /\ todo[p] # {}
       \/ pc[p] = "mark"
    /\ Fault
    /\ pc' = [pc EXCEPT ![p] = "idle"]
    /\ todo' = [todo EXCEPT ![p] = {}]
    /\ batch' = [batch EXCEPT ![p] = {}]
    /\ sent' = [sent EXCEPT ![p] = NoEvent]
    /\ UNCHANGED <<outbox, next, open, ok, accepted>>

\* The process dies, between a send and its mark too, and starts again.
Crash(p) ==
    /\ Fault
    /\ open' = [open EXCEPT ![p] = AtStart]
    /\ pc' = [pc EXCEPT ![p] = "idle"]
    /\ todo' = [todo EXCEPT ![p] = {}]
    /\ batch' = [batch EXCEPT ![p] = {}]
    /\ sent' = [sent EXCEPT ![p] = NoEvent]
    /\ ok' = [ok EXCEPT ![p] = FALSE]
    /\ UNCHANGED <<outbox, next, accepted>>

\* A second passes.
Tick ==
    /\ \E id \in Ids : outbox[id].wait > 0
    /\ outbox' = [id \in Ids |->
                    IF outbox[id].wait > 0 THEN [outbox[id] EXCEPT !.wait = @ - 1]
                    ELSE outbox[id]]
    /\ UNCHANGED <<next, open, pubVars, accepted, faults>>

----------------------------------------------------------------------------
Deliver(p) == \/ Start(p) \/ EndPass(p) \/ Mark(p)
              \/ \E s \in Stores : Fetch(p, s)
              \/ \E e \in batch[p] : Send(p, e)

Next ==
    \/ \E s \in Stores :
          \/ \E queued \in BOOLEAN : Append(s, queued)
          \/ \E gone \in SUBSET Ids : Drop(s, gone)
          \/ \E p \in Publishers : Open(p, s)
    \/ \E p \in Publishers : Deliver(p) \/ StoreError(p) \/ Crash(p)
    \/ Tick

Spec == Init /\ [][Next]_vars

\* The publisher's loop never ends, time passes, and every company's clients keep
\* making requests: without that a PostgreSQL server that has restarted would not know
\* the company's store.
Fairness ==
    /\ WF_vars(Tick)
    /\ \A p \in Publishers : WF_vars(Deliver(p))
    /\ \A p \in Publishers, s \in Stores : WF_vars(Open(p, s))

FairSpec == Spec /\ Fairness

----------------------------------------------------------------------------
(* Properties *)

\* "Marks only a successful 2xx response delivered" (README.md:327): an event marked
\* delivered was accepted by the receiver, in spite of crashes, lost answers, dropped
\* projects and other publishers working on the same rows.
DeliveredWasAccepted ==
    \A id \in Ids : outbox[id].state = "delivered" => id \in accepted

FreshStep ==
    \A id \in Ids :
        outbox[id].state = "none" /\ outbox'[id].state # "none"
            => /\ id \notin accepted
               /\ \A p \in Publishers : pc[p] = "mark" => sent[p][1] # id

\* "`seq` alone is not globally unique; `(store_id, seq)` is" (webhook.rs:43): a new event
\* never takes an id the receiver has seen or a publisher still has in hand, though
\* drop_project deletes rows.
FreshIds == [][FreshStep]_vars

\* Every event the receiver would accept is delivered, however many passes fail first,
\* while fewer events than one fetch returns are refused for good (webhook.rs:348).
EventuallyDelivered ==
    \A id \in Ids : id \notin Refused => (Pending(id) ~> ~Pending(id))
==============================================================================
