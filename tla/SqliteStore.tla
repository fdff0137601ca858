----------------------------- MODULE SqliteStore -----------------------------
(****************************************************************************)
(* The SQLite store (src/src/db.rs) behind the API handlers of              *)
(* src/src/api.rs.  Handlers run concurrently on blocking threads; one      *)
(* mutex guards the connection, so a lock section is atomic, but a request  *)
(* with several lock sections interleaves with others between them.         *)
(*                                                                          *)
(* A handler reads the clock before it queues for the lock: the time `at`   *)
(* a transaction works with is a Stamp, up to MaxLag seconds old.           *)
(****************************************************************************)
EXTENDS IssueRows

CONSTANTS
    Threads,        \* blocking workers that run requests of several lock sections
    Ops,            \* bound: the operations the clients of this instance call
    TTLRequests,    \* ttl_seconds values agents ask for
    PatchStatuses,  \* bound: statuses clients patch in
    AvailableTimes, \* available_at values clients ask for
    MaxLag          \* bound: how stale a handler's clock reading can be

ASSUME RequestAssumption ==
    /\ TTLRequests \subseteq Int
    /\ PatchStatuses \subseteq Statuses
    /\ AvailableTimes \subseteq Int
    /\ MaxLag \in Nat

VARIABLE call       \* per thread, the request between two of its lock sections

vars == <<now, projects, issue, dep, events, call>>

Idle == [pc |-> "idle"]

\* What a thread holds on to between its lock sections.
Call == {Idle}
    \cup [pc : {"release"}, id : Issues, who : Names]
    \cup [pc : {"close"}, id : Issues, ev : (SUBSET Receipts) \ {{}}]
    \cup [pc : {"supersede", "point"}, id : Issues, by : Issues]
    \cup [pc : {"labels"}, id : Issues, ls : SUBSET LabelSet]

TypeOK == RowsTypeOK /\ call \in [Threads -> Call]

Init == RowsInit /\ call = [t \in Threads |-> Idle]

Stamps == {at \in 0..now : now - at <= MaxLag}

Begin(t, c) == call[t] = Idle /\ call' = [call EXCEPT ![t] = c]
Continue(t, c) == call' = [call EXCEPT ![t] = c]
Finish(t) == call' = [call EXCEPT ![t] = Idle]
\* A lock section that only reads.
Reads == events' = {} /\ UNCHANGED <<now, projects, issue, dep>>

----------------------------------------------------------------------------
(* Requests of one lock section *)

EnsureProject(p) == "project" \in Ops /\ EnsureProjectTx(p) /\ UNCHANGED call
DropProject(p) == "drop" \in Ops /\ DropProjectTx(p) /\ UNCHANGED call

Create(i) ==
    /\ "create" \in Ops
    /\ \E at \in Stamps, ls \in SUBSET Labels :
         \E available \in AvailableTimes \cup {at + Grace} : CreateTx(i, ls, available)
    /\ UNCHANGED call

\* A human principal claims as itself until a business-hours deadline; an agent
\* principal may name any assignee and ask for a ttl.  Both are clamped to MaxTTL.
\* Bound: leases end by Horizon.
Claim(i, who) ==
    /\ "claim" \in Ops
    /\ \E at \in Stamps :
         \/ /\ who \in Humans
            /\ \E d \in Deadlines : at + Lesser(d, MaxTTL) <= Horizon
                                    /\ ClaimTx(i, who, "human", Lesser(d, MaxTTL), at)
         \/ \E r \in TTLRequests \cup {AgentTTL} :
                                       at + Lesser(r, MaxTTL) <= Horizon
                                    /\ ClaimTx(i, who, "agent", Lesser(r, MaxTTL), at)
    /\ UNCHANGED call

Touch(i, who) ==
    /\ "touch" \in Ops
    /\ \E at \in Stamps, ttl \in Deadlines \cup {AgentTTL} :
         at + ttl <= Horizon /\ TouchTx(i, who, ttl, at)
    /\ UNCHANGED call

Update(i) ==
    /\ "update" \in Ops
    /\ \E at \in Stamps :
         \E st \in PatchStatuses \cup {issue[i].status},
            ev \in (SUBSET Receipts) \cup {issue[i].evidence},
            available \in AvailableTimes \cup {DeferredTo(i, at)} :
                UpdateTx(i, st, ev, available)
    /\ UNCHANGED call

AddDep(c, p) == "dep" \in Ops /\ AddDepTx(c, p) /\ UNCHANGED call
RemoveDep(c, p) == "dep" \in Ops /\ RemoveDepTx(c, p) /\ UNCHANGED call

Sweep(at) == "sweep" \in Ops /\ SweepTx(at) /\ UNCHANGED call

----------------------------------------------------------------------------
(* Requests of several lock sections *)

\* claims.release: the handler gets the issue and checks the holder ...
ReleaseCheck(t, i, who) ==
    /\ "release" \in Ops
    /\ Exists(i)
    /\ issue[i].assignee \in {NoOne, who}
    /\ Begin(t, [pc |-> "release", id |-> i, who |-> who])
    /\ Reads

\* ... and Db::release clears the claim in a transaction of its own.
ReleaseCommit(t) ==
    /\ call[t].pc = "release"
    /\ ReleaseTx(call[t].id)
    /\ Finish(t)

\* Db::close: evidence is required and check_blockers reads the blockers ...
CloseCheck(t, i, ev) ==
    /\ "close" \in Ops
    /\ ev # {}
    /\ OpenBlockers(i) = {}
    /\ Begin(t, [pc |-> "close", id |-> i, ev |-> ev])
    /\ Reads

\* ... then close_unchecked writes.
CloseCommit(t) ==
    /\ call[t].pc = "close"
    /\ CloseTx(call[t].id, call[t].ev)
    /\ Finish(t)

\* Db::supersede: the replacement must exist ...
SupersedeCheck(t, i, r) ==
    /\ "supersede" \in Ops
    /\ Exists(r)
    /\ Begin(t, [pc |-> "supersede", id |-> i, by |-> r])
    /\ Reads

\* ... close_unchecked with the acknowledgement ...
SupersedeClose(t) ==
    /\ call[t].pc = "supersede"
    /\ CloseTx(call[t].id, {Ack(call[t].by)})
    /\ Continue(t, [call[t] EXCEPT !.pc = "point"])

\* ... then add_label with the pointer: its get ...
SupersedeRead(t) ==
    LET i == call[t].id
        l == Pointer(call[t].by)
    IN  /\ call[t].pc = "point"
        /\ Exists(i)
        /\ IF l \in issue[i].labels THEN Finish(t)
           ELSE Continue(t, [pc |-> "labels", id |-> i, ls |-> issue[i].labels \cup {l}])
        /\ Reads

\* Db::add_label and Db::remove_label read the labels ...
AddLabelRead(t, i, l) ==
    /\ "label" \in Ops
    /\ Exists(i)
    /\ l \notin issue[i].labels
    /\ Begin(t, [pc |-> "labels", id |-> i, ls |-> issue[i].labels \cup {l}])
    /\ Reads

RemoveLabelRead(t, i, l) ==
    /\ "unlabel" \in Ops
    /\ Exists(i)
    /\ Begin(t, [pc |-> "labels", id |-> i, ls |-> issue[i].labels \ {l}])
    /\ Reads

\* ... and set_labels writes the set computed from that read.
LabelsCommit(t) ==
    /\ call[t].pc = "labels"
    /\ SetLabelsTx(call[t].id, call[t].ls)
    /\ Finish(t)

\* A lock section that finds its issue gone ends the request with NotFound.
NotFound(t) ==
    /\ call[t].pc \in {"close", "supersede", "point", "labels"}
    /\ ~Exists(call[t].id)
    /\ Finish(t)
    /\ Reads

\* The server dies and restarts: committed rows survive, requests do not.
Crash ==
    /\ "crash" \in Ops
    /\ call' = [t \in Threads |-> Idle]
    /\ Reads

Tick ==
    /\ now < Horizon
    /\ now' = now + 1
    /\ events' = {}
    /\ UNCHANGED <<projects, issue, dep, call>>

----------------------------------------------------------------------------
Commit(t) == \/ ReleaseCommit(t) \/ CloseCommit(t) \/ LabelsCommit(t)
             \/ SupersedeClose(t) \/ SupersedeRead(t) \/ NotFound(t)

Next ==
    \/ \E p \in Projects : EnsureProject(p) \/ DropProject(p)
    \/ \E i \in Issues : Create(i) \/ Update(i)
    \/ \E i \in Issues, who \in Names : Claim(i, who) \/ Touch(i, who)
    \/ \E c, p \in Issues : AddDep(c, p) \/ RemoveDep(c, p)
    \/ \E at \in Stamps : Sweep(at)
    \/ \E t \in Threads, i \in Issues :
          \/ \E who \in Names : ReleaseCheck(t, i, who)
          \/ \E ev \in SUBSET Receipts : CloseCheck(t, i, ev)
          \/ \E r \in Issues : SupersedeCheck(t, i, r)
          \/ \E l \in Labels : AddLabelRead(t, i, l)
          \/ \E l \in LabelSet : RemoveLabelRead(t, i, l)
    \/ \E t \in Threads : Commit(t)
    \/ Crash
    \/ Tick

Spec == Init /\ [][Next]_vars

\* Requests in flight finish unless the server crashes; the sweeper loop of
\* `marbles serve` keeps sweeping with a fresh clock reading; time passes.
Fairness ==
    /\ WF_vars(Tick)
    /\ WF_vars(Sweep(now))
    /\ \A t \in Threads : WF_vars(Commit(t))

FairSpec == Spec /\ Fairness
----------------------------------------------------------------------------
(* Properties of the claim protocol under this store's scheduling *)

\* "When it lapses, the work is silently requeued" (README.md:131): an agent that
\* dies loses its claim to the sweeper, or the row moves on without it.
LapsedAgentRequeued ==
    \A i \in Issues :
        Lapsed(i, now) /\ issue[i].kind = "agent"
            ~> issue[i].assignee = NoOne \/ issue[i].kind = "human" \/ Held(i, now)

\* "When it lapses it escalates to the owner" (README.md:133): a lapsed human hold
\* is reported, unless somebody ends or renews it first.
LapsedHumanEscalates ==
    \A i \in Issues :
        Lapsed(i, now) /\ issue[i].kind = "human"
            ~> \/ \E e \in events : e.issue = i /\ e.event = "escalated"
               \/ issue[i].kind # "human"
               \/ Held(i, now)

\* "Releasing someone else's live claim would be a steal; check the holder before
\* clearing" (api.rs:889): a release that clears a live claim clears its caller's.
\* Refuted (README.md of this directory, Disagreements).
ReleaseByHolder ==
    [][\A t \in Threads :
          ReleaseCommit(t) /\ Held(call[t].id, now)
              => issue[call[t].id].assignee = call[t].who]_vars

\* "Refuse to close past a blocker that has not reached a terminal state" (db.rs:1441):
\* the write of a close finds every blocker closed, whatever other requests did since
\* check_blockers read them.
\* Refuted (README.md of this directory, Disagreements).
CloseRespectsBlockers ==
    [][\A t \in Threads : CloseCommit(t) => OpenBlockers(call[t].id) = {}]_vars

\* "The ack carries that, and the label carries the pointer" (db.rs:1512): once the
\* requests in flight are through, an issue closed as superseded points to its replacement.
\* Refuted (README.md of this directory, Disagreements).
SupersededPoints ==
    \A i, r \in Issues :
        Ack(r) \in issue[i].evidence /\ (\A t \in Threads : call[t] = Idle)
            => Pointer(r) \in issue[i].labels
==============================================================================
