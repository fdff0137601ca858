------------------------- MODULE SqliteStoreProofs -------------------------
(****************************************************************************)
(* SqliteStore is correct for any set of issues, names, threads and         *)
(* requests: each of its steps is a transaction of IssueRows or leaves the  *)
(* tables alone, so what IssueRowsProofs shows of transactions holds of it. *)
(****************************************************************************)
EXTENDS SqliteStore, IssueRowsProofs

\* What a thread in each program point holds on to.
LEMMA CallFields ==
    ASSUME NEW c \in Call
    PROVE  /\ c.pc \in {"release", "close", "supersede", "point", "labels"} => c.id \in Issues
           /\ c.pc = "close" => c.ev \in SUBSET Evidence
           /\ c.pc \in {"supersede", "point"} => c.by \in Issues
           /\ c.pc = "labels" => c.ls \in SUBSET LabelSet
<1>1. CASE c = Idle
  BY <1>1 DEF Idle
<1>2. CASE c \in [pc : {"release"}, id : Issues, who : Names]
  BY <1>2
<1>3. CASE c \in [pc : {"close"}, id : Issues, ev : (SUBSET Receipts) \ {{}}]
  BY <1>3 DEF Evidence
<1>4. CASE c \in [pc : {"supersede", "point"}, id : Issues, by : Issues]
  BY <1>4
<1>5. CASE c \in [pc : {"labels"}, id : Issues, ls : SUBSET LabelSet]
  BY <1>5
<1> QED BY <1>1, <1>2, <1>3, <1>4, <1>5 DEF Call

\* A thread's next call, when it begins, goes on or finishes.
LEMMA CallTypes ==
    ASSUME call \in [Threads -> Call], NEW t \in Threads, NEW c \in Call,
           call' = [call EXCEPT ![t] = c]
    PROVE  call' \in [Threads -> Call]
OBVIOUS

LEMMA NewCalls ==
    /\ Idle \in Call
    /\ \A i \in Issues, who \in Names : [pc |-> "release", id |-> i, who |-> who] \in Call
    /\ \A i \in Issues, ev \in (SUBSET Receipts) \ {{}} :
          [pc |-> "close", id |-> i, ev |-> ev] \in Call
    /\ \A i, r \in Issues : [pc |-> "supersede", id |-> i, by |-> r] \in Call
    /\ \A i \in Issues, ls \in SUBSET LabelSet : [pc |-> "labels", id |-> i, ls |-> ls] \in Call
BY DEF Call

\* A clock reading is never ahead of the clock.
LEMMA StampsArePast == now \in Nat => \A at \in Stamps : at \in 0..now /\ at \in Int
BY DEF Stamps

\* The clamp of a requested lease is an integer.
LEMMA ClampIsInt ==
    ASSUME NEW a \in Int, NEW b \in Int
    PROVE  Lesser(a, b) \in Int /\ Greater(a, b) \in Int
BY DEF Lesser, Greater

\* Every step of the store is a transaction, a read, a crash or a tick.
LEMMA NextIsRows == TypeOK /\ [Next]_vars => [RowsNext]_rowVars
<1> SUFFICES ASSUME TypeOK, [Next]_vars PROVE [RowsNext]_rowVars
  OBVIOUS
<1>0. /\ now \in Nat /\ call \in [Threads -> Call] /\ issue \in [Issues -> Row]
      /\ \A j \in Issues : RowConsistent(issue[j])
  BY DEF TypeOK, RowsTypeOK
<1>t. \A at \in Stamps : at \in 0..now /\ at \in Int
  BY <1>0, StampsArePast
<1>p. /\ MaxTTL \in Int /\ AgentTTL \in Int /\ Grace \in Int /\ EditDeferral \in Int
      /\ \A d \in Deadlines : d \in Int
      /\ \A r \in TTLRequests : r \in Int
      /\ \A a \in AvailableTimes : a \in Int
      /\ PatchStatuses \subseteq Statuses
  BY PolicyAssumption, RequestAssumption
<1>r. ASSUME Reads PROVE RowsNext
  BY <1>r DEF Reads, RowsNext
<1>1. ASSUME NEW p \in Projects, EnsureProject(p) \/ DropProject(p) PROVE RowsNext
  BY <1>1 DEF EnsureProject, DropProject, RowsNext
<1>2. ASSUME NEW i \in Issues, Create(i) PROVE RowsNext
  <2>1. PICK at \in Stamps, ls \in SUBSET Labels :
           \E available \in AvailableTimes \cup {at + Grace} : CreateTx(i, ls, available)
    BY <1>2 DEF Create
  <2>2. PICK available \in AvailableTimes \cup {at + Grace} : CreateTx(i, ls, available)
    BY <2>1
  <2>3. available \in Int
    BY <1>p, <1>t
  <2> QED BY <2>2, <2>3 DEF RowsNext
<1>3. ASSUME NEW i \in Issues, Update(i) PROVE RowsNext
  <2>0. PICK at \in Stamps :
           \E st \in PatchStatuses \cup {issue[i].status},
              ev \in (SUBSET Receipts) \cup {issue[i].evidence},
              available \in AvailableTimes \cup {DeferredTo(i, at)} :
                 UpdateTx(i, st, ev, available)
    BY <1>3 DEF Update
  <2>1. PICK st \in PatchStatuses \cup {issue[i].status},
             ev \in (SUBSET Receipts) \cup {issue[i].evidence},
             available \in AvailableTimes \cup {DeferredTo(i, at)} :
                UpdateTx(i, st, ev, available)
    BY <2>0
  <2>2. issue[i] \in Row /\ issue[i].status # "none"
    BY <1>0, <2>1 DEF UpdateTx, Exists
  <2>3. /\ issue[i].status \in Statuses /\ issue[i].evidence \in SUBSET Evidence
        /\ issue[i].available \in Int
    BY <2>2 DEF Row
  <2>4. at + EditDeferral \in Int
    BY <1>p, <1>t
  <2>5. DeferredTo(i, at) \in Int
    BY <2>3, <2>4, ClampIsInt DEF DeferredTo
  <2>6. st \in Statuses /\ ev \in SUBSET Evidence /\ available \in Int
    BY <1>p, <2>3, <2>5 DEF Evidence
  <2> QED BY <2>1, <2>6 DEF RowsNext
<1>4. ASSUME NEW i \in Issues, NEW who \in Names, Claim(i, who) PROVE RowsNext
  <2>1. PICK at \in Stamps :
           \/ \E d \in Deadlines : ClaimTx(i, who, "human", Lesser(d, MaxTTL), at)
           \/ \E r \in TTLRequests \cup {AgentTTL} :
                 ClaimTx(i, who, "agent", Lesser(r, MaxTTL), at)
    BY <1>4 DEF Claim
  <2>2. \E k \in Kinds, ttl \in Int : ClaimTx(i, who, k, ttl, at)
    <3>1. CASE \E d \in Deadlines : ClaimTx(i, who, "human", Lesser(d, MaxTTL), at)
      BY <1>p, <3>1, ClampIsInt DEF Kinds
    <3>2. CASE \E r \in TTLRequests \cup {AgentTTL} :
                  ClaimTx(i, who, "agent", Lesser(r, MaxTTL), at)
      BY <1>p, <3>2, ClampIsInt DEF Kinds
    <3> QED BY <2>1, <3>1, <3>2
  <2> QED BY <1>t, <2>2 DEF RowsNext
<1>5. ASSUME NEW i \in Issues, NEW who \in Names, Touch(i, who) PROVE RowsNext
  <2>1. PICK at \in Stamps, ttl \in Deadlines \cup {AgentTTL} : TouchTx(i, who, ttl, at)
    BY <1>5 DEF Touch
  <2> QED BY <1>p, <1>t, <2>1 DEF RowsNext
<1>6. ASSUME NEW c \in Issues, NEW p \in Issues, AddDep(c, p) \/ RemoveDep(c, p)
      PROVE  RowsNext
  BY <1>6 DEF AddDep, RemoveDep, RowsNext
<1>7. ASSUME NEW at \in Stamps, Sweep(at) PROVE RowsNext
  BY <1>7, <1>t DEF Sweep, RowsNext
<1>8. ASSUME NEW t \in Threads, NEW i \in Issues,
             \/ \E who \in Names : ReleaseCheck(t, i, who)
             \/ \E ev \in SUBSET Receipts : CloseCheck(t, i, ev)
             \/ \E r \in Issues : SupersedeCheck(t, i, r)
             \/ \E l \in Labels : AddLabelRead(t, i, l)
             \/ \E l \in LabelSet : RemoveLabelRead(t, i, l)
      PROVE  RowsNext
  <2>1. Reads
    BY <1>8 DEF ReleaseCheck, CloseCheck, SupersedeCheck, AddLabelRead, RemoveLabelRead
  <2> QED BY <1>r, <2>1
<1>9. ASSUME NEW t \in Threads, Commit(t) PROVE RowsNext
  <2>0. call[t] \in Call
    BY <1>0
  <2>1. CASE ReleaseCommit(t)
    <3>1. call[t].id \in Issues
      BY <2>0, <2>1, CallFields DEF ReleaseCommit
    <3> QED BY <2>1, <3>1 DEF ReleaseCommit, RowsNext
  <2>2. CASE CloseCommit(t)
    <3>1. call[t].id \in Issues /\ call[t].ev \in SUBSET Evidence
      BY <2>0, <2>2, CallFields DEF CloseCommit
    <3> QED BY <2>2, <3>1 DEF CloseCommit, RowsNext
  <2>3. CASE LabelsCommit(t)
    <3>1. call[t].id \in Issues /\ call[t].ls \in SUBSET LabelSet
      BY <2>0, <2>3, CallFields DEF LabelsCommit
    <3> QED BY <2>3, <3>1 DEF LabelsCommit, RowsNext
  <2>4. CASE SupersedeClose(t)
    <3>1. call[t].id \in Issues /\ call[t].by \in Issues
      BY <2>0, <2>4, CallFields DEF SupersedeClose
    <3>2. {Ack(call[t].by)} \in SUBSET Evidence
      BY <3>1 DEF Evidence
    <3> QED BY <2>4, <3>1, <3>2 DEF SupersedeClose, RowsNext
  <2>5. CASE SupersedeRead(t) \/ NotFound(t)
    BY <1>r, <2>5 DEF SupersedeRead, NotFound
  <2> QED BY <1>9, <2>1, <2>2, <2>3, <2>4, <2>5 DEF Commit
<1>10. ASSUME Crash PROVE RowsNext
  BY <1>10, <1>r DEF Crash
<1>11. ASSUME Tick PROVE RowsNext
  BY <1>11 DEF Tick, RowsNext
<1>12. CASE UNCHANGED vars
  BY <1>12 DEF vars, rowVars
<1> QED BY <1>1, <1>2, <1>3, <1>4, <1>5, <1>6, <1>7, <1>8, <1>9, <1>10, <1>11, <1>12 DEF Next

\* What a request keeps between two lock sections is always of the same shape.
LEMMA CallStep == TypeOK /\ [Next]_vars => call' \in [Threads -> Call]
<1> SUFFICES ASSUME TypeOK, [Next]_vars PROVE call' \in [Threads -> Call]
  OBVIOUS
<1>0. call \in [Threads -> Call] /\ issue \in [Issues -> Row]
  BY DEF TypeOK, RowsTypeOK
<1>u. ASSUME call' = call PROVE call' \in [Threads -> Call]
  BY <1>0, <1>u
<1>l. \A i \in Issues : issue[i].labels \in SUBSET LabelSet
  BY <1>0 DEF Row
<1>1. ASSUME NEW p \in Projects, EnsureProject(p) \/ DropProject(p)
      PROVE  call' \in [Threads -> Call]
  BY <1>1, <1>u DEF EnsureProject, DropProject
<1>2. ASSUME NEW i \in Issues, Create(i) \/ Update(i) PROVE call' \in [Threads -> Call]
  BY <1>2, <1>u DEF Create, Update
<1>3. ASSUME NEW i \in Issues, NEW who \in Names, Claim(i, who) \/ Touch(i, who)
      PROVE  call' \in [Threads -> Call]
  BY <1>3, <1>u DEF Claim, Touch
<1>4. ASSUME NEW c \in Issues, NEW p \in Issues, AddDep(c, p) \/ RemoveDep(c, p)
      PROVE  call' \in [Threads -> Call]
  BY <1>4, <1>u DEF AddDep, RemoveDep
<1>5. ASSUME NEW at \in Stamps, Sweep(at) PROVE call' \in [Threads -> Call]
  BY <1>5, <1>u DEF Sweep
<1>6. ASSUME NEW t \in Threads, NEW i \in Issues, NEW who \in Names, ReleaseCheck(t, i, who)
      PROVE  call' \in [Threads -> Call]
  BY <1>0, <1>6, NewCalls, CallTypes DEF ReleaseCheck, Begin
<1>7. ASSUME NEW t \in Threads, NEW i \in Issues, NEW ev \in SUBSET Receipts,
             CloseCheck(t, i, ev)
      PROVE  call' \in [Threads -> Call]
  <2>1. ev \in (SUBSET Receipts) \ {{}}
    BY <1>7 DEF CloseCheck
  <2> QED BY <1>0, <1>7, <2>1, NewCalls, CallTypes DEF CloseCheck, Begin
<1>8. ASSUME NEW t \in Threads, NEW i \in Issues, NEW r \in Issues, SupersedeCheck(t, i, r)
      PROVE  call' \in [Threads -> Call]
  BY <1>0, <1>8, NewCalls, CallTypes DEF SupersedeCheck, Begin
<1>9. ASSUME NEW t \in Threads, NEW i \in Issues,
             \/ \E l \in Labels : AddLabelRead(t, i, l)
             \/ \E l \in LabelSet : RemoveLabelRead(t, i, l)
      PROVE  call' \in [Threads -> Call]
  <2>1. PICK ls \in SUBSET LabelSet : Begin(t, [pc |-> "labels", id |-> i, ls |-> ls])
    BY <1>9, <1>l DEF AddLabelRead, RemoveLabelRead, LabelSet
  <2> QED BY <1>0, <2>1, NewCalls, CallTypes DEF Begin
<1>10. ASSUME NEW t \in Threads, Commit(t) PROVE call' \in [Threads -> Call]
  <2>0. call[t] \in Call
    BY <1>0
  <2>1. ASSUME Finish(t) PROVE call' \in [Threads -> Call]
    BY <1>0, <2>1, NewCalls, CallTypes DEF Finish
  <2>2. ASSUME SupersedeClose(t) PROVE call' \in [Threads -> Call]
    <3> DEFINE c == [call[t] EXCEPT !.pc = "point"]
    <3>1. call[t] \in [pc : {"supersede", "point"}, id : Issues, by : Issues]
      BY <2>0, <2>2 DEF SupersedeClose, Call, Idle
    <3>2. c \in [pc : {"supersede", "point"}, id : Issues, by : Issues]
      BY <3>1
    <3>3. c \in Call
      BY <3>2 DEF Call
    <3>4. call' = [call EXCEPT ![t] = c]
      BY <2>2 DEF SupersedeClose, Continue
    <3> QED BY <1>0, <3>3, <3>4, CallTypes
  <2>3. ASSUME SupersedeRead(t) PROVE call' \in [Threads -> Call]
    <3>1. call[t].id \in Issues /\ call[t].by \in Issues
      BY <2>0, <2>3, CallFields DEF SupersedeRead
    <3> DEFINE ls == issue[call[t].id].labels \cup {Pointer(call[t].by)}
    <3>2. ls \in SUBSET LabelSet
      BY <1>l, <3>1 DEF LabelSet
    <3>3. [pc |-> "labels", id |-> call[t].id, ls |-> ls] \in Call
      <4> HIDE DEF ls
      <4> QED BY <3>1, <3>2, NewCalls
    <3>4. \/ Finish(t)
          \/ Continue(t, [pc |-> "labels", id |-> call[t].id, ls |-> ls])
      BY <2>3 DEF SupersedeRead
    <3> HIDE DEF ls
    <3> QED BY <1>0, <2>1, <3>3, <3>4, CallTypes DEF Continue
  <2> QED BY <1>10, <2>1, <2>2, <2>3
          DEF Commit, ReleaseCommit, CloseCommit, LabelsCommit, NotFound
<1>11. ASSUME Crash PROVE call' \in [Threads -> Call]
  BY <1>11, NewCalls DEF Crash
<1>12. ASSUME Tick \/ UNCHANGED vars PROVE call' \in [Threads -> Call]
  BY <1>12, <1>u DEF Tick, vars
<1> QED BY <1>1, <1>2, <1>3, <1>4, <1>5, <1>6, <1>7, <1>8, <1>9, <1>10, <1>11, <1>12 DEF Next

----------------------------------------------------------------------------
(* The theorems *)

\* The columns of every row keep the types of the schema, no claim is half set, and a
\* request between two lock sections is always well formed (db.rs, api.rs handlers).
THEOREM TypeCorrect == Spec => []TypeOK
<1>1. Init => TypeOK
  <2> SUFFICES ASSUME Init PROVE TypeOK
    OBVIOUS
  <2>1. RowsTypeOK
    BY AbsentIsRow DEF Init, RowsInit, RowsTypeOK
  <2>2. call \in [Threads -> Call]
    BY NewCalls DEF Init
  <2> QED BY <2>1, <2>2 DEF TypeOK
<1>2. TypeOK /\ [Next]_vars => TypeOK'
  BY NextIsRows, CallStep, RowsType DEF TypeOK
<1> QED BY <1>1, <1>2, PTL DEF Spec

\* No sequence of add_dep, remove_dep, create and drop_project makes a cycle, though
\* add_dep only walks the edges there are when it runs (db.rs:1129).
THEOREM Acyclic == Spec => []DepAcyclic
<1>1. Init => DepAcyclic
  BY DEF Init, RowsInit, DepAcyclic
<1>2. TypeOK /\ DepAcyclic /\ [Next]_vars => DepAcyclic'
  BY NextIsRows, RowsAcyclic DEF TypeOK
<1> QED BY <1>1, <1>2, TypeCorrect, PTL DEF Spec

\* An edge always joins two existing issues: add_dep checks both ends and drop_project
\* takes with it the edges on both sides (db.rs:500).
THEOREM Edges == Spec => []EdgesResolve
<1>1. Init => EdgesResolve
  BY DEF Init, RowsInit, EdgesResolve
<1>2. TypeOK /\ EdgesResolve /\ [Next]_vars => EdgesResolve'
  BY NextIsRows, RowsEdgesResolve DEF TypeOK
<1> QED BY <1>1, <1>2, TypeCorrect, PTL DEF Spec

\* Whatever the handlers interleave and however old the clock reading each works with,
\* claims implement one lock per issue (db.rs:1317, "a race with an answer").
THEOREM LeaseRefinement == Spec => LeaseSpec
<1>1. Init => Lease!Init
  BY DEF Init, RowsInit, Lease!Init, heldBy, Held, Absent
<1>2. TypeOK /\ [Next]_vars => [Lease!Next]_heldBy
  BY NextIsRows, RowsLease DEF TypeOK
<1> QED BY <1>1, <1>2, TypeCorrect, PTL DEF Spec, LeaseSpec, Lease!Spec

\* A live claim is never taken by a sweep, another claim or an edit: only a release or
\* a close ends it (db.rs:1317, db.rs:1396).
THEOREM LiveClaims == Spec => LiveClaimEnds
<1>1. TypeOK /\ [Next]_vars => [LiveClaimStep]_rowVars
  BY NextIsRows, RowsLiveClaim DEF TypeOK
<1> QED BY <1>1, TypeCorrect, PTL DEF Spec, LiveClaimEnds

\* Every change to a row or an edge that survives queues its event in the same
\* transaction, whatever the handlers interleave (db.rs:1774).
THEOREM Audited == Spec => AuditTrail
<1>1. TypeOK /\ [Next]_vars => [RowsAudited /\ EdgesAudited]_rowVars
  BY NextIsRows, RowsAudit DEF TypeOK
<1> QED BY <1>1, TypeCorrect, PTL DEF Spec, AuditTrail
==============================================================================
