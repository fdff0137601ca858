--------------------------- MODULE PostgresProofs ----------------------------
(****************************************************************************)
(* PostgresStore is correct for any number of servers, workers and clock    *)
(* skew up to MaxLag: each of its steps is a transaction of IssueRows or    *)
(* leaves the tables alone.  The second part is about the connection each   *)
(* server reaches it by (PgSession).                                        *)
(****************************************************************************)
EXTENDS PostgresStore, PgSession, IssueRowsProofs, FiniteSetTheorems

LEMMA NewCalls ==
    /\ Idle \in Call
    /\ \A i \in Issues, who \in Names : [pc |-> "release", id |-> i, who |-> who] \in Call
BY DEF Call

LEMMA ReleaseFields ==
    ASSUME NEW c \in Call, c.pc = "release"
    PROVE  c.id \in Issues
BY DEF Call, Idle

\* A clock reading is never ahead of the most advanced clock.
LEMMA StampsArePast == now \in Nat => \A at \in Stamps : at \in 0..now /\ at \in Int
BY DEF Stamps

LEMMA ClampIsInt ==
    ASSUME NEW a \in Int, NEW b \in Int
    PROVE  Lesser(a, b) \in Int /\ Greater(a, b) \in Int
BY DEF Lesser, Greater

\* Every step of a server is a transaction, a read, a stop or a tick.
LEMMA NextIsRows == TypeOK /\ [Next]_vars => [RowsNext]_rowVars
<1> SUFFICES ASSUME TypeOK, [Next]_vars PROVE [RowsNext]_rowVars
  OBVIOUS
<1>0. /\ now \in Nat /\ call \in [Threads -> Call] /\ issue \in [Issues -> Row]
      /\ \A j \in Issues : RowConsistent(issue[j])
  BY DEF TypeOK, RowsTypeOK
<1>t. \A at \in Stamps : at \in 0..now /\ at \in Int
  BY <1>0, StampsArePast
<1>p. /\ MaxTTL \in Int /\ AgentTTL \in Int /\ Grace \in Int /\ EditDeferral \in Int
      /\ \A d \in Deadlines : d \in Int
      /\ \A r \in TTLRequests : r \in Int
      /\ \A a \in AvailableTimes : a \in Int
      /\ PatchStatuses \subseteq Statuses
  BY PolicyAssumption, RequestAssumption
<1>l. \A i \in Issues : issue[i].labels \in SUBSET LabelSet
  BY <1>0 DEF Row
<1>r. ASSUME Reads PROVE RowsNext
  BY <1>r DEF Reads, RowsNext
<1>1. ASSUME NEW p \in Projects, EnsureProject(p) PROVE RowsNext
  BY <1>1 DEF EnsureProject, RowsNext
<1>2. ASSUME NEW i \in Issues, Create(i) PROVE RowsNext
  <2>1. PICK at \in Stamps, ls \in SUBSET Labels :
           \E available \in AvailableTimes \cup {at + Grace} : CreateTx(i, ls, available)
    BY <1>2 DEF Create
  <2>2. PICK available \in AvailableTimes \cup {at + Grace} : CreateTx(i, ls, available)
    BY <2>1
  <2>3. available \in Int
    BY <1>p, <1>t
  <2> QED BY <2>2, <2>3 DEF RowsNext
<1>3. ASSUME NEW i \in Issues, Update(i) PROVE RowsNext
  <2>0. PICK at \in Stamps :
           \E st \in PatchStatuses \cup {issue[i].status},
              ev \in (SUBSET Receipts) \cup {issue[i].evidence},
              available \in AvailableTimes \cup {DeferredTo(i, at)} :
                 UpdateTx(i, st, ev, available)
    BY <1>3 DEF Update
  <2>1. PICK st \in PatchStatuses \cup {issue[i].status},
             ev \in (SUBSET Receipts) \cup {issue[i].evidence},
             available \in AvailableTimes \cup {DeferredTo(i, at)} :
                UpdateTx(i, st, ev, available)
    BY <2>0
  <2>2. issue[i] \in Row /\ issue[i].status # "none"
    BY <1>0, <2>1 DEF UpdateTx, Exists
  <2>3. /\ issue[i].status \in Statuses /\ issue[i].evidence \in SUBSET Evidence
        /\ issue[i].available \in Int
    BY <2>2 DEF Row
  <2>4. at + EditDeferral \in Int
    BY <1>p, <1>t
  <2>5. DeferredTo(i, at) \in Int
    BY <2>3, <2>4, ClampIsInt DEF DeferredTo
  <2>6. st \in Statuses /\ ev \in SUBSET Evidence /\ available \in Int
    BY <1>p, <2>3, <2>5 DEF Evidence
  <2> QED BY <2>1, <2>6 DEF RowsNext
<1>4. ASSUME NEW i \in Issues, NEW who \in Names, Claim(i, who) PROVE RowsNext
  <2>1. PICK at \in Stamps, k \in Kinds, ttl \in Deadlines \cup TTLRequests \cup {AgentTTL} :
           ClaimTx(i, who, k, Lesser(ttl, MaxTTL), at)
    BY <1>4 DEF Claim
  <2>2. Lesser(ttl, MaxTTL) \in Int
    BY <1>p, ClampIsInt
  <2> QED BY <1>t, <2>1, <2>2 DEF RowsNext
<1>5. ASSUME NEW i \in Issues, NEW who \in Names, Touch(i, who) PROVE RowsNext
  <2>1. PICK at \in Stamps, ttl \in Deadlines \cup {AgentTTL} : TouchTx(i, who, ttl, at)
    BY <1>5 DEF Touch
  <2> QED BY <1>p, <1>t, <2>1 DEF RowsNext
<1>6. ASSUME NEW c \in Issues, NEW p \in Issues, AddDep(c, p) \/ RemoveDep(c, p)
      PROVE  RowsNext
  BY <1>6 DEF AddDep, RemoveDep, RowsNext
<1>7. ASSUME NEW at \in Stamps, Sweep(at) PROVE RowsNext
  BY <1>7, <1>t DEF Sweep, RowsNext
<1>8. ASSUME NEW i \in Issues, NEW ev \in SUBSET Receipts, Close(i, ev) PROVE RowsNext
  <2>1. ev \in SUBSET Evidence
    BY DEF Evidence
  <2> QED BY <1>8, <2>1 DEF Close, RowsNext
<1>9. ASSUME NEW i \in Issues, NEW r \in Issues, Supersede(i, r) PROVE RowsNext
  BY <1>9 DEF Supersede, RowsNext
<1>10. ASSUME NEW i \in Issues,
              \/ \E l \in Labels : AddLabel(i, l)
              \/ \E l \in LabelSet : RemoveLabel(i, l)
       PROVE  RowsNext
  <2>1. PICK ls \in SUBSET LabelSet : SetLabelsTx(i, ls)
    BY <1>10, <1>l DEF AddLabel, RemoveLabel, LabelSet
  <2> QED BY <2>1 DEF RowsNext
<1>11. ASSUME NEW t \in Threads, NEW i \in Issues, NEW who \in Names, ReleaseCheck(t, i, who)
       PROVE  RowsNext
  BY <1>11, <1>r DEF ReleaseCheck
<1>12. ASSUME NEW t \in Threads, ReleaseCommit(t) PROVE RowsNext
  <2>1. call[t].id \in Issues
    BY <1>0, <1>12, ReleaseFields DEF ReleaseCommit
  <2> QED BY <1>12, <2>1 DEF ReleaseCommit, RowsNext
<1>13. ASSUME NEW s \in Servers, Stop(s) PROVE RowsNext
  BY <1>13, <1>r DEF Stop
<1>14. ASSUME Tick PROVE RowsNext
  BY <1>14 DEF Tick, RowsNext
<1>15. CASE UNCHANGED vars
  BY <1>15 DEF vars, rowVars
<1> QED BY <1>1, <1>2, <1>3, <1>4, <1>5, <1>6, <1>7, <1>8, <1>9, <1>10, <1>11, <1>12, <1>13,
           <1>14, <1>15 DEF Next

\* What a release keeps between its get and its write is always well formed.
LEMMA CallStep == TypeOK /\ [Next]_vars => call' \in [Threads -> Call]
<1> SUFFICES ASSUME TypeOK, [Next]_vars PROVE call' \in [Threads -> Call]
  OBVIOUS
<1>0. call \in [Threads -> Call]
  BY DEF TypeOK
<1>1. ASSUME NEW t \in Threads, NEW i \in Issues, NEW who \in Names, ReleaseCheck(t, i, who)
      PROVE  call' \in [Threads -> Call]
  <2>1. PICK c \in Call : call' = [call EXCEPT ![t] = c]
    BY <1>1, NewCalls DEF ReleaseCheck
  <2> QED BY <1>0, <2>1
<1>2. ASSUME NEW t \in Threads, ReleaseCommit(t) PROVE call' \in [Threads -> Call]
  BY <1>0, <1>2, NewCalls DEF ReleaseCommit
<1>3. ASSUME NEW s \in Servers, Stop(s) PROVE call' \in [Threads -> Call]
  BY <1>0, <1>3, NewCalls DEF Stop
<1>4. ASSUME call' = call PROVE call' \in [Threads -> Call]
  BY <1>0, <1>4
<1>5. \/ \E t \in Threads : \/ \E i \in Issues, who \in Names : ReleaseCheck(t, i, who)
                           \/ ReleaseCommit(t)
      \/ \E s \in Servers : Stop(s)
      \/ call' = call
  BY DEF Next, vars, EnsureProject, Create, Update, Claim, Touch, Sweep, Close, Supersede,
         AddLabel, RemoveLabel, AddDep, RemoveDep, Tick
<1> QED BY <1>1, <1>2, <1>3, <1>4, <1>5

----------------------------------------------------------------------------
(* The theorems *)

\* The columns of every row keep the types of the schema and no claim is half set,
\* whatever the servers interleave (postgres_store.rs:322).
THEOREM TypeCorrect == Spec => []TypeOK
<1>1. Init => TypeOK
  <2> SUFFICES ASSUME Init PROVE TypeOK
    OBVIOUS
  <2>1. RowsTypeOK
    BY AbsentIsRow DEF Init, RowsInit, RowsTypeOK
  <2>2. call \in [Threads -> Call]
    BY NewCalls DEF Init
  <2> QED BY <2>1, <2>2 DEF TypeOK
<1>2. TypeOK /\ [Next]_vars => TypeOK'
  BY NextIsRows, CallStep, RowsType DEF TypeOK
<1> QED BY <1>1, <1>2, PTL DEF Spec

\* add_dep's walk and insert are one transaction (postgres_store.rs:626), so no two
\* servers can close a cycle between them.
THEOREM Acyclic == Spec => []DepAcyclic
<1>1. Init => DepAcyclic
  BY DEF Init, RowsInit, DepAcyclic
<1>2. TypeOK /\ DepAcyclic /\ [Next]_vars => DepAcyclic'
  BY NextIsRows, RowsAcyclic DEF TypeOK
<1> QED BY <1>1, <1>2, TypeCorrect, PTL DEF Spec

\* Claims of a blue and a green server implement one lock per issue, as seen on the most
\* advanced of their clocks (postgres_store.rs:653).
THEOREM LeaseRefinement == Spec => LeaseSpec
<1>1. Init => Lease!Init
  BY DEF Init, RowsInit, Lease!Init, heldBy, Held, Absent
<1>2. TypeOK /\ [Next]_vars => [Lease!Next]_heldBy
  BY NextIsRows, RowsLease DEF TypeOK
<1> QED BY <1>1, <1>2, TypeCorrect, PTL DEF Spec, LeaseSpec, Lease!Spec

\* A live claim is never taken by a sweep, another claim or an edit of any server: only a
\* release or a close ends it (postgres_store.rs:653, postgres_store.rs:679).
THEOREM LiveClaims == Spec => LiveClaimEnds
<1>1. TypeOK /\ [Next]_vars => [LiveClaimStep]_rowVars
  BY NextIsRows, RowsLiveClaim DEF TypeOK
<1> QED BY <1>1, TypeCorrect, PTL DEF Spec, LiveClaimEnds

\* Every change to a row or an edge that survives queues its event in the same
\* transaction, whichever server makes it (postgres_store.rs:697, db.rs:1774).
THEOREM Audited == Spec => AuditTrail
<1>1. TypeOK /\ [Next]_vars => [RowsAudited /\ EdgesAudited]_rowVars
  BY NextIsRows, RowsAudit DEF TypeOK
<1> QED BY <1>1, TypeCorrect, PTL DEF Spec, AuditTrail

----------------------------------------------------------------------------
(****************************************************************************)
(* The shared connection, for any number of requests, probes and faults.    *)
(* The properties follow from what each caller knows (Knows) and from there *)
(* being one owner of the slot (OneOwner): whoever runs or dials does so    *)
(* with the slot empty and alone, because a statement keeps the mutex and a *)
(* dial keeps the flag up.  That a transaction counts as applied exactly    *)
(* when the database says so rests on the retry giving up once COMMIT was   *)
(* attempted.                                                               *)
(****************************************************************************)
Dialing(c) == pc[c] \in {"dial", "redial"}
Owner(c) == Running(c) \/ Dialing(c)

OneOwner ==
    /\ \A c, d \in Callers : Owner(c) /\ Owner(d) => c = d
    /\ \A c \in Callers : Owner(c) => slot = "none"

Knows(c) ==
    /\ hand[c] # "none" <=> Running(c)
    /\ Dialing(c) => reconnecting
    /\ applied[c] = IF tx[c] = "applied" THEN 1 ELSE 0
    /\ c \in Writers => /\ part[c] = "read" => tx[c] = "applied"
                        /\ part[c] = "tx" /\ ~Running(c) /\ pc[c] # "done" => tx[c] = "none"
                        /\ verdict[c] = "ok" => tx[c] = "applied"
                        /\ verdict[c] = "rejected" => pc[c] = "done"
    /\ c \in Writers \ ReadsBack => /\ part[c] = "tx"
                                    /\ verdict[c] = "rejected" => tx[c] = "none"
    /\ c \in Probes => part[c] = "read" /\ tx[c] = "none"

SessionInv == SessionTypeOK /\ OneOwner /\ \A c \in Callers : Knows(c)

LEMMA SessionInitInv == SessionInit => SessionInv
<1> SUFFICES ASSUME SessionInit PROVE SessionInv
  OBVIOUS
<1>1. SessionTypeOK
  <2>1. /\ pc \in [Callers -> {"idle", "lock", "dial", "op", "redial", "again", "done"}]
        /\ part \in [Callers -> {"tx", "read"}]
        /\ hand \in [Callers -> Handle]
    BY DEF SessionInit, Handle
  <2>2. /\ tx \in [Callers -> {"none", "open", "sent", "applied", "lost"}]
        /\ applied \in [Callers -> Nat]
        /\ verdict \in [Callers -> {"none", "ok", "rejected", "unavailable"}]
    BY DEF SessionInit
  <2>3. faults \in 0..MaxFaults
    BY FaultsAssumption DEF SessionInit
  <2>4. up \in BOOLEAN /\ slot \in Handle /\ reconnecting \in BOOLEAN
    BY DEF SessionInit, Handle
  <2> QED BY <2>1, <2>2, <2>3, <2>4 DEF SessionTypeOK
<1>2. OneOwner /\ \A c \in Callers : Knows(c)
  BY CallersAssumption DEF SessionInit, OneOwner, Owner, Running, Dialing, Knows, Callers
<1> QED BY <1>1, <1>2 DEF SessionInv

\* Type correctness is preserved by every step.
LEMMA TypeStep == SessionTypeOK /\ [SessionNext]_sessionVars => SessionTypeOK'
<1> SUFFICES ASSUME SessionTypeOK, [SessionNext]_sessionVars PROVE SessionTypeOK'
  OBVIOUS
<1>f. ASSUME Fault PROVE faults' \in 0..MaxFaults
  BY <1>f, FaultsAssumption DEF Fault, SessionTypeOK
<1>a. ASSUME NEW c \in Callers, NEW v \in {"ok", "rejected", "unavailable"}, Answer(c, v)
      PROVE  /\ pc' \in [Callers -> {"idle", "lock", "dial", "op", "redial", "again", "done"}]
             /\ verdict' \in [Callers -> {"none", "ok", "rejected", "unavailable"}]
  BY <1>a DEF SessionTypeOK, Answer
<1>1. ASSUME NEW c \in Callers, Enter(c) \/ FailFast(c) \/ Take(c) \/ Dial(c) PROVE SessionTypeOK'
  <2>1. CASE Enter(c)
    BY <2>1 DEF SessionTypeOK, Enter
  <2>2. CASE FailFast(c)
    BY <2>2, <1>a DEF SessionTypeOK, FailFast
  <2>3. CASE Take(c)
    BY <2>3 DEF SessionTypeOK, Handle, Take
  <2>4. CASE Dial(c)
    BY <2>4 DEF SessionTypeOK, Handle, Dial
  <2> QED BY <1>1, <2>1, <2>2, <2>3, <2>4
<1>2. ASSUME NEW c \in Callers, Connected(c) \/ ConnectFails(c) PROVE SessionTypeOK'
  BY <1>2, <1>a, <1>f DEF SessionTypeOK, Handle, Connected, ConnectFails, DialError
<1>3. ASSUME NEW c \in Callers, BeginTx(c) \/ SendCommit(c) \/ Resolve(c) PROVE SessionTypeOK'
  BY <1>3 DEF SessionTypeOK, BeginTx, SendCommit, Resolve
<1>4. ASSUME NEW c \in Callers, OpOk(c) PROVE SessionTypeOK'
  BY <1>4, <1>a DEF SessionTypeOK, OpOk, PutBack, Handle
<1>5. ASSUME NEW c \in Callers, Reconnect(c) \/ DiesAgain(c) \/ CommitUnknown(c)
      PROVE  SessionTypeOK'
  <2>1. CASE Reconnect(c)
    BY <2>1 DEF SessionTypeOK, Reconnect, Handle
  <2>2. CASE DiesAgain(c)
    BY <2>2, <1>a DEF SessionTypeOK, DiesAgain, PutBack, Handle
  <2>3. CASE CommitUnknown(c)
    BY <2>3, <1>a DEF SessionTypeOK, CommitUnknown, PutBack, Handle
  <2> QED BY <1>5, <2>1, <2>2, <2>3
<1>6. ASSUME NEW c \in Callers, OpError(c) \/ Panic(c) PROVE SessionTypeOK'
  BY <1>6, <1>a, <1>f DEF SessionTypeOK, OpError, Panic, PutBack, Handle
<1>7. ASSUME NEW c \in Callers, GiveUp(c) PROVE SessionTypeOK'
  BY <1>7, <1>f DEF SessionTypeOK, GiveUp
<1>8. CASE Break
  BY <1>8, <1>f DEF SessionTypeOK, Break, Killed, Handle
<1>9. CASE ComesBack \/ UNCHANGED sessionVars
  BY <1>9 DEF SessionTypeOK, ComesBack, sessionVars
<1> QED BY <1>1, <1>2, <1>3, <1>4, <1>5, <1>6, <1>7, <1>8, <1>9 DEF SessionNext, Step

LEMMA SessionStepInv == SessionInv /\ [SessionNext]_sessionVars => SessionInv'
<1> SUFFICES ASSUME SessionInv, [SessionNext]_sessionVars PROVE SessionInv'
  OBVIOUS
<1>t. SessionTypeOK /\ SessionTypeOK'
  BY TypeStep DEF SessionInv
<1>o. OneOwner /\ \A c \in Callers : Knows(c)
  BY DEF SessionInv
<1>w. Writers \subseteq Callers /\ \A c \in Writers : c \notin Probes
  BY CallersAssumption DEF Callers
\* Nobody owns the slot while it holds a connection, nor while a caller may take it.
<1>n. ASSUME ~Locked, ~reconnecting PROVE \A c \in Callers : ~Owner(c)
  BY <1>n, <1>o DEF Locked, Owner, Running, Knows
\* A step of caller c that ends in what c knows, as the only owner or no owner.
<1>c. ASSUME NEW c \in Callers,
             \A d \in Callers \ {c} : /\ pc'[d] = pc[d] /\ part'[d] = part[d]
                                     /\ hand'[d] = hand[d] /\ tx'[d] = tx[d]
                                     /\ applied'[d] = applied[d] /\ verdict'[d] = verdict[d],
             \A d \in Callers \ {c} : Dialing(d) => reconnecting',
             \A d \in Callers \ {c} : Owner(d) => slot' = "none" /\ ~Owner(c)',
             Owner(c)' => slot' = "none",
             Knows(c)'
      PROVE  SessionInv'
  <2>1. \A d \in Callers \ {c} : /\ Owner(d)' <=> Owner(d)
                                 /\ Running(d)' <=> Running(d)
                                 /\ Dialing(d)' <=> Dialing(d)
    BY <1>c DEF Owner, Running, Dialing
  <2>2. OneOwner'
    BY <1>o, <1>c, <2>1 DEF OneOwner
  <2>3. \A d \in Callers \ {c} : Knows(d)'
    BY <1>o, <1>c, <2>1 DEF Knows
  <2> QED BY <1>t, <1>c, <2>2, <2>3 DEF SessionInv
\* An owner that stays one, or stops.
<1>p. ASSUME NEW c \in Callers, Owner(c)
      PROVE  \A d \in Callers \ {c} : ~Owner(d) /\ ~Dialing(d)
  BY <1>o, <1>p DEF OneOwner, Owner
<1>1. ASSUME NEW c \in Callers, Enter(c) PROVE SessionInv'
  <2>1. Knows(c)' /\ ~Owner(c)'
    BY <1>1, <1>t, <1>o DEF Enter, SessionTypeOK, Knows, Owner, Running, Dialing
  <2> QED BY <1>1, <1>t, <1>o, <1>c, <2>1 DEF Enter, SessionTypeOK, Knows, OneOwner
<1>2. ASSUME NEW c \in Callers, FailFast(c) PROVE SessionInv'
  <2>1. Knows(c)' /\ ~Owner(c)'
    BY <1>2, <1>t, <1>o, <1>w DEF FailFast, Answer, SessionTypeOK, Knows, Owner, Running, Dialing
  <2> QED BY <1>2, <1>t, <1>o, <1>c, <2>1 DEF FailFast, Answer, SessionTypeOK, Knows, OneOwner
<1>3. ASSUME NEW c \in Callers, Take(c) PROVE SessionInv'
  <2>1. Knows(c)'
    BY <1>3, <1>t, <1>o, <1>w DEF Take, SessionTypeOK, Knows, Running, Dialing
  <2>2. \A d \in Callers : ~Owner(d) /\ ~Dialing(d)
    BY <1>3, <1>n DEF Take, Owner
  <2> QED BY <1>3, <1>t, <1>c, <2>1, <2>2 DEF Take, SessionTypeOK
<1>4. ASSUME NEW c \in Callers, Dial(c) PROVE SessionInv'
  <2>1. Knows(c)'
    BY <1>4, <1>t, <1>o, <1>w DEF Dial, SessionTypeOK, Knows, Running, Dialing
  <2>2. \A d \in Callers : ~Owner(d) /\ ~Dialing(d)
    BY <1>4, <1>n DEF Dial, Owner
  <2> QED BY <1>4, <1>t, <1>c, <2>1, <2>2 DEF Dial, SessionTypeOK
<1>5. ASSUME NEW c \in Callers, Connected(c) PROVE SessionInv'
  <2>1. Knows(c)'
    BY <1>5, <1>t, <1>o, <1>w DEF Connected, SessionTypeOK, Knows, Running, Dialing
  <2>2. Owner(c) /\ slot = "none"
    BY <1>5, <1>o DEF Connected, Owner, Dialing, OneOwner
  <2> QED BY <1>5, <1>t, <1>c, <1>p, <2>1, <2>2 DEF Connected, SessionTypeOK
<1>6. ASSUME NEW c \in Callers, ConnectFails(c) PROVE SessionInv'
  <2>1. Knows(c)' /\ ~Owner(c)'
    BY <1>6, <1>t, <1>o, <1>w
       DEF ConnectFails, DialError, Answer, SessionTypeOK, Knows, Owner, Running, Dialing
  <2>2. Owner(c)
    BY <1>6 DEF ConnectFails, DialError, Owner, Dialing
  <2> QED BY <1>6, <1>t, <1>c, <1>p, <2>1, <2>2 DEF ConnectFails, DialError, Answer, SessionTypeOK
<1>7. ASSUME NEW c \in Callers, BeginTx(c) \/ SendCommit(c) PROVE SessionInv'
  <2>1. Knows(c)'
    BY <1>7, <1>t, <1>o, <1>w DEF BeginTx, SendCommit, SessionTypeOK, Knows, Running, Dialing
  <2>2. Owner(c) /\ slot = "none"
    BY <1>7, <1>o DEF BeginTx, SendCommit, Owner, OneOwner
  <2> QED BY <1>7, <1>t, <1>c, <1>p, <2>1, <2>2 DEF BeginTx, SendCommit, SessionTypeOK
<1>8. ASSUME NEW c \in Callers, Resolve(c) PROVE SessionInv'
  <2>1. Knows(c)'
    BY <1>8, <1>t, <1>o, <1>w DEF Resolve, SessionTypeOK, Knows, Running, Dialing
  <2>2. Owner(c)' <=> Owner(c)
    BY <1>8 DEF Resolve, Owner, Running, Dialing
  <2> QED BY <1>8, <1>t, <1>o, <1>c, <1>p, <2>1, <2>2 DEF Resolve, SessionTypeOK, OneOwner, Knows
<1>9. ASSUME NEW c \in Callers, OpOk(c) PROVE SessionInv'
  <2>1. Knows(c)' /\ ~Owner(c)'
    BY <1>9, <1>t, <1>o, <1>w
       DEF OpOk, Succeeded, PutBack, Answer, SessionTypeOK, Knows, Owner, Running, Dialing
  <2>2. Owner(c)
    BY <1>9 DEF OpOk, Succeeded, Owner
  <2> QED BY <1>9, <1>t, <1>c, <1>p, <2>1, <2>2 DEF OpOk, PutBack, Answer, SessionTypeOK
<1>10. ASSUME NEW c \in Callers, Reconnect(c) PROVE SessionInv'
  <2>1. Knows(c)'
    BY <1>10, <1>t, <1>o, <1>w
       DEF Reconnect, Retryable, CommitAttempted, SessionTypeOK, Knows, Running, Dialing
  <2>2. Owner(c) /\ slot = "none"
    BY <1>10, <1>o DEF Reconnect, Owner, Running, OneOwner
  <2> QED BY <1>10, <1>t, <1>c, <1>p, <2>1, <2>2 DEF Reconnect, SessionTypeOK
<1>11. ASSUME NEW c \in Callers, DiesAgain(c) \/ CommitUnknown(c) PROVE SessionInv'
  <2>1. Knows(c)' /\ ~Owner(c)'
    BY <1>11, <1>t, <1>o, <1>w
       DEF DiesAgain, CommitUnknown, PutBack, Answer, SessionTypeOK, Knows, Owner, Running, Dialing
  <2>2. Owner(c)
    BY <1>11 DEF DiesAgain, CommitUnknown, Owner, Running
  <2> QED BY <1>11, <1>t, <1>c, <1>p, <2>1, <2>2
          DEF DiesAgain, CommitUnknown, PutBack, Answer, SessionTypeOK
<1>12. ASSUME NEW c \in Callers, OpError(c) \/ Panic(c) PROVE SessionInv'
  <2>1. Knows(c)' /\ ~Owner(c)'
    BY <1>12, <1>t, <1>o, <1>w
       DEF OpError, Panic, CommitAttempted, PutBack, Answer, SessionTypeOK, Knows, Owner,
           Running, Dialing
  <2>2. Owner(c)
    BY <1>12 DEF OpError, Panic, Owner
  <2> QED BY <1>12, <1>t, <1>c, <1>p, <2>1, <2>2 DEF OpError, Panic, PutBack, Answer, SessionTypeOK
<1>13. ASSUME NEW c \in Callers, GiveUp(c) PROVE SessionInv'
  <2>1. Knows(c)'
    BY <1>13, <1>t, <1>o DEF GiveUp, SessionTypeOK, Knows, Running, Dialing
  <2>2. Owner(c)' <=> Owner(c)
    BY <1>13 DEF GiveUp, Owner, Running, Dialing
  <2> QED BY <1>13, <1>t, <1>o, <1>c, <1>p, <2>1, <2>2 DEF GiveUp, SessionTypeOK, OneOwner, Knows
<1>14. CASE Break
  <2>1. \A c \in Callers : /\ hand'[c] = Killed(hand[c])
                           /\ Owner(c)' <=> Owner(c)
                           /\ Running(c)' <=> Running(c)
                           /\ Dialing(c)' <=> Dialing(c)
    BY <1>14 DEF Break, Owner, Running, Dialing
  <2>2. slot = "none" => slot' = "none"
    BY <1>14 DEF Break, Killed
  <2>3. OneOwner'
    BY <1>o, <2>1, <2>2 DEF OneOwner
  <2>4. \A c \in Callers : Knows(c)'
    BY <1>14, <1>o, <2>1 DEF Break, Knows, Killed
  <2> QED BY <1>t, <2>3, <2>4 DEF SessionInv
<1>15. CASE ComesBack \/ UNCHANGED sessionVars
  BY <1>15, <1>t, <1>o
     DEF ComesBack, sessionVars, SessionInv, OneOwner, Knows, Owner, Running, Dialing
<1> QED BY <1>1, <1>2, <1>3, <1>4, <1>5, <1>6, <1>7, <1>8, <1>9, <1>10, <1>11, <1>12, <1>13,
           <1>14, <1>15 DEF SessionNext, Step

LEMMA SessionInductive == SessionSpec => []SessionInv
<1> QED BY SessionInitInv, SessionStepInv, PTL DEF SessionSpec

\* The slot, the callers and the transactions have their types (SlotState,
\* postgres_store.rs:159).
THEOREM SessionType == SessionSpec => []SessionTypeOK
<1>1. SessionInv => SessionTypeOK
  BY DEF SessionInv
<1> QED BY <1>1, SessionInductive, PTL

\* The retry of with_reconnect never applies a transaction twice.
THEOREM NeverTwice == SessionSpec => []AtMostOnce
<1>1. SessionInv => AtMostOnce
  BY DEF SessionInv, Knows, AtMostOnce
<1> QED BY <1>1, SessionInductive, PTL

\* OkMeansApplied: a caller is told of a success only when its request was applied.
THEOREM HonestOk == SessionSpec => []OkMeansApplied
<1>1. SessionInv => OkMeansApplied
  BY DEF SessionInv, Knows, OkMeansApplied, Callers
<1> QED BY <1>1, SessionInductive, PTL

\* RefusedMeansNotApplied: a refusal of a request of one transaction left nothing behind.
THEOREM HonestRefusal == SessionSpec => []RefusedMeansNotApplied
<1>1. SessionInv => RefusedMeansNotApplied
  BY DEF SessionInv, Knows, RefusedMeansNotApplied, Callers
<1> QED BY <1>1, SessionInductive, PTL

\* A server has one connection: in the slot, with one caller, or being dialed by one.
THEOREM SingleConnection == SessionSpec => []OneConnection
<1>1. SessionInv => OneConnection
  <2> SUFFICES ASSUME SessionInv PROVE OneConnection
    OBVIOUS
  <2> DEFINE owners == {c \in Callers : hand[c] # "none" \/ pc[c] \in {"dial", "redial"}}
  <2>1. \A c \in owners : Owner(c)
    BY DEF SessionInv, Knows, Owner, Dialing
  <2>2. CASE owners = {}
    <3>1. Cardinality(owners) = 0
      BY <2>2, FS_EmptySet
    <3> QED BY <3>1 DEF OneConnection
  <2>3. ASSUME NEW c \in owners PROVE OneConnection
    <3>1. owners = {c}
      BY <2>1, <2>3 DEF SessionInv, OneOwner
    <3>2. Cardinality(owners) = 1
      BY <3>1, FS_Singleton
    <3>3. slot = "none"
      BY <2>1, <2>3 DEF SessionInv, OneOwner
    <3> QED BY <3>2, <3>3 DEF OneConnection
  <2> QED BY <2>2, <2>3
<1> QED BY <1>1, SessionInductive, PTL
==============================================================================
