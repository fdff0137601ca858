----------------------------- MODULE OutboxProofs -----------------------------
(****************************************************************************)
(* DeliveredWasAccepted and FreshIds for any number of stores, publishers,  *)
(* events and faults.  Neither is inductive alone.  A delivered mark is     *)
(* right because the send it records was accepted, which has to be known    *)
(* while the publisher waits to record it (MarkKnows); and that a number is *)
(* fresh needs every id in a row, in a publisher's hands or at the receiver *)
(* to lie below the counter, which dropped rows leave behind (Below).       *)
(****************************************************************************)
EXTENDS Outbox, TLAPS

\* Rows, without the bound on the delay.
LooseRow == [state : {"none", "pending", "delivered"}, wait : Int, attempts : 0..MaxExp]

Shapes ==
    /\ outbox \in [Ids -> LooseRow]
    /\ next \in [Stores -> Nat]
    /\ pc \in [Publishers -> {"idle", "pass", "mark"}]
    /\ batch \in [Publishers -> SUBSET Entries]
    /\ sent \in [Publishers -> Entries \cup {NoEvent}]
    /\ \A p \in Publishers : pc[p] = "mark" => sent[p] \in Entries
    /\ ok \in [Publishers -> BOOLEAN]
    /\ accepted \subseteq Ids

Used(id) == id[2] < next[id[1]]

Below ==
    /\ \A id \in Ids : outbox[id].state # "none" => Used(id)
    /\ \A id \in accepted : Used(id)
    /\ \A p \in Publishers : \A e \in batch[p] : Used(e[1])
    /\ \A p \in Publishers : pc[p] = "mark" => Used(sent[p][1])

MarkKnows == \A p \in Publishers : pc[p] = "mark" /\ ok[p] => sent[p][1] \in accepted

IInv == Shapes /\ Below /\ MarkKnows /\ DeliveredWasAccepted

LEMMA IdParts == \A id \in Ids : id[1] \in Stores /\ id[2] \in Nat
BY BoundsAssumption DEF Ids

LEMMA EntryParts == \A e \in Entries : e[1] \in Ids /\ e[2] \in 0..MaxExp
BY DEF Entries

\* The rows a step writes.
LEMMA NewRows ==
    /\ NoRow \in LooseRow /\ NoRow.state = "none"
    /\ [NoRow EXCEPT !.state = "pending"] \in LooseRow
    /\ [NoRow EXCEPT !.state = "pending"].state = "pending"
    /\ [NoRow EXCEPT !.state = "delivered"] \in LooseRow
    /\ [NoRow EXCEPT !.state = "delivered"].state = "delivered"
BY BoundsAssumption DEF NoRow, LooseRow

LEMMA FailedRow ==
    ASSUME NEW a \in 0..MaxExp, NEW b \in 0..MaxExp
    PROVE  LET r == [state |-> "pending", wait |-> Delay(a), attempts |-> Bump(b)]
           IN  r \in LooseRow /\ r.state = "pending"
<1>1. Bump(b) \in 0..MaxExp
  BY BoundsAssumption DEF Bump
<1>2. a \in Nat
  BY BoundsAssumption
<1>3. 2 ^ a \in Int
  BY <1>2
<1> QED BY <1>1, <1>3 DEF LooseRow, Delay

LEMMA InitInv == Init => IInv
<1> SUFFICES ASSUME Init PROVE IInv
  OBVIOUS
<1>1. Shapes
  BY NewRows DEF Init, Shapes
<1>2. Below /\ MarkKnows /\ DeliveredWasAccepted
  BY NewRows DEF Init, Below, MarkKnows, DeliveredWasAccepted
<1> QED BY <1>1, <1>2 DEF IInv

LEMMA StepInv == IInv /\ [Next]_vars => IInv'
<1> SUFFICES ASSUME IInv, [Next]_vars PROVE IInv'
  OBVIOUS
<1>0. Shapes /\ Below /\ MarkKnows /\ DeliveredWasAccepted
  BY DEF IInv
<1> DEFINE PubShapes == /\ pc \in [Publishers -> {"idle", "pass", "mark"}]
                        /\ batch \in [Publishers -> SUBSET Entries]
                        /\ sent \in [Publishers -> Entries \cup {NoEvent}]
                        /\ ok \in [Publishers -> BOOLEAN]
<1>s. /\ PubShapes /\ outbox \in [Ids -> LooseRow]
      /\ next \in [Stores -> Nat] /\ accepted \subseteq Ids
  BY <1>0 DEF Shapes
<1>u. ASSUME UNCHANGED <<outbox, next, pc, batch, sent, ok, accepted>> PROVE IInv'
  BY <1>0, <1>u DEF IInv, Shapes, Below, Used, MarkKnows, DeliveredWasAccepted
\* A step of no publisher keeps what it has in hand, if ids only become used.
<1>h. ASSUME UNCHANGED <<pubVars, accepted>>,
             outbox' \in [Ids -> LooseRow], next' \in [Stores -> Nat],
             \A id \in Ids : Used(id) => Used(id)',
             \A id \in Ids : outbox'[id].state # "none" => Used(id)',
             \A id \in Ids : outbox'[id].state = "delivered" => outbox[id].state = "delivered"
      PROVE  IInv'
  <2>1. Shapes'
    BY <1>0, <1>h DEF Shapes, pubVars
  <2>2. Below'
    BY <1>0, <1>h, EntryParts DEF Shapes, Below, pubVars
  <2>3. MarkKnows' /\ DeliveredWasAccepted'
    BY <1>0, <1>h DEF MarkKnows, DeliveredWasAccepted, pubVars
  <2> QED BY <2>1, <2>2, <2>3 DEF IInv
\* A step that only moves publisher p on.
<1>p. ASSUME NEW p \in Publishers, UNCHANGED <<outbox, next, accepted>>, PubShapes',
             \A z \in Publishers \ {p} : /\ pc'[z] = pc[z] /\ sent'[z] = sent[z]
                                        /\ batch'[z] = batch[z] /\ ok'[z] = ok[z],
             pc'[p] # "mark",
             \A e \in batch'[p] : Used(e[1])
      PROVE  IInv'
  <2>1. Shapes'
    BY <1>0, <1>p DEF Shapes
  <2>2. Below'
    BY <1>0, <1>p DEF Below, Used
  <2>3. MarkKnows' /\ DeliveredWasAccepted'
    BY <1>0, <1>p DEF MarkKnows, DeliveredWasAccepted
  <2> QED BY <2>1, <2>2, <2>3 DEF IInv
<1>1. ASSUME NEW s \in Stores, NEW queued \in BOOLEAN, Append(s, queued) PROVE IInv'
  <2>1. next' = [next EXCEPT ![s] = next[s] + 1] /\ UNCHANGED <<pubVars, accepted>>
    BY <1>1 DEF Append
  <2>2. next' \in [Stores -> Nat]
    BY <1>s, <2>1
  <2>3. \A id \in Ids : Used(id) => Used(id)'
    BY <1>s, <2>1, IdParts DEF Used
  <2> DEFINE new == [NoRow EXCEPT !.state = "pending"]
             id0 == <<s, next[s]>>
  <2>4. CASE queued
    <3>1. outbox' = [outbox EXCEPT ![id0] = new]
      BY <1>1, <2>4 DEF Append
    <3>2. new \in LooseRow /\ new.state = "pending"
      BY NewRows
    <3> HIDE DEF new
    <3>3. outbox' \in [Ids -> LooseRow]
      BY <1>s, <3>1, <3>2
    <3>4. ASSUME NEW id \in Ids, outbox'[id].state # "none" PROVE Used(id)'
      <4>1. CASE id = id0
        BY <1>s, <2>1, <4>1 DEF Used
      <4>2. CASE id # id0
        BY <1>0, <1>s, <2>3, <3>1, <3>4, <4>2 DEF Below
      <4> QED BY <4>1, <4>2
    <3>5. \A id \in Ids : outbox'[id].state = "delivered" => outbox[id].state = "delivered"
      BY <1>s, <3>1, <3>2
    <3> QED BY <1>h, <2>1, <2>2, <2>3, <3>3, <3>4, <3>5
  <2>5. CASE ~queued
    <3>1. outbox' = outbox
      BY <1>1, <2>5 DEF Append
    <3>2. \A id \in Ids : outbox'[id].state # "none" => Used(id)'
      BY <1>0, <2>3, <3>1 DEF Below
    <3> QED BY <1>h, <1>s, <2>1, <2>2, <2>3, <3>1, <3>2
  <2> QED BY <2>4, <2>5
<1>2. ASSUME NEW s \in Stores, NEW gone \in SUBSET Ids, Drop(s, gone) PROVE IInv'
  <2>1. /\ outbox' = [id \in Ids |-> IF id \in gone THEN NoRow ELSE outbox[id]]
        /\ next' = next /\ UNCHANGED <<pubVars, accepted>>
    BY <1>2 DEF Drop
  <2>2. outbox' \in [Ids -> LooseRow]
    BY <1>s, <2>1, NewRows
  <2>3. \A id \in Ids : outbox'[id].state # "none" => outbox'[id] = outbox[id]
    BY <2>1, NewRows
  <2>4. \A id \in Ids : Used(id) => Used(id)'
    BY <2>1 DEF Used
  <2>5. \A id \in Ids : outbox'[id].state # "none" => Used(id)'
    BY <1>0, <2>3, <2>4 DEF Below
  <2> QED BY <1>h, <1>s, <2>1, <2>2, <2>3, <2>4, <2>5
<1>3. ASSUME NEW s \in Stores, NEW p \in Publishers, Open(p, s) PROVE IInv'
  BY <1>3, <1>u DEF Open, pubVars
<1>4. ASSUME NEW p \in Publishers, Start(p) \/ EndPass(p) PROVE IInv'
  <2>1. /\ pc' \in [Publishers -> {"idle", "pass", "mark"}] /\ pc'[p] # "mark"
        /\ \A z \in Publishers \ {p} : pc'[z] = pc[z]
        /\ UNCHANGED <<outbox, next, batch, sent, ok, accepted>>
    BY <1>4, <1>s DEF Start, EndPass
  <2>2. \A e \in batch'[p] : Used(e[1])
    BY <1>0, <2>1 DEF Below
  <2> QED BY <1>p, <1>s, <2>1, <2>2
<1>5. ASSUME NEW p \in Publishers, NEW s \in Stores, Fetch(p, s) PROVE IInv'
  <2> DEFINE got == {<<id, outbox[id].attempts>> : id \in FirstDue(s)}
  <2>1. /\ batch' = [batch EXCEPT ![p] = got] /\ pc[p] = "pass"
        /\ UNCHANGED <<outbox, next, pc, sent, ok, accepted>>
    BY <1>5 DEF Fetch
  <2>2. FirstDue(s) \subseteq Ids /\ \A id \in FirstDue(s) : outbox[id].state = "pending"
    BY DEF FirstDue, Due, Pending
  <2>3. \A id \in Ids : outbox[id].attempts \in 0..MaxExp
    BY <1>s DEF LooseRow
  <2>4. got \in SUBSET Entries
    BY <2>2, <2>3 DEF Entries
  <2>5. \A e \in got : Used(e[1])
    BY <1>0, <2>2 DEF Below
  <2> HIDE DEF got
  <2>6. PubShapes'
    BY <1>s, <2>1, <2>4
  <2>7. \A e \in batch'[p] : Used(e[1])
    BY <1>s, <2>1, <2>5
  <2>8. \A z \in Publishers \ {p} : batch'[z] = batch[z]
    BY <1>s, <2>1
  <2> QED BY <1>p, <2>1, <2>6, <2>7, <2>8
<1>6. ASSUME NEW p \in Publishers, NEW e \in batch[p], Send(p, e) PROVE IInv'
  <2>1. /\ batch' = [batch EXCEPT ![p] = @ \ {e}] /\ sent' = [sent EXCEPT ![p] = e]
        /\ pc' = [pc EXCEPT ![p] = "mark"] /\ UNCHANGED <<outbox, next>>
    BY <1>6 DEF Send
  <2>2. /\ e \in Entries /\ e[1] \in Ids /\ Used(e[1])
    BY <1>0, <1>s, EntryParts DEF Below
  <2>3. /\ \E b \in BOOLEAN : ok' = [ok EXCEPT ![p] = b] /\ (b => e[1] \in accepted')
        /\ accepted' = accepted \/ accepted' = accepted \cup {e[1]}
    BY <1>6 DEF Send
  <2>4. PICK b \in BOOLEAN : ok' = [ok EXCEPT ![p] = b] /\ (b => e[1] \in accepted')
    BY <2>3
  <2>5. /\ batch' \in [Publishers -> SUBSET Entries]
        /\ \A z \in Publishers : batch'[z] \subseteq batch[z]
    BY <1>s, <2>1
  <2>6. /\ sent' \in [Publishers -> Entries \cup {NoEvent}]
        /\ pc' \in [Publishers -> {"idle", "pass", "mark"}] /\ ok' \in [Publishers -> BOOLEAN]
    BY <1>s, <2>1, <2>2, <2>4
  <2>7. /\ sent'[p] = e /\ ok'[p] = b
        /\ \A z \in Publishers \ {p} : pc'[z] = pc[z] /\ sent'[z] = sent[z] /\ ok'[z] = ok[z]
    BY <1>s, <2>1, <2>4
  <2>8. accepted \subseteq accepted' /\ accepted' \subseteq Ids /\ \A id \in accepted' : Used(id)
    BY <1>0, <1>s, <2>2, <2>3 DEF Below
  <2>9. Shapes'
    BY <1>0, <2>1, <2>2, <2>5, <2>6, <2>7, <2>8 DEF Shapes
  <2>10. Below'
    BY <1>0, <2>1, <2>2, <2>5, <2>7, <2>8 DEF Below, Used
  <2>11. MarkKnows' /\ DeliveredWasAccepted'
    BY <1>0, <2>1, <2>4, <2>7, <2>8 DEF MarkKnows, DeliveredWasAccepted
  <2> QED BY <2>9, <2>10, <2>11 DEF IInv
<1>7. ASSUME NEW p \in Publishers, Mark(p) PROVE IInv'
  <2> DEFINE id0 == sent[p][1]
  <2>1. /\ pc[p] = "mark" /\ pc' = [pc EXCEPT ![p] = "pass"]
        /\ sent' = [sent EXCEPT ![p] = NoEvent]
        /\ UNCHANGED <<next, batch, ok, accepted>>
    BY <1>7 DEF Mark
  <2>2. id0 \in Ids /\ sent[p][2] \in 0..MaxExp /\ Used(id0) /\ (ok[p] => id0 \in accepted)
    BY <1>0, <2>1, EntryParts DEF Shapes, Below, MarkKnows
  <2>3. outbox[id0].attempts \in 0..MaxExp
    BY <1>s, <2>2 DEF LooseRow
  <2>4. PICK new \in LooseRow :
           /\ outbox' = [outbox EXCEPT ![id0] = new]
           /\ new.state = "none" => outbox[id0].state = "none"
           /\ new.state = "delivered" => outbox[id0].state = "delivered" \/ ok[p]
    <3>1. CASE outbox[id0].state # "pending"
      BY <1>7, <1>s, <2>2, <3>1 DEF Mark
    <3>2. CASE outbox[id0].state = "pending" /\ ok[p]
      <4>1. outbox' = [outbox EXCEPT ![id0] = [NoRow EXCEPT !.state = "delivered"]]
        BY <1>7, <3>2 DEF Mark
      <4> QED BY <3>2, <4>1, NewRows
    <3>3. CASE outbox[id0].state = "pending" /\ ~ok[p]
      <4> DEFINE r == [state |-> "pending", wait |-> Delay(sent[p][2]),
                       attempts |-> Bump(outbox[id0].attempts)]
      <4>1. outbox' = [outbox EXCEPT ![id0] = r]
        BY <1>7, <3>3 DEF Mark
      <4>2. r \in LooseRow /\ r.state = "pending"
        BY <2>2, <2>3, FailedRow
      <4> HIDE DEF r
      <4> QED BY <4>1, <4>2
    <3> QED BY <3>1, <3>2, <3>3
  <2>5. /\ outbox' \in [Ids -> LooseRow]
        /\ outbox'[id0] = new /\ \A id \in Ids \ {id0} : outbox'[id] = outbox[id]
    BY <1>s, <2>2, <2>4
  <2>6. /\ pc' \in [Publishers -> {"idle", "pass", "mark"}]
        /\ sent' \in [Publishers -> Entries \cup {NoEvent}]
        /\ pc'[p] = "pass"
        /\ \A z \in Publishers \ {p} : pc'[z] = pc[z] /\ sent'[z] = sent[z]
    BY <1>s, <2>1
  <2>7. Shapes'
    BY <1>0, <2>1, <2>5, <2>6 DEF Shapes
  <2>8. Below'
    BY <1>0, <2>1, <2>2, <2>4, <2>5, <2>6 DEF Below, Used
  <2>9. MarkKnows'
    BY <1>0, <2>1, <2>6 DEF MarkKnows
  <2>10. DeliveredWasAccepted'
    BY <1>0, <2>1, <2>2, <2>4, <2>5 DEF DeliveredWasAccepted
  <2> QED BY <2>7, <2>8, <2>9, <2>10 DEF IInv
<1>8. ASSUME NEW p \in Publishers, StoreError(p) \/ Crash(p) PROVE IInv'
  <2>1. /\ pc' = [pc EXCEPT ![p] = "idle"] /\ batch' = [batch EXCEPT ![p] = {}]
        /\ sent' = [sent EXCEPT ![p] = NoEvent]
        /\ ok' = ok \/ ok' = [ok EXCEPT ![p] = FALSE]
        /\ UNCHANGED <<outbox, next, accepted>>
    BY <1>8 DEF StoreError, Crash
  <2>2. PubShapes'
    BY <1>s, <2>1
  <2>3. /\ pc'[p] # "mark" /\ batch'[p] = {}
        /\ \A z \in Publishers \ {p} : /\ pc'[z] = pc[z] /\ sent'[z] = sent[z]
                                       /\ batch'[z] = batch[z] /\ ok'[z] = ok[z]
    BY <1>s, <2>1
  <2> QED BY <1>p, <2>1, <2>2, <2>3
<1>9. ASSUME Tick PROVE IInv'
  <2>1. /\ outbox' = [id \in Ids |-> IF outbox[id].wait > 0
                                     THEN [outbox[id] EXCEPT !.wait = @ - 1] ELSE outbox[id]]
        /\ next' = next /\ UNCHANGED <<pubVars, accepted>>
    BY <1>9 DEF Tick
  <2>2. \A id \in Ids : outbox'[id] \in LooseRow /\ outbox'[id].state = outbox[id].state
    BY <1>s, <2>1 DEF LooseRow
  <2>3. outbox' \in [Ids -> LooseRow]
    BY <2>1, <2>2
  <2>4. \A id \in Ids : Used(id) => Used(id)'
    BY <2>1 DEF Used
  <2>5. \A id \in Ids : outbox'[id].state # "none" => Used(id)'
    BY <1>0, <2>2, <2>4 DEF Below
  <2> QED BY <1>h, <1>s, <2>1, <2>2, <2>3, <2>4, <2>5
<1>10. CASE UNCHANGED vars
  BY <1>10, <1>u DEF vars
<1> QED BY <1>1, <1>2, <1>3, <1>4, <1>5, <1>6, <1>7, <1>8, <1>9, <1>10 DEF Next, Deliver

LEMMA Invariant == Spec => []IInv
BY InitInv, StepInv, PTL DEF Spec

\* Only what the receiver accepted is ever marked delivered (webhook.rs:360), whatever
\* fails between the send and the mark and whoever else works on the row.
THEOREM Delivered == Spec => []DeliveredWasAccepted
<1>1. IInv => DeliveredWasAccepted
  BY DEF IInv
<1> QED BY <1>1, Invariant, PTL

\* AUTOINCREMENT (db.rs:86) never gives a new event the id of a dropped one, so neither
\* the receiver's memory nor a publisher's late mark can be about another event.
THEOREM Fresh == Spec => FreshIds
<1>1. IInv /\ [Next]_vars => [FreshStep]_vars
  <2> SUFFICES ASSUME IInv, Next,
                      NEW id \in Ids, outbox[id].state = "none", outbox'[id].state # "none"
               PROVE  ~Used(id)
    BY DEF FreshStep, IInv, Below
  <2>0. /\ outbox \in [Ids -> LooseRow] /\ next \in [Stores -> Nat]
        /\ \A p \in Publishers : pc[p] = "mark" => sent[p] \in Entries
    BY DEF IInv, Shapes
  <2>1. ASSUME NEW s \in Stores, NEW queued \in BOOLEAN, Append(s, queued) PROVE ~Used(id)
    <3>1. id = <<s, next[s]>>
      BY <2>0, <2>1 DEF Append
    <3> QED BY <2>0, <3>1 DEF Used
  <2>2. ASSUME NEW s \in Stores, NEW gone \in SUBSET Ids, Drop(s, gone) PROVE FALSE
    BY <2>2, NewRows DEF Drop
  <2>3. ASSUME outbox' = outbox PROVE FALSE
    BY <2>3
  <2>4. ASSUME NEW p \in Publishers, Mark(p) PROVE FALSE
    <3>1. sent[p][1] \in Ids
      BY <2>0, <2>4, EntryParts DEF Mark
    <3> QED BY <2>0, <2>4, <3>1 DEF Mark
  <2>5. ASSUME Tick PROVE FALSE
    <3>1. outbox'[id] = outbox[id] \/ outbox'[id] = [outbox[id] EXCEPT !.wait = @ - 1]
      BY <2>5 DEF Tick
    <3>2. [outbox[id] EXCEPT !.wait = @ - 1].state = outbox[id].state
      BY <2>0 DEF LooseRow
    <3> QED BY <3>1, <3>2
  <2>6. ASSUME NEW p \in Publishers,
               \/ Start(p) \/ EndPass(p) \/ StoreError(p) \/ Crash(p)
               \/ \E s \in Stores : Fetch(p, s) \/ Open(p, s)
               \/ \E e \in batch[p] : Send(p, e)
        PROVE  FALSE
    BY <2>3, <2>6 DEF Start, EndPass, StoreError, Crash, Fetch, Open, Send
  <2> QED BY <2>1, <2>2, <2>4, <2>5, <2>6 DEF Next, Deliver
<1> QED BY <1>1, Invariant, PTL DEF Spec, FreshIds
==============================================================================
