-------------------------- MODULE RecordStoreProofs --------------------------
(****************************************************************************)
(* The records backend, for any set of issues, projects, names and          *)
(* invocations and a trail of any length: between any two appends, and      *)
(* after a process died between them, the outbox has its audit events and   *)
(* the edges their issues; over a trail file of one process the sequence    *)
(* numbers are never used twice and a live claim is never stolen.           *)
(****************************************************************************)
EXTENDS RecordStore, IssueRowsProofs, FiniteSetTheorems, WellFoundedInduction

----------------------------------------------------------------------------
(* Revisions and invocations *)

\* What a revision carries, by its kind.
LEMMA RevisionFields ==
    ASSUME NEW a \in Revisions
    PROVE  /\ a.turn \in Nat
           /\ a.kind \in {"issue", "dep", "project", "audit", "outbound", "delivery",
                          "cut audit", "cut outbound"}
           /\ a.kind = "issue" => a.id \in Issues /\ a.row \in Row /\ a.swap \in BOOLEAN
           /\ a.kind = "dep" => a.edge \in Issues \X Issues /\ a.live \in BOOLEAN
           /\ a.kind = "project" => a.slug \in Projects /\ a.live \in BOOLEAN
           /\ a.kind \in {"audit", "outbound"} => a.at \in Nat \ {0} /\ a.id \in Issues
           /\ a.kind = "delivery" => a.at \in Seqs /\ a.state \in {"delivered", "failed"}
           /\ a.kind \in {"cut audit", "cut outbound"} => a.at \in Seqs
<1>1. CASE a \in [turn : Nat, kind : {"issue"}, id : Issues, row : Row, swap : BOOLEAN]
  BY <1>1
<1>2. CASE a \in [turn : Nat, kind : {"dep"}, edge : Issues \X Issues, live : BOOLEAN]
  BY <1>2
<1>3. CASE a \in [turn : Nat, kind : {"project"}, slug : Projects, live : BOOLEAN]
  BY <1>3
<1>4. CASE a \in [turn : Nat, kind : {"audit", "outbound"}, at : Nat \ {0}, id : Issues]
  BY <1>4
<1>5. CASE a \in [turn : Nat, kind : {"delivery"}, at : Seqs, state : {"delivered", "failed"}]
  BY <1>5
<1>6. CASE a \in [turn : Nat, kind : {"cut audit", "cut outbound"}, at : Seqs]
  BY <1>6
<1> QED BY <1>1, <1>2, <1>3, <1>4, <1>5, <1>6 DEF Revisions

\* The constructors build revisions.
LEMMA SaveIs ==
    ASSUME NEW t \in Nat, NEW i \in Issues, NEW row \in Row
    PROVE  /\ Save(t, i, row) \in Revisions /\ Save(t, i, row).kind = "issue"
           /\ Save(t, i, row).turn = t /\ Save(t, i, row).id = i /\ Save(t, i, row).row = row
           /\ Swap(t, i, row) \in Revisions /\ Swap(t, i, row).kind = "issue"
           /\ Swap(t, i, row).turn = t /\ Swap(t, i, row).id = i /\ Swap(t, i, row).row = row
BY DEF Save, Swap, Revisions

LEMMA ProjectIs ==
    ASSUME NEW t \in Nat, NEW s \in Projects, NEW live \in BOOLEAN
    PROVE  /\ Project(t, s, live) \in Revisions /\ Project(t, s, live).kind = "project"
           /\ Project(t, s, live).turn = t /\ Project(t, s, live).slug = s
           /\ Project(t, s, live).live = live
BY DEF Project, Revisions

LEMMA LogIs ==
    ASSUME NEW t \in Nat, NEW n \in Nat \ {0}, NEW i \in Issues
    PROVE  /\ Audit(t, n, i) \in Revisions /\ Audit(t, n, i).kind = "audit"
           /\ Audit(t, n, i).turn = t /\ Audit(t, n, i).at = n /\ Audit(t, n, i).id = i
           /\ Outbound(t, n, i) \in Revisions /\ Outbound(t, n, i).kind = "outbound"
           /\ Outbound(t, n, i).turn = t /\ Outbound(t, n, i).at = n
           /\ Outbound(t, n, i).id = i
BY DEF Audit, Outbound, Revisions

\* What the state holds, process by process.
LEMMA Types ==
    ASSUME TypeInv
    PROVE  /\ RowsTypeOK /\ shared \in BOOLEAN /\ top \in Nat /\ top <= MaxAppends
           /\ MaxAppends \in Nat
           /\ audit \in [Seqs -> Issues \cup {Unused, Gone}]
           /\ outbox \in [Seqs -> {Unused, Gone, "pending", "failed", "delivered"}]
           /\ \A p \in Procs :
                 /\ proc[p].open \in BOOLEAN /\ proc[p].seq \in Nat
                 /\ proc[p].todo \subseteq Revisions
                 /\ proc[p].version \in {"none", "fresh", "stale"}
           /\ Unused \notin Issues /\ Gone \notin Issues /\ Unused # Gone
BY RecordsAssumption DEF TypeInv, TypeOK, Invocation, Unused, Gone

\* The step that makes append a of p leaves every other operation as it was.
LEMMA DoneFacts ==
    ASSUME TypeInv, NEW p \in Procs, NEW a \in First(p), NEW seq \in Nat, NEW touched,
           top < MaxAppends, Done(p, a, seq, touched)
    PROVE  /\ a \in Revisions /\ a \in proc[p].todo
           /\ \A b \in proc[p].todo : b \in Revisions /\ ~(b.turn < a.turn)
           /\ proc' \in [Procs -> Invocation]
           /\ proc'[p].todo = proc[p].todo \ {a} /\ proc'[p].seq = seq
           /\ \A q \in Procs : /\ proc'[q].open = proc[q].open
                               /\ q # p => /\ proc'[q].todo = proc[q].todo
                                           /\ proc'[q].seq = proc[q].seq
           /\ top' = top + 1 /\ top' \in 0 .. MaxAppends
           /\ now' = now /\ events' = events /\ shared' = shared
<1> DEFINE mine == [proc[p] EXCEPT !.todo = @ \ {a}, !.seq = seq]
           Other(q) == IF /\ proc[q].version = "fresh"
                          /\ \E b \in First(q) : b.kind = "issue" /\ b.id \in touched
                       THEN [proc[q] EXCEPT !.version = "stale"] ELSE proc[q]
<1>1. /\ a \in proc[p].todo /\ proc[p].todo \subseteq Revisions /\ top \in Nat
      /\ \A b \in proc[p].todo : a.turn <= b.turn
  BY Types DEF First
<1>2. \A b \in proc[p].todo : b \in Revisions /\ ~(b.turn < a.turn)
  <2> TAKE b \in proc[p].todo
  <2>1. a.turn \in Nat /\ b.turn \in Nat /\ a.turn <= b.turn
    BY <1>1, RevisionFields
  <2> QED BY <1>1, <2>1
<1>3. proc \in [Procs -> Invocation]
  BY DEF TypeInv
<1>4. mine \in Invocation /\ mine.todo = proc[p].todo \ {a} /\ mine.seq = seq
      /\ mine.open = proc[p].open
  BY <1>3 DEF Invocation
<1>5. ASSUME NEW q \in Procs
      PROVE  /\ Other(q) \in Invocation /\ Other(q).todo = proc[q].todo
             /\ Other(q).seq = proc[q].seq /\ Other(q).open = proc[q].open
  BY <1>3 DEF Invocation
<1>6. proc' = [q \in Procs |-> IF q = p THEN mine ELSE Other(q)]
  BY DEF Done
<1> HIDE DEF mine, Other
<1>7. /\ proc' \in [Procs -> Invocation] /\ proc'[p] = mine
      /\ \A q \in Procs : q # p => proc'[q] = Other(q)
  BY <1>4, <1>5, <1>6
<1>8. /\ top' = top + 1 /\ now' = now /\ events' = events /\ shared' = shared
      /\ top' \in 0 .. MaxAppends
  BY Types DEF Done
<1> QED BY <1>1, <1>2, <1>4, <1>5, <1>7, <1>8

----------------------------------------------------------------------------
(* One append *)

\* With one process, the others are closed and have nothing to append.
LEMMA Alone ==
    ASSUME Ind, ~shared, NEW p \in Procs, proc[p].open, NEW q \in Procs \ {p}
    PROVE  ~proc[q].open /\ proc[q].todo = {}
BY Types DEF Ind, CountInv

\* The other invocations go on as planned, whatever p appends.
LEMMA OthersPlanned ==
    ASSUME Ind, NEW p \in Procs, proc[p].open, shared' = shared,
           \A q \in Procs \ {p} : proc'[q].todo = proc[q].todo /\ proc'[q].seq = proc[q].seq,
           shared => \A n \in Seqs : audit[n] \in Issues => audit'[n] \in Issues
    PROVE  \A q \in Procs \ {p} : Planned(q)'
<1> TAKE q \in Procs \ {p}
<1>1. CASE ~shared
  <2>1. proc'[q].todo = {}
    BY <1>1, Alone
  <2> QED BY <2>1 DEF Planned, Numbered, Orderly, CutsOrdered, Respectful, Decided
<1>2. CASE shared
  <2>1. Planned(q)
    BY DEF Ind
  <2>2. Numbered(q, proc[q].todo)'
    BY <1>2, <2>1 DEF Planned, Numbered
  <2>3. Orderly(proc[q].todo)'
    <3>1. \A a \in proc[q].todo : /\ a.kind \in {"issue", "audit", "outbound"}
                                  /\ a.kind = "issue" => a.row.status # "none"
      BY <1>2, <2>1 DEF Planned, Orderly
    <3> QED BY <3>1 DEF Orderly, CutsOrdered
  <2> QED BY <1>2, <2>2, <2>3 DEF Planned, Respectful, Decided
<1> QED BY <1>1, <1>2, Types DEF Ind

\* An append that uses no sequence number.
LEMMA CountKept ==
    ASSUME Ind, NEW p \in Procs, NEW a \in First(p), NEW touched, top < MaxAppends,
           Done(p, a, proc[p].seq, touched),
           \A n \in Seqs : audit'[n] # Unused => audit[n] # Unused,
           \A n \in Seqs : outbox'[n] # Unused => audit'[n] # Unused
    PROVE  CountInv'
<1>1. TypeInv /\ CountInv
  BY DEF Ind
<1>2. proc[p].seq \in Nat
  BY <1>1, Types
<1>3. /\ a \in proc[p].todo /\ proc'[p].todo = proc[p].todo \ {a}
      /\ \A q \in Procs : proc'[q].open = proc[q].open /\ proc'[q].seq = proc[q].seq
      /\ \A q \in Procs : q # p => proc'[q].todo = proc[q].todo
      /\ top' = top + 1 /\ shared' = shared
  BY <1>1, <1>2, DoneFacts
<1>4. top \in Nat /\ \A q \in Procs : proc[q].seq \in Nat
  BY <1>1, Types
<1>5. \A q \in Procs : proc'[q].seq <= top' /\ (~proc'[q].open => proc'[q].todo = {})
  BY <1>1, <1>3, <1>4 DEF CountInv
<1>6. \A n \in Seqs : audit'[n] # Unused =>
          /\ n <= top'
          /\ ~shared' => \A q \in Procs : proc'[q].open => n <= proc'[q].seq
  BY <1>1, <1>3, <1>4 DEF CountInv, Seqs
<1> QED BY <1>1, <1>3, <1>5, <1>6 DEF CountInv

\* What p has still to log is numbered as before when the append logs nothing.
LEMMA NumberedKept ==
    ASSUME Ind, NEW p \in Procs, NEW a \in First(p), NEW touched, top < MaxAppends,
           Done(p, a, proc[p].seq, touched), a.kind # "audit",
           \A n \in Seqs : audit[n] \in Issues => audit'[n] \in Issues,
           \A n \in Seqs : ~shared /\ outbox[n] = Unused /\ (a.kind = "outbound" => n # a.at)
                              => outbox'[n] = Unused
    PROVE  Numbered(p, proc[p].todo)'
<1>1. TypeInv /\ Numbered(p, proc[p].todo)
  BY DEF Ind, Planned
<1>2. proc[p].seq \in Nat
  BY <1>1, Types
<1>3. /\ a \in proc[p].todo /\ proc'[p].todo = proc[p].todo \ {a}
      /\ proc'[p].seq = proc[p].seq /\ shared' = shared
  BY <1>1, <1>2, DoneFacts
<1>4. \A b \in proc'[p].todo : b.kind = "audit" =>
          /\ b.at > proc'[p].seq
          /\ \/ b.at = proc'[p].seq + 1
             \/ \E c \in proc'[p].todo : c.kind = "audit" /\ c.at = b.at - 1 /\ c.turn < b.turn
  BY <1>1, <1>3 DEF Numbered
<1>5. \A b \in proc'[p].todo : b.kind = "outbound" =>
          \/ /\ b.at <= proc'[p].seq /\ b.at \in Seqs /\ audit'[b.at] \in Issues
             /\ ~shared' => outbox'[b.at] = Unused
          \/ \E c \in proc'[p].todo : c.kind = "audit" /\ c.at = b.at /\ c.turn < b.turn
  BY <1>1, <1>3 DEF Numbered
<1>6. \A b, c \in proc'[p].todo :
          b.kind \in {"audit", "outbound"} /\ b.kind = c.kind /\ b.at = c.at => b = c
  BY <1>1, <1>3 DEF Numbered
<1> QED BY <1>4, <1>5, <1>6 DEF Numbered

\* So are the rows it is going to write.
LEMMA DecidedKept ==
    ASSUME Ind, NEW p \in Procs, NEW a \in First(p), NEW seq \in Nat, NEW touched,
           top < MaxAppends, Done(p, a, seq, touched)
    PROVE  Decided(proc[p].todo)'
<1>1. TypeInv /\ Decided(proc[p].todo)
  BY DEF Ind, Planned
<1>2. /\ a \in proc[p].todo /\ proc'[p].todo = proc[p].todo \ {a} /\ shared' = shared
      /\ \A b \in proc[p].todo : b \in Revisions /\ ~(b.turn < a.turn)
  BY <1>1, DoneFacts
<1>3. \A b \in proc[p].todo : b.turn \in Nat
  BY <1>2, RevisionFields
<1>4. ASSUME ~shared, NEW b \in proc'[p].todo, b.kind = "issue"
      PROVE  \E m \in proc'[p].todo :
                 /\ m.kind = "issue" /\ m.id = b.id
                 /\ \A c \in proc'[p].todo : c.kind = "issue" /\ c.id = b.id => c.turn <= m.turn
  <2>1. PICK m \in proc[p].todo :
            /\ m.kind = "issue" /\ m.id = b.id
            /\ \A c \in proc[p].todo : c.kind = "issue" /\ c.id = b.id => c.turn <= m.turn
    BY <1>1, <1>2, <1>4 DEF Decided
  <2>2. m # a
    <3>1. b \in proc[p].todo /\ b # a /\ b.turn <= m.turn
      BY <1>2, <1>4, <2>1
    <3>2. m = a => b.turn = a.turn
      BY <1>2, <1>3, <3>1
    <3> QED BY <1>1, <1>4, <2>1, <3>1, <3>2 DEF Decided
  <2> QED BY <1>2, <2>1, <2>2
<1> QED BY <1>1, <1>2, <1>4 DEF Decided

\* What a drop has still to cut.
LEMMA CutsKept ==
    ASSUME TypeInv, NEW p \in Procs, NEW a \in First(p), NEW seq \in Nat, NEW touched,
           top < MaxAppends, Done(p, a, seq, touched), CutsOrdered(proc[p].todo),
           \/ a.kind \in {"audit", "outbound", "delivery"}
           \/ a.kind \in {"issue", "dep", "project"} /\ audit' = audit /\ outbox' = outbox
    PROVE  CutsOrdered(proc[p].todo)'
<1>1. a \in proc[p].todo /\ proc'[p].todo = proc[p].todo \ {a}
  BY DoneFacts
<1>2. CASE a.kind \in {"audit", "outbound", "delivery"}
  <2>1. \A b \in proc'[p].todo : b.kind \notin {"cut audit", "cut outbound"}
    BY <1>1, <1>2 DEF CutsOrdered
  <2> QED BY <2>1 DEF CutsOrdered
<1>3. CASE a.kind \in {"issue", "dep", "project"} /\ audit' = audit /\ outbox' = outbox
  <2>1. \A b \in proc'[p].todo : b.kind \in {"cut audit", "cut outbound"} =>
            /\ audit'[b.at] # Unused
            /\ \A c \in proc'[p].todo : c.kind \notin {"audit", "outbound", "delivery"}
    BY <1>1, <1>3 DEF CutsOrdered
  <2>2. ASSUME NEW b \in proc'[p].todo, b.kind = "cut audit", outbox'[b.at] \notin {Unused, Gone}
        PROVE  \E c \in proc'[p].todo :
                   c.kind = "cut outbound" /\ c.at = b.at /\ c.turn < b.turn
    <3>1. PICK c \in proc[p].todo : c.kind = "cut outbound" /\ c.at = b.at /\ c.turn < b.turn
      BY <1>1, <1>3, <2>2 DEF CutsOrdered
    <3> QED BY <1>1, <1>3, <3>1
  <2> QED BY <2>1, <2>2 DEF CutsOrdered
<1> QED BY <1>2, <1>3

\* A row is written: what refers to the issue still finds it.
LEMMA PutIssueInd ==
    ASSUME Ind, NEW p \in Procs, NEW a \in proc[p].todo, PutIssue(p, a) \/ SwapIssue(p, a)
    PROVE  Ind'
<1>a. /\ a \in First(p) /\ a.kind = "issue" /\ top < MaxAppends
      /\ issue' = [issue EXCEPT ![a.id] = a.row] /\ Done(p, a, proc[p].seq, {a.id})
      /\ UNCHANGED <<projects, dep, audit, outbox>>
  BY DEF PutIssue, SwapIssue, Due
<1>b. TypeInv /\ CountInv /\ OutboxHasAudit /\ EdgesResolve /\ Planned(p) /\ RowsTypeOK
      /\ proc[p].seq \in Nat /\ proc[p].open
  BY Types DEF Ind, CountInv
<1>c. /\ a \in Revisions /\ a.id \in Issues /\ a.row \in Row /\ RowConsistent(a.row)
  BY <1>a, <1>b, DoneFacts, RevisionFields DEF TypeInv
<1>d. /\ \A b \in proc[p].todo : b \in Revisions /\ ~(b.turn < a.turn)
      /\ proc' \in [Procs -> Invocation] /\ proc'[p].todo = proc[p].todo \ {a}
      /\ \A q \in Procs \ {p} : proc'[q].todo = proc[q].todo /\ proc'[q].seq = proc[q].seq
      /\ top' \in 0 .. MaxAppends /\ now' = now /\ events' = events /\ shared' = shared
  BY <1>a, <1>b, DoneFacts
<1>e. issue \in [Issues -> Row] /\ \A i \in Issues : issue'[i] = IF i = a.id THEN a.row ELSE issue[i]
  BY <1>a, <1>b, <1>c DEF RowsTypeOK
<1>1. TypeInv'
  <2>1. issue' \in [Issues -> Row] /\ \A i \in Issues : RowConsistent(issue'[i])
    BY <1>a, <1>b, <1>c, SetRowTypes DEF RowsTypeOK
  <2>2. RowsTypeOK'
    BY <1>a, <1>b, <1>d, <2>1 DEF RowsTypeOK
  <2>3. TypeOK'
    BY <1>a, <1>b, <1>d, <2>2, Types DEF TypeOK, Invocation
  <2>4. \A q \in Procs : \A b \in proc'[q].todo : b.kind = "issue" => RowConsistent(b.row)
    BY <1>b, <1>d DEF TypeInv
  <2> QED BY <1>b, <1>d, <2>3, <2>4 DEF TypeInv
<1>2. CountInv'
  BY <1>a, <1>b, CountKept DEF CountInv
<1>3. OutboxHasAudit'
  BY <1>a, <1>b DEF OutboxHasAudit
<1>4. EdgesResolve'
  <2> SUFFICES ASSUME NEW e \in dep PROVE Exists(e[1])' /\ Exists(e[2])'
    BY <1>a DEF EdgesResolve
  <2>1. e[1] \in Issues /\ e[2] \in Issues /\ Exists(e[1]) /\ Exists(e[2])
    BY <1>b DEF RowsTypeOK, EdgesResolve
  <2>2. a.row.status = "none" => a.id \notin {e[1], e[2]}
    BY <1>a, <1>b, <1>d DEF Planned, Orderly
  <2> QED BY <1>e, <2>1, <2>2 DEF Exists
<1>5. shared' => dep' = {}
  BY <1>a, <1>d DEF Ind
<1>6. \A q \in Procs \ {p} : Planned(q)'
  BY <1>a, <1>b, <1>d, OthersPlanned
<1>7. Planned(p)'
  <2>1. Numbered(p, proc[p].todo)'
    BY <1>a, <1>b, NumberedKept
  <2>2. Orderly(proc[p].todo)'
    <3>1. \A b \in proc'[p].todo : b.kind # "delivery"
      BY <1>a, <1>b, <1>d DEF Planned, Orderly
    <3>2. \A b \in proc'[p].todo : b.kind = "dep" /\ b.live =>
              /\ Exists(b.edge[1])' /\ Exists(b.edge[2])'
              /\ \A c \in proc'[p].todo : c.kind = "issue" => c.row.status # "none"
      <4> TAKE b \in proc'[p].todo
      <4> HAVE b.kind = "dep" /\ b.live
      <4>1. b.edge[1] \in Issues /\ b.edge[2] \in Issues
        BY <1>d, RevisionFields
      <4>2. /\ Exists(b.edge[1]) /\ Exists(b.edge[2]) /\ a.row.status # "none"
            /\ \A c \in proc[p].todo : c.kind = "issue" => c.row.status # "none"
        BY <1>a, <1>b, <1>d DEF Planned, Orderly
      <4> QED BY <1>d, <1>e, <4>1, <4>2 DEF Exists
    <3>3. CutsOrdered(proc[p].todo)'
      BY <1>a, <1>b, CutsKept DEF Planned, Orderly
    <3>4. \A b \in proc'[p].todo : b.kind = "issue" /\ b.row.status = "none" =>
              \A e \in dep' : b.id \in {e[1], e[2]} =>
                  \E c \in proc'[p].todo :
                      c.kind = "dep" /\ ~c.live /\ c.edge = e /\ c.turn < b.turn
      <4> TAKE b \in proc'[p].todo
      <4> HAVE b.kind = "issue" /\ b.row.status = "none"
      <4> TAKE e \in dep'
      <4> HAVE b.id \in {e[1], e[2]}
      <4>1. e \in dep /\ b \in proc[p].todo
        BY <1>a, <1>d
      <4>2. PICK c \in proc[p].todo :
                c.kind = "dep" /\ ~c.live /\ c.edge = e /\ c.turn < b.turn
        BY <1>b, <4>1 DEF Planned, Orderly
      <4> QED BY <1>a, <1>d, <4>2
    <3>5. \A b \in proc'[p].todo : shared' =>
              /\ b.kind \in {"issue", "audit", "outbound"}
              /\ b.kind = "issue" => b.row.status # "none"
      BY <1>b, <1>d DEF Planned, Orderly
    <3> QED BY <3>1, <3>2, <3>3, <3>4, <3>5 DEF Orderly
  <2>3. Respectful(proc[p].todo)'
    <3> SUFFICES ASSUME ~shared, NEW b \in proc'[p].todo, b.kind = "issue"
                 PROVE  /\ Held(b.id, now)' => b.row.assignee \in {issue'[b.id].assignee, NoOne}
                        /\ \A c \in proc'[p].todo : c.kind = "issue" /\ c.id = b.id /\ c # b
                              => b.row.assignee = NoOne
      BY <1>d DEF Respectful
    <3>1. /\ Held(b.id, now) => b.row.assignee \in {issue[b.id].assignee, NoOne}
          /\ \A c \in proc[p].todo : c.kind = "issue" /\ c.id = b.id /\ c # b
                => b.row.assignee = NoOne
      BY <1>b, <1>d DEF Planned, Respectful
    <3>2. b.id \in Issues
      BY <1>d, RevisionFields
    <3>3. CASE b.id = a.id
      BY <1>a, <1>d, <3>1, <3>3
    <3>4. CASE b.id # a.id
      BY <1>d, <1>e, <3>1, <3>2, <3>4 DEF Held
    <3> QED BY <3>3, <3>4
  <2>4. Decided(proc[p].todo)'
    BY <1>a, <1>b, DecidedKept
  <2> QED BY <2>1, <2>2, <2>3, <2>4 DEF Planned
<1> QED BY <1>1, <1>2, <1>3, <1>4, <1>5, <1>6, <1>7 DEF Ind

\* An append that writes no issue leaves the types and the saves to come as they are.
LEMMA TypeKept ==
    ASSUME TypeInv, NEW p \in Procs, NEW a \in First(p), NEW seq \in Nat, NEW touched,
           top < MaxAppends, Done(p, a, seq, touched), issue' = issue,
           projects' \subseteq Projects, dep' \subseteq Issues \X Issues,
           audit' \in [Seqs -> Issues \cup {Unused, Gone}],
           outbox' \in [Seqs -> {Unused, Gone, "pending", "failed", "delivered"}]
    PROVE  TypeInv'
<1>1. /\ proc' \in [Procs -> Invocation] /\ proc'[p].todo = proc[p].todo \ {a}
      /\ \A q \in Procs \ {p} : proc'[q].todo = proc[q].todo
      /\ top' \in 0 .. MaxAppends /\ now' = now /\ events' = events /\ shared' = shared
  BY DoneFacts
<1>2. RowsTypeOK'
  BY <1>1, Types DEF RowsTypeOK
<1>3. TypeOK'
  BY <1>1, <1>2, Types DEF TypeOK, Invocation
<1>4. \A q \in Procs : \A b \in proc'[q].todo : b.kind = "issue" => RowConsistent(b.row)
  BY <1>1 DEF TypeInv
<1> QED BY <1>1, <1>3, <1>4, Types DEF TypeInv

LEMMA RespectfulKept ==
    ASSUME Ind, NEW p \in Procs, NEW a \in First(p), NEW seq \in Nat, NEW touched,
           top < MaxAppends, Done(p, a, seq, touched), issue' = issue
    PROVE  Respectful(proc[p].todo)'
<1>1. TypeInv /\ Respectful(proc[p].todo)
  BY DEF Ind, Planned
<1>2. proc'[p].todo \subseteq proc[p].todo /\ now' = now /\ shared' = shared
  BY <1>1, DoneFacts
<1> QED BY <1>1, <1>2 DEF Respectful, Held

\* An edge is added between issues that are there, and goes before its issues.
LEMMA PutEdgeInd ==
    ASSUME Ind, NEW p \in Procs, NEW a \in proc[p].todo, PutEdge(p, a)
    PROVE  Ind'
<1>a. /\ a \in First(p) /\ a.kind = "dep" /\ top < MaxAppends
      /\ dep' = (IF a.live THEN dep \cup {a.edge} ELSE dep \ {a.edge})
      /\ Done(p, a, proc[p].seq, {}) /\ UNCHANGED <<projects, issue, audit, outbox>>
  BY DEF PutEdge, Due
<1>b. TypeInv /\ CountInv /\ OutboxHasAudit /\ EdgesResolve /\ Planned(p) /\ RowsTypeOK
      /\ proc[p].seq \in Nat /\ proc[p].open
  BY Types DEF Ind, CountInv
<1>c. /\ a.edge \in Issues \X Issues /\ ~shared
      /\ a.live => /\ Exists(a.edge[1]) /\ Exists(a.edge[2])
                   /\ \A b \in proc[p].todo : b.kind = "issue" => b.row.status # "none"
  BY <1>a, <1>b, DoneFacts, RevisionFields DEF Planned, Orderly
<1>d. /\ \A b \in proc[p].todo : b \in Revisions /\ ~(b.turn < a.turn)
      /\ proc'[p].todo = proc[p].todo \ {a} /\ shared' = shared
      /\ \A q \in Procs \ {p} : proc'[q].todo = proc[q].todo /\ proc'[q].seq = proc[q].seq
  BY <1>a, <1>b, DoneFacts
<1>1. TypeInv'
  BY <1>a, <1>b, <1>c, TypeKept, Types DEF RowsTypeOK
<1>2. CountInv'
  BY <1>a, <1>b, CountKept DEF CountInv
<1>3. OutboxHasAudit'
  BY <1>a, <1>b DEF OutboxHasAudit
<1>4. EdgesResolve'
  BY <1>a, <1>b, <1>c DEF EdgesResolve, Exists
<1>5. shared' => dep' = {}
  BY <1>c, <1>d
<1>6. \A q \in Procs \ {p} : Planned(q)'
  BY <1>a, <1>b, <1>d, OthersPlanned
<1>7. Planned(p)'
  <2>1. Numbered(p, proc[p].todo)'
    BY <1>a, <1>b, NumberedKept
  <2>2. Orderly(proc[p].todo)'
    <3>1. \A b \in proc'[p].todo : b.kind # "delivery"
      BY <1>a, <1>b, <1>d DEF Planned, Orderly
    <3>2. \A b \in proc'[p].todo : b.kind = "dep" /\ b.live =>
              /\ Exists(b.edge[1])' /\ Exists(b.edge[2])'
              /\ \A c \in proc'[p].todo : c.kind = "issue" => c.row.status # "none"
      BY <1>a, <1>b, <1>d DEF Planned, Orderly, Exists
    <3>3. CutsOrdered(proc[p].todo)'
      BY <1>a, <1>b, CutsKept DEF Planned, Orderly
    <3>4. \A b \in proc'[p].todo : b.kind = "issue" /\ b.row.status = "none" =>
              \A e \in dep' : b.id \in {e[1], e[2]} =>
                  \E c \in proc'[p].todo :
                      c.kind = "dep" /\ ~c.live /\ c.edge = e /\ c.turn < b.turn
      <4> TAKE b \in proc'[p].todo
      <4> HAVE b.kind = "issue" /\ b.row.status = "none"
      <4> TAKE e \in dep'
      <4> HAVE b.id \in {e[1], e[2]}
      <4>1. ~a.live /\ e \in dep /\ e # a.edge /\ b \in proc[p].todo
        BY <1>a, <1>c, <1>d
      <4>2. PICK c \in proc[p].todo :
                c.kind = "dep" /\ ~c.live /\ c.edge = e /\ c.turn < b.turn
        BY <1>b, <4>1 DEF Planned, Orderly
      <4> QED BY <1>d, <4>1, <4>2
    <3> QED BY <1>c, <1>d, <3>1, <3>2, <3>3, <3>4 DEF Orderly
  <2>3. Respectful(proc[p].todo)'
    BY <1>a, <1>b, RespectfulKept
  <2>4. Decided(proc[p].todo)'
    BY <1>a, <1>b, DecidedKept
  <2> QED BY <2>1, <2>2, <2>3, <2>4 DEF Planned
<1> QED BY <1>1, <1>2, <1>3, <1>4, <1>5, <1>6, <1>7 DEF Ind

\* An append that leaves issues and edges alone, and cuts nothing.
LEMMA OrderlyKept ==
    ASSUME Ind, NEW p \in Procs, NEW a \in First(p), NEW seq \in Nat, NEW touched,
           top < MaxAppends, Done(p, a, seq, touched), issue' = issue, dep' = dep,
           a.kind # "dep", CutsOrdered(proc[p].todo)'
    PROVE  Orderly(proc[p].todo)'
<1>1. TypeInv /\ Orderly(proc[p].todo)
  BY DEF Ind, Planned
<1>2. a \in proc[p].todo /\ proc'[p].todo = proc[p].todo \ {a} /\ shared' = shared
  BY <1>1, DoneFacts
<1>3. \A b \in proc'[p].todo : b.kind # "delivery"
  BY <1>1, <1>2 DEF Orderly
<1>4. \A b \in proc'[p].todo : b.kind = "issue" /\ b.row.status = "none" =>
          \A e \in dep' : b.id \in {e[1], e[2]} =>
              \E c \in proc'[p].todo : c.kind = "dep" /\ ~c.live /\ c.edge = e /\ c.turn < b.turn
  <2> TAKE b \in proc'[p].todo
  <2> HAVE b.kind = "issue" /\ b.row.status = "none"
  <2> TAKE e \in dep'
  <2> HAVE b.id \in {e[1], e[2]}
  <2>1. PICK c \in proc[p].todo : c.kind = "dep" /\ ~c.live /\ c.edge = e /\ c.turn < b.turn
    BY <1>1, <1>2 DEF Orderly
  <2> QED BY <1>2, <2>1
<1>5. ASSUME NEW b \in proc'[p].todo, b.kind = "dep", b.live
      PROVE  /\ Exists(b.edge[1])' /\ Exists(b.edge[2])'
             /\ \A c \in proc'[p].todo : c.kind = "issue" => c.row.status # "none"
  <2>1. /\ Exists(b.edge[1]) /\ Exists(b.edge[2])
        /\ \A c \in proc[p].todo : c.kind = "issue" => c.row.status # "none"
    BY <1>1, <1>2, <1>5 DEF Orderly
  <2> QED BY <1>2, <2>1 DEF Exists
<1>6. \A b \in proc'[p].todo : shared' =>
          /\ b.kind \in {"issue", "audit", "outbound"}
          /\ b.kind = "issue" => b.row.status # "none"
  BY <1>1, <1>2 DEF Orderly
<1> QED BY <1>3, <1>4, <1>5, <1>6 DEF Orderly

LEMMA PutProjectInd ==
    ASSUME Ind, NEW p \in Procs, NEW a \in proc[p].todo, PutProject(p, a)
    PROVE  Ind'
<1>a. /\ a \in First(p) /\ a.kind = "project" /\ top < MaxAppends
      /\ projects' = (IF a.live THEN projects \cup {a.slug} ELSE projects \ {a.slug})
      /\ Done(p, a, proc[p].seq, {}) /\ UNCHANGED <<issue, dep, audit, outbox>>
  BY DEF PutProject, Due
<1>b. TypeInv /\ CountInv /\ OutboxHasAudit /\ EdgesResolve /\ Planned(p) /\ RowsTypeOK
      /\ proc[p].seq \in Nat /\ proc[p].open
  BY Types DEF Ind, CountInv
<1>d. /\ a.slug \in Projects /\ shared' = shared
      /\ \A q \in Procs \ {p} : proc'[q].todo = proc[q].todo /\ proc'[q].seq = proc[q].seq
  BY <1>a, <1>b, DoneFacts, RevisionFields
<1>1. TypeInv'
  BY <1>a, <1>b, <1>d, TypeKept, Types DEF RowsTypeOK
<1>2. CountInv'
  BY <1>a, <1>b, CountKept DEF CountInv
<1>3. OutboxHasAudit'
  BY <1>a, <1>b DEF OutboxHasAudit
<1>4. EdgesResolve'
  BY <1>a, <1>b DEF EdgesResolve, Exists
<1>5. shared' => dep' = {}
  BY <1>a, <1>d DEF Ind
<1>6. \A q \in Procs \ {p} : Planned(q)'
  BY <1>a, <1>b, <1>d, OthersPlanned
<1>7. Planned(p)'
  <2>1. Numbered(p, proc[p].todo)'
    BY <1>a, <1>b, NumberedKept
  <2>2. CutsOrdered(proc[p].todo)'
    BY <1>a, <1>b, CutsKept DEF Planned, Orderly
  <2>3. Orderly(proc[p].todo)'
    BY <1>a, <1>b, <2>2, OrderlyKept
  <2> QED BY <1>a, <1>b, <2>1, <2>3, RespectfulKept, DecidedKept DEF Planned
<1> QED BY <1>1, <1>2, <1>3, <1>4, <1>5, <1>6, <1>7 DEF Ind

\* The next sequence number is free, and taken once.
LEMMA PutAuditInd ==
    ASSUME Ind, NEW p \in Procs, NEW a \in proc[p].todo, PutAudit(p, a)
    PROVE  Ind'
<1>a. /\ a \in First(p) /\ a.kind = "audit" /\ top < MaxAppends
      /\ audit' = [audit EXCEPT ![a.at] = a.id]
      /\ Done(p, a, a.at, {}) /\ UNCHANGED <<projects, issue, dep, outbox>>
  BY DEF PutAudit, Due
<1>b. TypeInv /\ CountInv /\ OutboxHasAudit /\ EdgesResolve /\ Planned(p) /\ RowsTypeOK
      /\ proc[p].seq \in Nat /\ proc[p].open /\ top \in Nat /\ MaxAppends \in Nat
  BY Types DEF Ind, CountInv
<1>c. /\ a \in Revisions /\ a.at \in Nat \ {0} /\ a.id \in Issues /\ a.id # Unused
  BY <1>a, <1>b, Types, RevisionFields
<1>d. /\ \A b \in proc[p].todo : b \in Revisions /\ ~(b.turn < a.turn)
      /\ proc'[p].todo = proc[p].todo \ {a} /\ proc'[p].seq = a.at
      /\ \A q \in Procs : proc'[q].open = proc[q].open
      /\ \A q \in Procs \ {p} : proc'[q].todo = proc[q].todo /\ proc'[q].seq = proc[q].seq
      /\ top' = top + 1 /\ shared' = shared
  BY <1>a, <1>b, <1>c, DoneFacts
<1>e. a.at = proc[p].seq + 1 /\ a.at \in Seqs /\ a.at <= top'
  <2>1. a.at = proc[p].seq + 1
    BY <1>a, <1>b, <1>d DEF Planned, Numbered
  <2>2. proc[p].seq <= top
    BY <1>b DEF CountInv
  <2> QED BY <1>a, <1>b, <1>d, <2>1, <2>2 DEF Seqs
<1>f. \A n \in Seqs : audit'[n] = IF n = a.at THEN a.id ELSE audit[n]
  BY <1>a, <1>b, <1>e, Types
<1>g. ~shared => audit[a.at] = Unused /\ outbox[a.at] = Unused
  <2>1. ~(a.at <= proc[p].seq)
    BY <1>b, <1>e
  <2> QED BY <1>b, <1>e, <2>1 DEF CountInv
<1>1. TypeInv'
  <2>1. audit' \in [Seqs -> Issues \cup {Unused, Gone}]
    BY <1>a, <1>b, <1>c, <1>e, Types
  <2> QED BY <1>a, <1>b, <1>c, <2>1, TypeKept, Types DEF RowsTypeOK
<1>2. CountInv'
  <2>1. \A q \in Procs : proc[q].seq \in Nat /\ proc[q].seq <= top
    BY <1>b, Types DEF CountInv
  <2>2. \A q \in Procs : proc'[q].seq <= top' /\ (~proc'[q].open => proc'[q].todo = {})
    BY <1>b, <1>d, <1>e, <2>1 DEF CountInv
  <2>3. ~shared' => \A q, r \in Procs : proc'[q].open /\ proc'[r].open => q = r
    BY <1>b, <1>d DEF CountInv
  <2>4. \A n \in Seqs : audit'[n] # Unused => n <= top'
    BY <1>b, <1>d, <1>e, <1>f DEF CountInv, Seqs
  <2>5. ASSUME NEW n \in Seqs, audit'[n] # Unused, ~shared, NEW q \in Procs, proc'[q].open
        PROVE  n <= proc'[q].seq
    <3>1. q = p
      BY <1>b, <1>d, <2>5 DEF CountInv
    <3>2. n = a.at \/ n <= proc[p].seq
      BY <1>b, <1>f, <2>5 DEF CountInv
    <3> QED BY <1>b, <1>d, <1>e, <3>1, <3>2 DEF Seqs
  <2>6. \A n \in Seqs : outbox'[n] # Unused => audit'[n] # Unused
    BY <1>a, <1>b, <1>c, <1>f DEF CountInv
  <2> QED BY <1>d, <2>2, <2>3, <2>4, <2>5, <2>6 DEF CountInv
<1>3. OutboxHasAudit'
  BY <1>a, <1>b, <1>c, <1>f DEF OutboxHasAudit
<1>4. EdgesResolve'
  BY <1>a, <1>b DEF EdgesResolve, Exists
<1>5. shared' => dep' = {}
  BY <1>a, <1>d DEF Ind
<1>6. \A q \in Procs \ {p} : Planned(q)'
  BY <1>a, <1>b, <1>c, <1>d, <1>f, OthersPlanned
<1>7. Planned(p)'
  <2>1. Numbered(p, proc[p].todo)'
    <3>1. ASSUME NEW b \in proc'[p].todo, b.kind = "audit"
          PROVE  /\ b.at > proc'[p].seq
                 /\ \/ b.at = proc'[p].seq + 1
                    \/ \E c \in proc'[p].todo :
                          c.kind = "audit" /\ c.at = b.at - 1 /\ c.turn < b.turn
      <4>0. b \in proc[p].todo /\ b # a /\ b \in Revisions
        BY <1>d, <3>1
      <4>1. b.at \in Nat /\ b.at > proc[p].seq /\ b.at # a.at
        <5>1. b.at \in Nat /\ b.at > proc[p].seq
          BY <1>b, <3>1, <4>0, RevisionFields DEF Planned, Numbered
        <5>2. b.at # a.at
          BY <1>a, <1>b, <3>1, <4>0 DEF Planned, Numbered
        <5> QED BY <5>1, <5>2
      <4>2. \E c \in proc[p].todo : c.kind = "audit" /\ c.at = b.at - 1 /\ c.turn < b.turn
        BY <1>b, <1>e, <3>1, <4>0, <4>1 DEF Planned, Numbered
      <4> QED BY <1>b, <1>d, <1>e, <4>1, <4>2
    <3>2. ASSUME NEW b \in proc'[p].todo, b.kind = "outbound"
          PROVE  \/ /\ b.at <= proc'[p].seq /\ b.at \in Seqs /\ audit'[b.at] \in Issues
                    /\ ~shared' => outbox'[b.at] = Unused
                 \/ \E c \in proc'[p].todo : c.kind = "audit" /\ c.at = b.at /\ c.turn < b.turn
      <4>1. b \in proc[p].todo /\ b.at \in Nat
        BY <1>d, <3>2, RevisionFields
      <4>2. CASE /\ b.at <= proc[p].seq /\ b.at \in Seqs /\ audit[b.at] \in Issues
                 /\ ~shared => outbox[b.at] = Unused
        BY <1>a, <1>b, <1>d, <1>e, <1>f, <4>1, <4>2
      <4>3. ASSUME NEW c \in proc[p].todo, c.kind = "audit", c.at = b.at, c.turn < b.turn
            PROVE  \/ /\ b.at <= proc'[p].seq /\ b.at \in Seqs /\ audit'[b.at] \in Issues
                      /\ ~shared' => outbox'[b.at] = Unused
                   \/ \E d \in proc'[p].todo :
                         d.kind = "audit" /\ d.at = b.at /\ d.turn < b.turn
        BY <1>a, <1>c, <1>d, <1>e, <1>f, <1>g, <4>1, <4>3
      <4> QED BY <1>b, <3>2, <4>1, <4>2, <4>3 DEF Planned, Numbered
    <3>3. \A b, c \in proc'[p].todo :
              b.kind \in {"audit", "outbound"} /\ b.kind = c.kind /\ b.at = c.at => b = c
      BY <1>b, <1>d DEF Planned, Numbered
    <3> QED BY <3>1, <3>2, <3>3 DEF Numbered
  <2>2. CutsOrdered(proc[p].todo)'
    BY <1>a, <1>b, <1>c, CutsKept DEF Planned, Orderly
  <2>3. Orderly(proc[p].todo)'
    BY <1>a, <1>b, <1>c, <2>2, OrderlyKept
  <2> QED BY <1>a, <1>b, <1>c, <2>1, <2>3, RespectfulKept, DecidedKept DEF Planned
<1> QED BY <1>1, <1>2, <1>3, <1>4, <1>5, <1>6, <1>7 DEF Ind

\* The audit event of an outbox event has been appended before it.
LEMMA PutOutboundInd ==
    ASSUME Ind, NEW p \in Procs, NEW a \in proc[p].todo, PutOutbound(p, a)
    PROVE  Ind'
<1>a. /\ a \in First(p) /\ a.kind = "outbound" /\ top < MaxAppends
      /\ outbox' = (IF Exists(a.id) THEN [outbox EXCEPT ![a.at] = "pending"] ELSE outbox)
      /\ Done(p, a, proc[p].seq, {}) /\ UNCHANGED <<projects, issue, dep, audit>>
  BY DEF PutOutbound, Due
<1>b. TypeInv /\ CountInv /\ OutboxHasAudit /\ EdgesResolve /\ Planned(p) /\ RowsTypeOK
      /\ proc[p].seq \in Nat /\ proc[p].open
  BY Types DEF Ind, CountInv
<1>d. /\ \A b \in proc[p].todo : ~(b.turn < a.turn)
      /\ shared' = shared
      /\ \A q \in Procs \ {p} : proc'[q].todo = proc[q].todo /\ proc'[q].seq = proc[q].seq
  BY <1>a, <1>b, DoneFacts
<1>e. a.at \in Seqs /\ audit[a.at] \in Issues /\ audit[a.at] # Unused
  BY <1>a, <1>b, <1>d, Types DEF Planned, Numbered
<1>f. /\ outbox' \in [Seqs -> {Unused, Gone, "pending", "failed", "delivered"}]
      /\ \A n \in Seqs : n # a.at => outbox'[n] = outbox[n]
  BY <1>a, <1>b, Types
<1>1. TypeInv'
  BY <1>a, <1>b, <1>f, TypeKept, Types DEF RowsTypeOK
<1>2. CountInv'
  <2>1. \A n \in Seqs : outbox'[n] # Unused => audit'[n] # Unused
    BY <1>a, <1>b, <1>e, <1>f DEF CountInv
  <2> QED BY <1>a, <1>b, <2>1, CountKept
<1>3. OutboxHasAudit'
  BY <1>a, <1>b, <1>e, <1>f DEF OutboxHasAudit
<1>4. EdgesResolve'
  BY <1>a, <1>b DEF EdgesResolve, Exists
<1>5. shared' => dep' = {}
  BY <1>a, <1>d DEF Ind
<1>6. \A q \in Procs \ {p} : Planned(q)'
  BY <1>a, <1>b, <1>d, OthersPlanned
<1>7. Planned(p)'
  <2>1. Numbered(p, proc[p].todo)'
    BY <1>a, <1>b, <1>f, NumberedKept
  <2>2. CutsOrdered(proc[p].todo)'
    BY <1>a, <1>b, CutsKept DEF Planned, Orderly
  <2>3. Orderly(proc[p].todo)'
    BY <1>a, <1>b, <2>2, OrderlyKept
  <2> QED BY <1>a, <1>b, <2>1, <2>3, RespectfulKept, DecidedKept DEF Planned
<1> QED BY <1>1, <1>2, <1>3, <1>4, <1>5, <1>6, <1>7 DEF Ind

LEMMA PutDeliveryInd ==
    ASSUME Ind, NEW p \in Procs, NEW a \in proc[p].todo, PutDelivery(p, a)
    PROVE  Ind'
<1>a. /\ a \in First(p) /\ a.kind = "delivery" /\ top < MaxAppends
      /\ outbox' = [outbox EXCEPT ![a.at] = a.state]
      /\ Done(p, a, proc[p].seq, {}) /\ UNCHANGED <<projects, issue, dep, audit>>
  BY DEF PutDelivery, Due
<1>b. TypeInv /\ CountInv /\ OutboxHasAudit /\ EdgesResolve /\ Planned(p) /\ RowsTypeOK
      /\ proc[p].seq \in Nat /\ proc[p].open
  BY Types DEF Ind, CountInv
<1>c. /\ a.at \in Seqs /\ a.state \in {"delivered", "failed"} /\ proc[p].todo = {a}
      /\ outbox[a.at] \notin {Unused, Gone}
  BY <1>a, <1>b, DoneFacts, RevisionFields DEF Planned, Orderly, Unused, Gone
<1>d. /\ proc'[p].todo = {} /\ shared' = shared
      /\ \A q \in Procs \ {p} : proc'[q].todo = proc[q].todo /\ proc'[q].seq = proc[q].seq
  BY <1>a, <1>b, <1>c, DoneFacts
<1>e. audit[a.at] \in Issues /\ audit[a.at] # Unused
  BY <1>b, <1>c, Types DEF OutboxHasAudit
<1>f. /\ outbox' \in [Seqs -> {Unused, Gone, "pending", "failed", "delivered"}]
      /\ \A n \in Seqs : n # a.at => outbox'[n] = outbox[n]
  BY <1>a, <1>b, <1>c, Types
<1>1. TypeInv'
  BY <1>a, <1>b, <1>f, TypeKept, Types DEF RowsTypeOK
<1>2. CountInv'
  <2>1. \A n \in Seqs : outbox'[n] # Unused => audit'[n] # Unused
    BY <1>a, <1>b, <1>e, <1>f DEF CountInv
  <2> QED BY <1>a, <1>b, <2>1, CountKept
<1>3. OutboxHasAudit'
  BY <1>a, <1>b, <1>e, <1>f DEF OutboxHasAudit
<1>4. EdgesResolve'
  BY <1>a, <1>b DEF EdgesResolve, Exists
<1>5. shared' => dep' = {}
  BY <1>a, <1>d DEF Ind
<1>6. \A q \in Procs \ {p} : Planned(q)'
  BY <1>a, <1>b, <1>d, OthersPlanned
<1>7. Planned(p)'
  BY <1>d DEF Planned, Numbered, Orderly, CutsOrdered, Respectful, Decided
<1> QED BY <1>1, <1>2, <1>3, <1>4, <1>5, <1>6, <1>7 DEF Ind

\* An audit event goes only when its outbox event is gone.
LEMMA CutInd ==
    ASSUME Ind, NEW p \in Procs, NEW a \in proc[p].todo, Cut(p, a)
    PROVE  Ind'
<1>a. /\ a \in First(p) /\ a.kind \in {"cut audit", "cut outbound"} /\ top < MaxAppends
      /\ audit' = (IF a.kind = "cut audit" THEN [audit EXCEPT ![a.at] = Gone] ELSE audit)
      /\ outbox' = (IF a.kind = "cut audit" THEN outbox ELSE [outbox EXCEPT ![a.at] = Gone])
      /\ Done(p, a, proc[p].seq, {}) /\ UNCHANGED <<projects, issue, dep>>
  BY DEF Cut, Due
<1>b. TypeInv /\ CountInv /\ OutboxHasAudit /\ EdgesResolve /\ Planned(p) /\ RowsTypeOK
      /\ proc[p].seq \in Nat /\ proc[p].open /\ Unused # Gone
  BY Types DEF Ind, CountInv
<1>d. /\ \A b \in proc[p].todo : ~(b.turn < a.turn)
      /\ proc'[p].todo = proc[p].todo \ {a} /\ proc'[p].seq = proc[p].seq /\ shared' = shared
      /\ \A q \in Procs \ {p} : proc'[q].todo = proc[q].todo /\ proc'[q].seq = proc[q].seq
  BY <1>a, <1>b, DoneFacts
<1>c. /\ a.at \in Seqs /\ audit[a.at] # Unused /\ ~shared
      /\ a.kind = "cut audit" => outbox[a.at] \in {Unused, Gone}
      /\ \A b \in proc[p].todo : b.kind \notin {"audit", "outbound", "delivery"}
  <2>1. a.at \in Seqs
    BY <1>a, <1>b, DoneFacts, RevisionFields
  <2>2. Orderly(proc[p].todo)
    BY <1>b DEF Planned
  <2>3. ~shared
    BY <1>a, <2>2 DEF Orderly
  <2> QED BY <1>a, <1>d, <2>1, <2>2, <2>3 DEF Orderly, CutsOrdered
<1>e. /\ audit' \in [Seqs -> Issues \cup {Unused, Gone}]
      /\ \A n \in Seqs : audit'[n] = IF n = a.at /\ a.kind = "cut audit" THEN Gone ELSE audit[n]
  BY <1>a, <1>b, <1>c, Types
<1>f. /\ outbox' \in [Seqs -> {Unused, Gone, "pending", "failed", "delivered"}]
      /\ \A n \in Seqs : outbox'[n] = IF n = a.at /\ a.kind # "cut audit" THEN Gone ELSE outbox[n]
  BY <1>a, <1>b, <1>c, Types
<1>1. TypeInv'
  BY <1>a, <1>b, <1>e, <1>f, TypeKept, Types DEF RowsTypeOK
<1>2. CountInv'
  <2>1. \A n \in Seqs : audit'[n] # Unused => audit[n] # Unused
    BY <1>c, <1>e
  <2>2. \A n \in Seqs : outbox'[n] # Unused => audit'[n] # Unused
    BY <1>b, <1>c, <1>e, <1>f DEF CountInv
  <2> QED BY <1>a, <1>b, <2>1, <2>2, CountKept
<1>3. OutboxHasAudit'
  BY <1>b, <1>c, <1>e, <1>f DEF OutboxHasAudit
<1>4. EdgesResolve'
  BY <1>a, <1>b DEF EdgesResolve, Exists
<1>5. shared' => dep' = {}
  BY <1>c, <1>d
<1>6. \A q \in Procs \ {p} : Planned(q)'
  BY <1>b, <1>c, <1>d, OthersPlanned
<1>7. Planned(p)'
  <2>1. Numbered(p, proc[p].todo)'
    BY <1>c, <1>d DEF Numbered
  <2>2. CutsOrdered(proc[p].todo)'
    <3>1. \A b \in proc'[p].todo : b.kind \in {"cut audit", "cut outbound"} =>
              /\ audit'[b.at] # Unused
              /\ \A c \in proc'[p].todo : c.kind \notin {"audit", "outbound", "delivery"}
      <4> TAKE b \in proc'[p].todo
      <4> HAVE b.kind \in {"cut audit", "cut outbound"}
      <4>1. b \in Revisions /\ b \in proc[p].todo
        BY <1>b, <1>d, Types
      <4>2. b.at \in Seqs
        BY <4>1, RevisionFields
      <4>3. audit[b.at] # Unused
        BY <1>b, <4>1 DEF Planned, Orderly, CutsOrdered
      <4> QED BY <1>b, <1>c, <1>d, <1>e, <4>2, <4>3
    <3>2. ASSUME NEW b \in proc'[p].todo, b.kind = "cut audit",
                 outbox'[b.at] \notin {Unused, Gone}
          PROVE  \E c \in proc'[p].todo :
                     c.kind = "cut outbound" /\ c.at = b.at /\ c.turn < b.turn
      <4>1. b \in Revisions /\ b \in proc[p].todo
        BY <1>b, <1>d, <3>2, Types
      <4>2. b.at \in Seqs
        BY <3>2, <4>1, RevisionFields
      <4>3. outbox[b.at] \notin {Unused, Gone} /\ (a.kind = "cut outbound" => a.at # b.at)
        BY <1>a, <1>f, <3>2, <4>2
      <4>4. PICK c \in proc[p].todo : c.kind = "cut outbound" /\ c.at = b.at /\ c.turn < b.turn
        BY <1>b, <3>2, <4>1, <4>3 DEF Planned, Orderly, CutsOrdered
      <4>5. c # a
        BY <1>a, <4>3, <4>4
      <4> QED BY <1>d, <4>4, <4>5
    <3> QED BY <3>1, <3>2 DEF CutsOrdered
  <2>3. Orderly(proc[p].todo)'
    BY <1>a, <1>b, <2>2, OrderlyKept
  <2> QED BY <1>a, <1>b, <2>1, <2>3, RespectfulKept, DecidedKept DEF Planned
<1> QED BY <1>1, <1>2, <1>3, <1>4, <1>5, <1>6, <1>7 DEF Ind

----------------------------------------------------------------------------
(* Steps that append nothing *)

\* Where the tables and the trail stay as they were, it is the appends still to make that
\* have to be as planned.
LEMMA QuietInd ==
    ASSUME Ind, UNCHANGED <<projects, issue, dep, shared, audit, outbox>>,
           now' \in Nat, events' \subseteq Event, proc' \in [Procs -> Invocation],
           top' \in top .. MaxAppends,
           \A q \in Procs : proc'[q].seq <= top' /\ (~proc'[q].open => proc'[q].todo = {}),
           ~shared => /\ \A q, r \in Procs : proc'[q].open /\ proc'[r].open => q = r
                      /\ \A n \in Seqs : audit[n] # Unused =>
                            \A q \in Procs : proc'[q].open => n <= proc'[q].seq,
           \A q \in Procs : \A a \in proc'[q].todo : a.kind = "issue" => RowConsistent(a.row),
           \A q \in Procs : Planned(q)'
    PROVE  Ind'
<1>1. TypeInv /\ CountInv /\ RowsTypeOK /\ top \in Nat /\ MaxAppends \in Nat
  BY Types DEF Ind
<1>2. \A q \in Procs : proc'[q].version \in {"none", "fresh", "stale"}
  BY DEF Invocation
<1>3. TypeInv'
  BY <1>1, <1>2, Types DEF TypeInv, TypeOK, RowsTypeOK
<1>4. CountInv'
  BY <1>1 DEF CountInv, Seqs
<1>5. OutboxHasAudit' /\ EdgesResolve' /\ (shared' => dep' = {})
  BY DEF Ind, OutboxHasAudit, EdgesResolve, Exists
<1> QED BY <1>3, <1>4, <1>5 DEF Ind

\* A script that is not changed, or dropped, is as well planned as it was.
LEMMA PlannedStays ==
    ASSUME Ind, UNCHANGED <<now, projects, issue, dep, shared, audit, outbox>>,
           NEW q \in Procs,
           \/ proc'[q].todo = proc[q].todo /\ proc'[q].seq = proc[q].seq
           \/ proc'[q].todo = {}
    PROVE  Planned(q)'
<1>1. Planned(q)
  BY DEF Ind
<1>2. CASE proc'[q].todo = {}
  BY <1>2 DEF Planned, Numbered, Orderly, CutsOrdered, Respectful, Decided
<1>3. CASE proc'[q].todo = proc[q].todo /\ proc'[q].seq = proc[q].seq
  <2>1. Numbered(q, proc[q].todo)'
    BY <1>1, <1>3 DEF Planned, Numbered
  <2>2. Orderly(proc[q].todo)'
    <3>1. CutsOrdered(proc[q].todo)'
      BY <1>1, <1>3 DEF Planned, Orderly, CutsOrdered
    <3>2. Orderly(proc[q].todo)
      BY <1>1 DEF Planned
    <3>3. \A a \in proc[q].todo : a.kind = "dep" /\ a.live => Exists(a.edge[1])' /\ Exists(a.edge[2])'
      BY <3>2 DEF Orderly, Exists
    <3> QED BY <1>3, <3>1, <3>2, <3>3 DEF Orderly
  <2>3. Respectful(proc[q].todo)' /\ Decided(proc[q].todo)'
    BY <1>1, <1>3 DEF Planned, Respectful, Decided, Held
  <2> QED BY <2>1, <2>2, <2>3 DEF Planned
<1> QED BY <1>2, <1>3

LEMMA ReadOrRefusedInd ==
    ASSUME Ind, NEW p \in Procs, NEW a \in proc[p].todo,
           ReadVersion(p, a) \/ SwapRefused(p, a)
    PROVE  Ind'
<1>1. TypeInv /\ CountInv /\ proc \in [Procs -> Invocation] /\ top \in Nat /\ MaxAppends \in Nat
      /\ top <= MaxAppends /\ events \subseteq Event /\ now \in Nat
  BY Types DEF Ind, TypeInv, RowsTypeOK
<1>2. /\ UNCHANGED <<now, projects, issue, dep, shared, top, audit, outbox, events>>
      /\ proc' \in [Procs -> Invocation]
      /\ \A q \in Procs : /\ proc'[q].open = proc[q].open /\ proc'[q].seq = proc[q].seq
                          /\ proc'[q].todo = proc[q].todo \/ proc'[q].todo = {}
  <2>1. CASE ReadVersion(p, a)
    BY <1>1, <2>1 DEF ReadVersion, Invocation
  <2>2. CASE SwapRefused(p, a)
    BY <1>1, <2>2 DEF SwapRefused, Invocation
  <2> QED BY <2>1, <2>2
<1>3. top' \in top .. MaxAppends
  BY <1>1, <1>2
<1>4. \A q \in Procs : Planned(q)'
  BY <1>2, PlannedStays
<1>5. \A q \in Procs : proc'[q].seq <= top' /\ (~proc'[q].open => proc'[q].todo = {})
  BY <1>1, <1>2 DEF CountInv
<1>6. ~shared => /\ \A q, r \in Procs : proc'[q].open /\ proc'[r].open => q = r
                 /\ \A n \in Seqs : audit[n] # Unused =>
                       \A q \in Procs : proc'[q].open => n <= proc'[q].seq
  BY <1>1, <1>2 DEF CountInv
<1>7. \A q \in Procs : \A b \in proc'[q].todo : b.kind = "issue" => RowConsistent(b.row)
  BY <1>1, <1>2 DEF TypeInv
<1> QED BY <1>1, <1>2, <1>3, <1>4, <1>5, <1>6, <1>7, QuietInd

\* The process dies: what it had still to append is never appended.
LEMMA StopInd ==
    ASSUME Ind, NEW p \in Procs, Stop(p)
    PROVE  Ind'
<1>1. TypeInv /\ CountInv /\ proc \in [Procs -> Invocation] /\ top \in Nat /\ MaxAppends \in Nat
      /\ top <= MaxAppends /\ events \subseteq Event /\ now \in Nat
  BY Types DEF Ind, TypeInv, RowsTypeOK
<1>2. Closed0 \in Invocation /\ ~Closed0.open /\ Closed0.todo = {} /\ Closed0.seq = 0
  BY DEF Closed0, Invocation
<1>3. /\ UNCHANGED <<now, projects, issue, dep, shared, top, audit, outbox, events>>
      /\ proc' \in [Procs -> Invocation] /\ proc'[p] = Closed0
      /\ \A q \in Procs \ {p} : proc'[q] = proc[q]
  BY <1>1, <1>2 DEF Stop
<1>4. \A q \in Procs : Planned(q)'
  BY <1>2, <1>3, PlannedStays
<1>5. \A q \in Procs : proc'[q].seq <= top' /\ (~proc'[q].open => proc'[q].todo = {})
  BY <1>1, <1>2, <1>3 DEF CountInv
<1>6. ~shared => /\ \A q, r \in Procs : proc'[q].open /\ proc'[r].open => q = r
                 /\ \A n \in Seqs : audit[n] # Unused =>
                       \A q \in Procs : proc'[q].open => n <= proc'[q].seq
  BY <1>1, <1>2, <1>3 DEF CountInv
<1>7. \A q \in Procs : \A b \in proc'[q].todo : b.kind = "issue" => RowConsistent(b.row)
  BY <1>1, <1>2, <1>3 DEF TypeInv
<1>8. top' \in top .. MaxAppends
  BY <1>1, <1>3
<1> QED BY <1>1, <1>3, <1>4, <1>5, <1>6, <1>7, <1>8, QuietInd

\* A set of numbers with a bound has a greatest one.
LEMMA GreatestOf ==
    ASSUME NEW m \in Nat, NEW S \in SUBSET (1 .. m), S # {}
    PROVE  \E x \in S : \A y \in S : y <= x
<1> DEFINE R == OpToRel(<, Nat)
           T == {m - x : x \in S}
<1>1. T \subseteq Nat /\ T # {} /\ IsWellFoundedOn(R, Nat)
  <2>1. IsWellFoundedOn(R, Nat)
    BY NatLessThanWellFounded
  <2>2. T \subseteq Nat /\ T # {}
    <3> HIDE DEF R
    <3>1. \A x \in S : m - x \in Nat
      OBVIOUS
    <3>2. PICK x \in S : TRUE
      OBVIOUS
    <3>3. m - x \in T
      OBVIOUS
    <3> QED BY <3>1, <3>3
  <2> QED BY <2>1, <2>2
<1>2. PICK n \in T : \A k \in T : <<k, n>> \notin R
  <2> HIDE DEF R, T
  <2> QED BY <1>1, WFMin
<1>3. \A k \in T : ~(k < n)
  BY <1>1, <1>2 DEF OpToRel
<1>4. PICK x \in S : n = m - x
  BY <1>2
<1>5. \A y \in S : ~(m - y < m - x)
  BY <1>3, <1>4
<1> QED BY <1>5

\* A number found used by a new invocation is at most the last one of the trail.
LEMMA ResumeIs ==
    ASSUME TypeInv, CountInv
    PROVE  Resume \in Nat /\ Resume <= top /\ (~shared => Resume = top)
<1> DEFINE used == {n \in Seqs : audit[n] # Unused}
<1>1. top \in Nat /\ MaxAppends \in Nat
  BY Types
<1>2. CASE shared
  <2>1. CASE used = {}
    BY <1>1, <1>2, <2>1 DEF Resume, MaxAudit
  <2>2. CASE used # {}
    <3>1. used \subseteq 1 .. MaxAppends
      BY DEF Seqs
    <3>2. \E m \in used : \A n \in used : n <= m
      BY <1>1, <2>2, <3>1, GreatestOf
    <3>3. MaxAudit \in used
      BY <2>2, <3>2 DEF MaxAudit
    <3> QED BY <1>1, <1>2, <3>3 DEF Resume, CountInv, Seqs
  <2> QED BY <2>1, <2>2
<1>3. CASE ~shared
  BY <1>1, <1>3 DEF Resume
<1> QED BY <1>2, <1>3

\* A new invocation starts past every number of the trail.
LEMMA OpenInd ==
    ASSUME Ind, NEW p \in Procs, Open(p)
    PROVE  Ind'
<1>1. TypeInv /\ CountInv /\ proc \in [Procs -> Invocation] /\ top \in Nat /\ MaxAppends \in Nat
      /\ top <= MaxAppends /\ events \subseteq Event /\ now \in Nat
  BY Types DEF Ind, TypeInv, RowsTypeOK
<1> DEFINE new == [Closed0 EXCEPT !.open = TRUE, !.seq = Resume]
<1>2. /\ Resume \in Nat /\ Resume <= top /\ (~shared => Resume = top)
      /\ new \in Invocation /\ new.open /\ new.todo = {} /\ new.seq = Resume
  BY <1>1, ResumeIs DEF Closed0, Invocation
<1>3. /\ UNCHANGED <<now, projects, issue, dep, shared, audit, outbox, events>>
      /\ proc' = [proc EXCEPT ![p] = new] /\ top' = top + 1 /\ top < MaxAppends
      /\ shared \/ \A q \in Procs : ~proc[q].open
  BY DEF Open
<1> HIDE DEF new
<1>4. /\ proc' \in [Procs -> Invocation] /\ proc'[p] = new
      /\ \A q \in Procs \ {p} : proc'[q] = proc[q]
  BY <1>1, <1>2, <1>3
<1>5. \A q \in Procs : Planned(q)'
  BY <1>2, <1>3, <1>4, PlannedStays
<1>6. \A q \in Procs : proc'[q].seq <= top' /\ (~proc'[q].open => proc'[q].todo = {})
  <2>1. \A q \in Procs : proc[q].seq \in Nat
    BY <1>1, Types
  <2> QED BY <1>1, <1>2, <1>3, <1>4, <2>1 DEF CountInv
<1>7. ~shared => /\ \A q, r \in Procs : proc'[q].open /\ proc'[r].open => q = r
                 /\ \A n \in Seqs : audit[n] # Unused =>
                       \A q \in Procs : proc'[q].open => n <= proc'[q].seq
  BY <1>1, <1>2, <1>3, <1>4 DEF CountInv
<1>8. \A q \in Procs : \A b \in proc'[q].todo : b.kind = "issue" => RowConsistent(b.row)
  BY <1>1, <1>2, <1>4 DEF TypeInv
<1>9. top' \in top .. MaxAppends
  BY <1>1, <1>3
<1> QED BY <1>1, <1>3, <1>4, <1>5, <1>6, <1>7, <1>8, <1>9, QuietInd

\* Time passes: a claim still held was held.
LEMMA TickInd ==
    ASSUME Ind, Tick \/ UNCHANGED vars
    PROVE  Ind'
<1>1. TypeInv /\ CountInv /\ proc \in [Procs -> Invocation] /\ top \in Nat /\ MaxAppends \in Nat
      /\ top <= MaxAppends /\ events \subseteq Event /\ now \in Nat
      /\ issue \in [Issues -> Row]
  BY Types DEF Ind, TypeInv, RowsTypeOK
<1>2. /\ UNCHANGED <<projects, issue, dep, events, shared, top, audit, outbox, proc>>
      /\ now' \in Nat /\ now' >= now
  BY <1>1 DEF Tick, vars
<1>3. \A i \in Issues : Held(i, now)' => Held(i, now)
  BY <1>1, <1>2 DEF Held, Row
<1>4. ASSUME NEW q \in Procs
      PROVE  Planned(q)'
  <2>1. Planned(q)
    BY DEF Ind
  <2>2. Numbered(q, proc[q].todo)' /\ Decided(proc[q].todo)'
    BY <1>2, <2>1 DEF Planned, Numbered, Decided
  <2>3. Orderly(proc[q].todo)'
    <3>1. Orderly(proc[q].todo)
      BY <2>1 DEF Planned
    <3>2. CutsOrdered(proc[q].todo)'
      BY <1>2, <3>1 DEF Orderly, CutsOrdered
    <3>3. \A a \in proc[q].todo :
              a.kind = "dep" /\ a.live => Exists(a.edge[1])' /\ Exists(a.edge[2])'
      BY <1>2, <3>1 DEF Orderly, Exists
    <3> QED BY <1>2, <3>1, <3>2, <3>3 DEF Orderly
  <2>4. Respectful(proc[q].todo)'
    <3>1. \A a \in proc[q].todo : a.kind = "issue" => a.id \in Issues
      BY <1>1, Types, RevisionFields
    <3> QED BY <1>2, <1>3, <2>1, <3>1 DEF Planned, Respectful
  <2> QED BY <2>2, <2>3, <2>4 DEF Planned
<1>5. \A q \in Procs : proc'[q].seq <= top' /\ (~proc'[q].open => proc'[q].todo = {})
  BY <1>1, <1>2 DEF CountInv
<1>6. ~shared => /\ \A q, r \in Procs : proc'[q].open /\ proc'[r].open => q = r
                 /\ \A n \in Seqs : audit[n] # Unused =>
                       \A q \in Procs : proc'[q].open => n <= proc'[q].seq
  BY <1>1, <1>2 DEF CountInv
<1>7. \A q \in Procs : \A b \in proc'[q].todo : b.kind = "issue" => RowConsistent(b.row)
  BY <1>1, <1>2 DEF TypeInv
<1>8. top' \in top .. MaxAppends
  BY <1>1, <1>2
<1> QED BY <1>1, <1>2, <1>4, <1>5, <1>6, <1>7, <1>8, QuietInd

----------------------------------------------------------------------------
(* The operations *)

\* An operation begins with a script that is as planned.
LEMMA BeginInd ==
    ASSUME Ind, NEW p \in Procs, NEW T \in SUBSET Revisions, NEW evs \in SUBSET Event,
           Begin(p, T, evs),
           \A a \in T : a.kind = "issue" => RowConsistent(a.row),
           Numbered(p, T), Orderly(T), Respectful(T), Decided(T)
    PROVE  Ind'
<1>1. TypeInv /\ CountInv /\ proc \in [Procs -> Invocation] /\ top \in Nat /\ MaxAppends \in Nat
      /\ top <= MaxAppends /\ now \in Nat
  BY Types DEF Ind, TypeInv, RowsTypeOK
<1>2. /\ UNCHANGED <<now, projects, issue, dep, shared, top, audit, outbox>>
      /\ events' \subseteq Event /\ proc[p].open
      /\ proc' = [proc EXCEPT ![p].todo = T, ![p].version = "none"]
  BY DEF Begin, Idle
<1>3. /\ proc' \in [Procs -> Invocation] /\ proc'[p].todo = T /\ proc'[p].seq = proc[p].seq
      /\ proc'[p].open
      /\ \A q \in Procs \ {p} : proc'[q] = proc[q]
  BY <1>1, <1>2 DEF Invocation
<1>4. Planned(p)'
  <2>1. Numbered(p, proc[p].todo)'
    BY <1>2, <1>3 DEF Numbered
  <2>2. CutsOrdered(proc[p].todo)'
    BY <1>2, <1>3 DEF Orderly, CutsOrdered
  <2>3. \A a \in T : a.kind = "dep" /\ a.live => Exists(a.edge[1])' /\ Exists(a.edge[2])'
    BY <1>2 DEF Orderly, Exists
  <2>4. Orderly(proc[p].todo)'
    BY <1>2, <1>3, <2>2, <2>3 DEF Orderly
  <2>5. Respectful(proc[p].todo)' /\ Decided(proc[p].todo)'
    BY <1>2, <1>3 DEF Respectful, Decided, Held
  <2> QED BY <2>1, <2>4, <2>5 DEF Planned
<1>5. \A q \in Procs : Planned(q)'
  BY <1>2, <1>3, <1>4, PlannedStays
<1>6. \A q \in Procs : proc'[q].seq <= top' /\ (~proc'[q].open => proc'[q].todo = {})
  BY <1>1, <1>2, <1>3 DEF CountInv
<1>7. ~shared => /\ \A q, r \in Procs : proc'[q].open /\ proc'[r].open => q = r
                 /\ \A n \in Seqs : audit[n] # Unused =>
                       \A q \in Procs : proc'[q].open => n <= proc'[q].seq
  BY <1>1, <1>2, <1>3 DEF CountInv
<1>8. \A q \in Procs : \A b \in proc'[q].todo : b.kind = "issue" => RowConsistent(b.row)
  BY <1>1, <1>3 DEF TypeInv
<1>9. top' \in top .. MaxAppends
  BY <1>1, <1>2
<1> QED BY <1>1, <1>2, <1>3, <1>5, <1>6, <1>7, <1>8, <1>9, QuietInd

LEMMA LogRevisions ==
    ASSUME NEW t \in Nat, NEW n \in Nat \ {0}, NEW i \in Issues
    PROVE  /\ Log(t, n, i) \subseteq Revisions
           /\ \A a \in Log(t, n, i) : a.kind \in {"audit", "outbound"} /\ a.at = n
           /\ \A a \in Log(t, n, i) : a.kind = "audit" => a = Audit(t, n, i)
           /\ \A a \in Log(t, n, i) : a.kind = "outbound" => a = Outbound(t + 1, n, i)
           /\ Audit(t, n, i) \in Log(t, n, i) /\ Outbound(t + 1, n, i) \in Log(t, n, i)
<1>1. t + 1 \in Nat
  OBVIOUS
<1> QED BY <1>1, LogIs DEF Log

LEMMA LogKinds ==
    ASSUME NEW t, NEW n, NEW i
    PROVE  \A a \in Log(t, n, i) : a.kind \in {"audit", "outbound"}
BY DEF Log, Audit, Outbound

LEMMA Counting ==
    \A s \in Nat, k \in Nat : \A l, m \in 1 .. k :
        /\ s + m > s
        /\ l + 1 = m => s + l = (s + m) - 1
        /\ s + l = s + m => l = m
OBVIOUS

\* k events, logged one after another under the next k numbers.
LEMMA LogsNumbered ==
    ASSUME NEW p \in Procs, proc[p].seq \in Nat, NEW T \in SUBSET Revisions, NEW k \in Nat,
           NEW turn \in [1 .. k -> Nat], NEW who \in [1 .. k -> Issues],
           \A m \in 1 .. k : m + 1 \in 1 .. k => turn[m] < turn[m + 1],
           \A m \in 1 .. k : Log(turn[m], proc[p].seq + m, who[m]) \subseteq T,
           \A a \in T : a.kind \in {"audit", "outbound"} =>
               \E m \in 1 .. k : a \in Log(turn[m], proc[p].seq + m, who[m])
    PROVE  Numbered(p, T)
<1> DEFINE A(m) == Audit(turn[m], proc[p].seq + m, who[m])
           O(m) == Outbound(turn[m] + 1, proc[p].seq + m, who[m])
<1>1. ASSUME NEW m \in 1 .. k
      PROVE  /\ A(m) \in T /\ A(m).kind = "audit" /\ A(m).at = proc[p].seq + m
             /\ A(m).turn = turn[m]
             /\ O(m).kind = "outbound" /\ O(m).at = proc[p].seq + m /\ O(m).turn = turn[m] + 1
  <2> DEFINE t == turn[m]
             n == proc[p].seq + m
             i == who[m]
  <2>1. t \in Nat /\ t + 1 \in Nat /\ n \in Nat \ {0} /\ i \in Issues /\ Log(t, n, i) \subseteq T
    OBVIOUS
  <2> HIDE DEF t, n, i
  <2>2. Audit(t, n, i) \in Log(t, n, i)
    BY <2>1, LogRevisions
  <2>3. /\ Audit(t, n, i).kind = "audit" /\ Audit(t, n, i).at = n /\ Audit(t, n, i).turn = t
        /\ Outbound(t + 1, n, i).kind = "outbound" /\ Outbound(t + 1, n, i).at = n
        /\ Outbound(t + 1, n, i).turn = t + 1
    BY <2>1, LogIs
  <2> QED BY <2>1, <2>2, <2>3 DEF t, n, i
<1>2. ASSUME NEW a \in T, a.kind \in {"audit", "outbound"}
      PROVE  \E m \in 1 .. k : a = IF a.kind = "audit" THEN A(m) ELSE O(m)
  <2>1. PICK m \in 1 .. k : a \in Log(turn[m], proc[p].seq + m, who[m])
    BY <1>2
  <2> DEFINE t == turn[m]
             n == proc[p].seq + m
             i == who[m]
  <2>2. t \in Nat /\ n \in Nat \ {0} /\ i \in Issues /\ a \in Log(t, n, i)
    BY <2>1
  <2> HIDE DEF t, n, i
  <2>3. a = IF a.kind = "audit" THEN Audit(t, n, i) ELSE Outbound(t + 1, n, i)
    BY <1>2, <2>2, LogRevisions
  <2> QED BY <2>3 DEF t, n, i
<1> HIDE DEF A, O
<1>3. ASSUME NEW a \in T, a.kind = "audit"
      PROVE  /\ a.at > proc[p].seq
             /\ \/ a.at = proc[p].seq + 1
                \/ \E b \in T : b.kind = "audit" /\ b.at = a.at - 1 /\ b.turn < a.turn
  <2>1. PICK m \in 1 .. k : a = A(m)
    BY <1>2, <1>3
  <2>2. a.at = proc[p].seq + m /\ a.turn = turn[m]
    BY <1>1, <2>1
  <2>3. CASE m = 1
    BY <2>2, <2>3
  <2>4. CASE m # 1
    <3>1. PICK l \in 1 .. k : l + 1 = m
      BY <2>4
    <3>2. A(l) \in T /\ A(l).kind = "audit" /\ A(l).at = proc[p].seq + l /\ A(l).turn = turn[l]
      BY <1>1
    <3>3. turn[l] < turn[m]
      BY <3>1
    <3>4. A(l).turn < a.turn
      BY <2>2, <3>2, <3>3
    <3>5. A(l).at = a.at - 1 /\ a.at > proc[p].seq
      BY <2>2, <3>1, <3>2, Counting
    <3> QED BY <3>2, <3>4, <3>5
  <2> QED BY <2>3, <2>4
<1>4. ASSUME NEW a \in T, a.kind = "outbound"
      PROVE  \E b \in T : b.kind = "audit" /\ b.at = a.at /\ b.turn < a.turn
  <2>1. PICK m \in 1 .. k : a = O(m)
    BY <1>2, <1>4
  <2>2. A(m).turn < a.turn
    <3>1. A(m).turn = turn[m] /\ a.turn = turn[m] + 1 /\ turn[m] \in Nat
      BY <1>1, <2>1
    <3> QED BY <3>1
  <2>3. A(m) \in T /\ A(m).kind = "audit"
    BY <1>1
  <2>4. A(m).at = a.at
    BY <1>1, <2>1
  <2> QED BY <2>2, <2>3, <2>4
<1>5. ASSUME NEW a \in T, NEW b \in T, a.kind \in {"audit", "outbound"}, a.kind = b.kind,
             a.at = b.at
      PROVE  a = b
  <2>1. PICK m \in 1 .. k : a = IF a.kind = "audit" THEN A(m) ELSE O(m)
    BY <1>2, <1>5
  <2>2. PICK n \in 1 .. k : b = IF b.kind = "audit" THEN A(n) ELSE O(n)
    BY <1>2, <1>5
  <2>3. a.at = proc[p].seq + m
    BY <1>1, <2>1
  <2>4. b.at = proc[p].seq + n
    BY <1>1, <2>2
  <2>5. m = n
    <3>1. proc[p].seq + m = proc[p].seq + n
      BY <1>5, <2>3, <2>4
    <3> QED BY <3>1, Counting
  <2> QED BY <1>5, <2>1, <2>2, <2>5
<1> QED BY <1>3, <1>4, <1>5 DEF Numbered

\* One event, or two of the same issue.
LEMMA OneLogNumbered ==
    ASSUME NEW p \in Procs, proc[p].seq \in Nat, NEW T \in SUBSET Revisions, NEW t \in Nat,
           NEW i \in Issues, Log(t, NextSeq(p), i) \subseteq T,
           \A a \in T : a.kind \in {"audit", "outbound"} => a \in Log(t, NextSeq(p), i)
    PROVE  Numbered(p, T)
<1> DEFINE turn == [m \in 1 .. 1 |-> t]
           who == [m \in 1 .. 1 |-> i]
<1>1. turn \in [1 .. 1 -> Nat] /\ who \in [1 .. 1 -> Issues] /\ 1 \in 1 .. 1
  OBVIOUS
<1>2. \A m \in 1 .. 1 : /\ proc[p].seq + m = NextSeq(p) /\ turn[m] = t /\ who[m] = i
                        /\ m + 1 \notin 1 .. 1
  BY DEF NextSeq
<1> HIDE DEF turn, who
<1>3. \A m \in 1 .. 1 : m + 1 \in 1 .. 1 => turn[m] < turn[m + 1]
  BY <1>2
<1>4. \A m \in 1 .. 1 : Log(turn[m], proc[p].seq + m, who[m]) \subseteq T
  BY <1>2
<1>5. \A a \in T : a.kind \in {"audit", "outbound"} =>
          \E m \in 1 .. 1 : a \in Log(turn[m], proc[p].seq + m, who[m])
  BY <1>1, <1>2
<1> QED BY <1>1, <1>3, <1>4, <1>5, LogsNumbered

LEMMA TwoLogsNumbered ==
    ASSUME NEW p \in Procs, proc[p].seq \in Nat, NEW T \in SUBSET Revisions,
           NEW t \in Nat, NEW u \in Nat, t < u, NEW i \in Issues,
           Log(t, NextSeq(p), i) \subseteq T, Log(u, NextSeq(p) + 1, i) \subseteq T,
           \A a \in T : a.kind \in {"audit", "outbound"} =>
               a \in Log(t, NextSeq(p), i) \cup Log(u, NextSeq(p) + 1, i)
    PROVE  Numbered(p, T)
<1> DEFINE turn == [m \in 1 .. 2 |-> IF m = 1 THEN t ELSE u]
           who == [m \in 1 .. 2 |-> i]
<1>1. turn \in [1 .. 2 -> Nat] /\ who \in [1 .. 2 -> Issues] /\ 1 \in 1 .. 2 /\ 2 \in 1 .. 2
  OBVIOUS
<1>2. /\ turn[1] = t /\ turn[2] = u
      /\ \A m \in 1 .. 2 : who[m] = i /\ (m = 1 \/ m = 2)
      /\ proc[p].seq + 1 = NextSeq(p) /\ proc[p].seq + 2 = NextSeq(p) + 1
  BY DEF NextSeq
<1> HIDE DEF turn, who
<1>3. \A m \in 1 .. 2 : m + 1 \in 1 .. 2 => turn[m] < turn[m + 1]
  <2> TAKE m \in 1 .. 2
  <2> HAVE m + 1 \in 1 .. 2
  <2>1. m = 1 /\ m + 1 = 2
    OBVIOUS
  <2> QED BY <1>2, <2>1
<1>4. \A m \in 1 .. 2 : Log(turn[m], proc[p].seq + m, who[m]) \subseteq T
  BY <1>2
<1>5. \A a \in T : a.kind \in {"audit", "outbound"} =>
          \E m \in 1 .. 2 : a \in Log(turn[m], proc[p].seq + m, who[m])
  BY <1>1, <1>2
<1> QED BY <1>1, <1>3, <1>4, <1>5, LogsNumbered

\* An operation that writes rows of issues that exist, each at most once, and logs them.
LEMMA RowsAndLogsInd ==
    ASSUME Ind, NEW p \in Procs, NEW T \in SUBSET Revisions, NEW evs \in SUBSET Event,
           Begin(p, T, evs), Numbered(p, T),
           \A a \in T : a.kind \in {"issue", "audit", "outbound"},
           \A a \in T : a.kind = "issue" =>
               /\ RowConsistent(a.row) /\ a.row.status # "none"
               /\ ~shared /\ Held(a.id, now) => a.row.assignee \in {issue[a.id].assignee, NoOne},
           \A a, b \in T : a.kind = "issue" /\ b.kind = "issue" /\ a.id = b.id => a = b
    PROVE  Ind'
<1>1. Orderly(T)
  <2>1. CutsOrdered(T)
    BY DEF CutsOrdered
  <2> QED BY <2>1 DEF Orderly
<1>2. Respectful(T)
  BY DEF Respectful
<1>3. Decided(T)
  <2>1. ASSUME NEW a \in T, a.kind = "issue"
        PROVE  \A c \in T : c.kind = "issue" /\ c.id = a.id => c.turn <= a.turn
    <3>1. a.turn \in Nat
      BY RevisionFields
    <3>2. a.turn <= a.turn
      BY <3>1
    <3> QED BY <2>1, <3>2
  <2>2. \A a \in T : a.kind = "issue" => \E b \in T :
            /\ b.kind = "issue" /\ b.id = a.id
            /\ \A c \in T : c.kind = "issue" /\ c.id = a.id => c.turn <= b.turn
    BY <2>1
  <2> QED BY <2>2 DEF Decided
<1> QED BY <1>1, <1>2, <1>3, BeginInd

\* An operation that writes one row and logs one event of it.
LEMMA SaveAndLogInd ==
    ASSUME Ind, NEW p \in Procs, NEW i \in Issues, NEW row \in Row, NEW e \in EventNames,
           RowConsistent(row), row.status # "none",
           ~shared /\ Held(i, now) => row.assignee \in {issue[i].assignee, NoOne},
           NEW save \in {Save(1, i, row), Swap(1, i, row)},
           Begin(p, {save} \cup Log(2, NextSeq(p), i), {Named(i, e)})
    PROVE  Ind'
<1> DEFINE n == proc[p].seq + 1
           T == {save} \cup Log(2, n, i)
<1>1. proc[p].seq \in Nat /\ n \in Nat \ {0}
  BY Types DEF Ind
<1>2. save \in Revisions /\ save.kind = "issue" /\ save.id = i /\ save.row = row
  <2>1. /\ Save(1, i, row).kind = "issue" /\ Save(1, i, row).id = i
        /\ Save(1, i, row).row = row
        /\ Swap(1, i, row).kind = "issue" /\ Swap(1, i, row).id = i
        /\ Swap(1, i, row).row = row
    BY DEF Save, Swap
  <2>2. Save(1, i, row) \in Revisions /\ Swap(1, i, row) \in Revisions
    BY DEF Save, Swap, Revisions
  <2> QED BY <2>1, <2>2
<1>3. /\ T \subseteq Revisions
      /\ \A a \in T : a.kind \in {"issue", "audit", "outbound"}
      /\ \A a \in T : a.kind = "issue" => a = save
      /\ \A a \in T : a.kind \in {"audit", "outbound"} => a \in Log(2, n, i)
  <2>1. Log(2, n, i) \subseteq Revisions
    BY <1>1, LogRevisions
  <2>2. \A a \in Log(2, n, i) : a.kind \in {"audit", "outbound"}
    BY LogKinds
  <2> HIDE DEF n
  <2> QED BY <1>2, <2>1, <2>2
<1>4. Numbered(p, T)
  <2>1. n = NextSeq(p) /\ Log(2, n, i) \subseteq T
    BY DEF NextSeq
  <2> HIDE DEF T, n
  <2> QED BY <1>1, <1>3, <2>1, OneLogNumbered
<1>5. {Named(i, e)} \subseteq Event
  BY DEF Named, Event
<1> QED BY <1>2, <1>3, <1>4, <1>5, RowsAndLogsInd DEF NextSeq

LEMMA RowOf ==
    ASSUME Ind, NEW i \in Issues
    PROVE  issue[i] \in Row /\ RowConsistent(issue[i]) /\ now \in Nat
BY Types DEF Ind, RowsTypeOK

LEMMA CreateInd ==
    ASSUME Ind, NEW p \in Procs, NEW i \in Issues, Create(p, i)
    PROVE  Ind'
<1> DEFINE row == [Absent EXCEPT !.status = "open", !.available = now + Grace]
<1>1. Absent \in Row /\ now + Grace \in Int
  BY AbsentIsRow, RowOf, PolicyAssumption
<1>2. row \in Row /\ row.status = "open" /\ row.assignee = NoOne /\ row.kind = "none"
  <2> DEFINE opened == [Absent EXCEPT !.status = "open"]
  <2>1. opened \in Row /\ opened.status = "open" /\ opened.assignee = NoOne
        /\ opened.kind = "none"
    BY <1>1 DEF Row, Absent, Statuses
  <2>2. row = [opened EXCEPT !.available = now + Grace]
    OBVIOUS
  <2> HIDE DEF opened, row
  <2> QED BY <1>1, <2>1, <2>2 DEF Row
<1>3. RowConsistent(row)
  BY <1>2 DEF RowConsistent
<1>4. SaveAndLog(p, i, row, "created") /\ "created" \in EventNames
  BY DEF Create, EventNames
<1> HIDE DEF row
<1> QED BY <1>2, <1>3, <1>4, SaveAndLogInd DEF SaveAndLog

LEMMA LabelInd ==
    ASSUME Ind, NEW p \in Procs, NEW i \in Issues, NEW l \in Labels,
           AddLabel(p, i, l) \/ RemoveLabel(p, i, l)
    PROVE  Ind'
<1>1. issue[i] \in Row /\ RowConsistent(issue[i]) /\ issue[i].status # "none"
  BY RowOf DEF AddLabel, RemoveLabel, Exists
<1>2. PICK ls \in SUBSET LabelSet :
          SaveAndLog(p, i, [issue[i] EXCEPT !.labels = ls], "labels")
  <2>1. issue[i].labels \cup {l} \in SUBSET LabelSet /\ issue[i].labels \ {l} \in SUBSET LabelSet
    BY <1>1 DEF Row, LabelSet
  <2> QED BY <2>1 DEF AddLabel, RemoveLabel
<1> DEFINE row == [issue[i] EXCEPT !.labels = ls]
<1>3. row \in Row /\ row.status = issue[i].status /\ row.assignee = issue[i].assignee
      /\ row.kind = issue[i].kind
  BY <1>1, <1>2 DEF Row
<1> HIDE DEF row
<1>4. RowConsistent(row) /\ row.status # "none"
  BY <1>1, <1>3 DEF RowConsistent
<1> QED BY <1>2, <1>3, <1>4, SaveAndLogInd DEF SaveAndLog, row, EventNames

LEMMA TouchInd ==
    ASSUME Ind, NEW p \in Procs, NEW i \in Issues, Touch(p, i)
    PROVE  Ind'
<1>1. issue[i] \in Row /\ RowConsistent(issue[i]) /\ issue[i].status # "none"
  BY RowOf DEF Touch, Exists
<1>2. PICK t \in Int : SaveAndLog(p, i, [issue[i] EXCEPT !.expires = t], "heartbeat")
  <2>1. PICK ttl \in IF issue[i].kind = "human" THEN Deadlines ELSE {AgentTTL} :
            SaveAndLog(p, i, [issue[i] EXCEPT !.expires = now + ttl], "heartbeat")
    BY DEF Touch
  <2>2. now + ttl \in Int
    BY <2>1, RowOf, PolicyAssumption
  <2> QED BY <2>1, <2>2
<1> DEFINE row == [issue[i] EXCEPT !.expires = t]
<1>3. row \in Row /\ row.status = issue[i].status /\ row.assignee = issue[i].assignee
      /\ row.kind = issue[i].kind /\ row.evidence = issue[i].evidence
      /\ row.labels = issue[i].labels
  BY <1>1, <1>2 DEF Row
<1> HIDE DEF row
<1>4. RowConsistent(row) /\ row.status # "none"
  BY <1>1, <1>3 DEF RowConsistent
<1> QED BY <1>2, <1>3, <1>4, SaveAndLogInd DEF SaveAndLog, row, EventNames

LEMMA ReleaseInd ==
    ASSUME Ind, NEW p \in Procs, NEW i \in Issues, Release(p, i)
    PROVE  Ind'
<1> DEFINE row == Freed(issue[i])
<1>1. issue[i] \in Row /\ RowConsistent(issue[i]) /\ issue[i].status # "none"
  BY RowOf DEF Release, Exists
<1>2. row \in Row /\ RowConsistent(row) /\ row.status # "none" /\ row.assignee = NoOne
  BY <1>1, FreedFields, FreedIsConsistent
<1>3. SaveAndLog(p, i, row, "released") /\ "released" \in EventNames
  BY DEF Release, EventNames
<1> HIDE DEF row
<1> QED BY <1>2, <1>3, SaveAndLogInd DEF SaveAndLog

LEMMA CloseInd ==
    ASSUME Ind, NEW p \in Procs, NEW i \in Issues, Close(p, i)
    PROVE  Ind'
<1>1. issue[i] \in Row
  BY RowOf
<1>2. PICK ev \in Receipts : SaveAndLog(p, i, Closed(issue[i], {ev}), "closed")
  BY DEF Close
<1> DEFINE row == Closed(issue[i], {ev})
<1>3. {ev} \in SUBSET Evidence /\ "closed" \in EventNames
  BY DEF Evidence, EventNames
<1>4. row \in Row /\ RowConsistent(row) /\ row.status # "none" /\ row.assignee = NoOne
  BY <1>1, <1>3, ClosedFields, ClosedIsConsistent
<1> HIDE DEF row
<1> QED BY <1>2, <1>3, <1>4, SaveAndLogInd DEF SaveAndLog, row

\* Claim reads a holder that is still the same, or a lapsed claim, when it writes: over a
\* trail file no other invocation ran in between.
LEMMA ClaimInd ==
    ASSUME Ind, NEW p \in Procs, NEW i \in Issues, NEW who \in Names, Claim(p, i, who)
    PROVE  Ind'
<1>1. issue[i] \in Row /\ RowConsistent(issue[i]) /\ issue[i].status # "none"
      /\ (Held(i, now) => issue[i].assignee = who)
  BY RowOf DEF Claim, Claimable, Exists
<1>2. PICK k \in Kinds, t \in Int :
          Begin(p, {Swap(1, i, [issue[i] EXCEPT !.assignee = who, !.kind = k, !.expires = t])}
                      \cup Log(2, NextSeq(p), i), {Named(i, "claimed")})
  <2> DEFINE k == IF who \in Humans THEN "human" ELSE "agent"
  <2>1. PICK ttl \in IF who \in Humans THEN Deadlines ELSE TTLRequests \cup {AgentTTL} :
            Begin(p, {Swap(1, i, [issue[i] EXCEPT !.assignee = who, !.kind = k,
                                                 !.expires = now + Lesser(ttl, MaxTTL)])}
                        \cup Log(2, NextSeq(p), i), {Named(i, "claimed")})
    BY DEF Claim
  <2>2. now + Lesser(ttl, MaxTTL) \in Int
    BY <2>1, RowOf, PolicyAssumption, RecordsAssumption DEF Lesser
  <2>3. k \in Kinds
    BY DEF Kinds
  <2> QED BY <2>1, <2>2, <2>3
<1> DEFINE row == [issue[i] EXCEPT !.assignee = who, !.kind = k, !.expires = t]
<1>3. "claimed" \in EventNames
  BY DEF EventNames
<1>4. row \in Row /\ RowConsistent(row) /\ row.status = issue[i].status /\ row.assignee = who
  <2>1. k \in Kinds \cup {"none"} /\ who \in Names \cup {NoOne} /\ t \in Int
    BY <1>2
  <2>2. row.status = issue[i].status /\ row.assignee = who
    BY <1>1, <2>1 DEF Row
  <2>3. row \in Row /\ RowConsistent(row)
    BY <1>1, <1>2, <1>3, ClaimIsConsistent
  <2> QED BY <2>2, <2>3
<1>5. /\ Begin(p, {Swap(1, i, row)} \cup Log(2, NextSeq(p), i), {Named(i, "claimed")})
      /\ Swap(1, i, row) \in {Save(1, i, row), Swap(1, i, row)}
  BY <1>2
<1> HIDE DEF row
<1> QED BY <1>1, <1>3, <1>4, <1>5, SaveAndLogInd

LEMMA UpdateInd ==
    ASSUME Ind, NEW p \in Procs, NEW i \in Issues, Update(p, i)
    PROVE  Ind'
<1>1. PICK st \in PatchStatuses :
        LET row == [issue[i] EXCEPT !.status = st, !.available = DeferredTo(i, now)]
            moved == {Save(1, i, row)} \cup Log(2, NextSeq(p), i)
        IN  IF st = issue[i].status THEN Begin(p, moved, {Named(i, "updated")})
            ELSE Begin(p, moved \cup Log(4, NextSeq(p) + 1, i),
                       {Named(i, "updated"), Named(i, "status")})
  BY DEF Update
<1> DEFINE row == [issue[i] EXCEPT !.status = st, !.available = DeferredTo(i, now)]
           save == Save(1, i, row)
           one == {save} \cup Log(2, NextSeq(p), i)
           two == one \cup Log(4, NextSeq(p) + 1, i)
<1>2. issue[i] \in Row /\ RowConsistent(issue[i]) /\ issue[i].status # "none"
      /\ proc[p].seq \in Nat
  BY RowOf, Types DEF Update, Exists, Ind
<1>3. row \in Row /\ RowConsistent(row) /\ row.status # "none"
      /\ row.assignee = issue[i].assignee
  <2>1. st \in Statuses /\ DeferredTo(i, now) \in Int
    BY <1>2, RowOf, RecordsAssumption, PolicyAssumption DEF DeferredTo, Greater, Row
  <2>2. row = [issue[i] EXCEPT !.status = st, !.evidence = issue[i].evidence,
                               !.available = DeferredTo(i, now)]
    BY <1>2 DEF Row
  <2>3. issue[i].evidence \in SUBSET Evidence
    BY <1>2 DEF Row
  <2>4. row \in Row /\ RowConsistent(row)
    BY <1>2, <2>1, <2>2, <2>3, EditIsConsistent
  <2>5. row.status = st /\ row.assignee = issue[i].assignee
    BY <1>2, <2>1 DEF Row
  <2> QED BY <2>1, <2>4, <2>5 DEF Statuses
<1> HIDE DEF row
<1>4. save \in Revisions /\ save.kind = "issue" /\ save.id = i /\ save.row = row
  BY <1>3, SaveIs
<1> HIDE DEF save
<1>5. NextSeq(p) \in Nat \ {0} /\ NextSeq(p) + 1 \in Nat \ {0}
  BY <1>2 DEF NextSeq
<1>6. /\ Log(2, NextSeq(p), i) \subseteq Revisions
      /\ Log(4, NextSeq(p) + 1, i) \subseteq Revisions
      /\ \A a \in Log(2, NextSeq(p), i) \cup Log(4, NextSeq(p) + 1, i) :
            a.kind \in {"audit", "outbound"}
  <2>1. Log(2, NextSeq(p), i) \subseteq Revisions
    BY <1>5, LogRevisions
  <2>2. Log(4, NextSeq(p) + 1, i) \subseteq Revisions
    BY <1>5, LogRevisions
  <2> QED BY <2>1, <2>2, LogKinds
<1>7. {Named(i, "updated"), Named(i, "status")} \subseteq Event
  BY DEF Named, Event, EventNames
<1>8. ASSUME NEW T, T \in {one, two}
      PROVE  /\ T \in SUBSET Revisions
             /\ \A a \in T : a.kind \in {"issue", "audit", "outbound"}
             /\ \A a \in T : a.kind = "issue" =>
                   /\ RowConsistent(a.row) /\ a.row.status # "none"
                   /\ a.row.assignee = issue[a.id].assignee
             /\ \A a, b \in T : a.kind = "issue" /\ b.kind = "issue" /\ a.id = b.id => a = b
  <2>1. \A a \in T : a.kind = "issue" => a = save
    BY <1>6, <1>8
  <2> QED BY <1>3, <1>4, <1>6, <1>8, <2>1
<1>9. Numbered(p, one)
  <2>1. \A a \in one : a.kind \in {"audit", "outbound"} => a \in Log(2, NextSeq(p), i)
    BY <1>4
  <2> QED BY <1>2, <1>8, <2>1, OneLogNumbered
<1>10. Numbered(p, two)
  <2>1. \A a \in two : a.kind \in {"audit", "outbound"} =>
            a \in Log(2, NextSeq(p), i) \cup Log(4, NextSeq(p) + 1, i)
    BY <1>4
  <2>2. two \in SUBSET Revisions
    BY <1>8
  <2>3. Log(2, NextSeq(p), i) \subseteq two /\ Log(4, NextSeq(p) + 1, i) \subseteq two
    OBVIOUS
  <2> HIDE DEF one, two
  <2> QED BY <1>2, <2>1, <2>2, <2>3, TwoLogsNumbered
<1>11. Begin(p, one, {Named(i, "updated")}) \/ Begin(p, two, {Named(i, "updated"), Named(i, "status")})
  BY <1>1 DEF row, save
<1> HIDE DEF one, two
<1> QED BY <1>7, <1>8, <1>9, <1>10, <1>11, RowsAndLogsInd

\* The second save of a supersede writes the same holder as the first: no one.
LEMMA SupersedeInd ==
    ASSUME Ind, NEW p \in Procs, NEW i \in Issues, NEW r \in Issues, Supersede(p, i, r)
    PROVE  Ind'
<1> DEFINE s1 == Save(1, i, Closed(issue[i], {Ack(r)}))
           s4 == Save(4, i, Superseded(issue[i], r))
           one == {s1} \cup Log(2, NextSeq(p), i)
           two == one \cup ({s4} \cup Log(5, NextSeq(p) + 1, i))
<1>1. issue[i] \in Row /\ proc[p].seq \in Nat /\ {Ack(r)} \in SUBSET Evidence
  BY RowOf, Types DEF Ind, Evidence
<1>2. /\ Closed(issue[i], {Ack(r)}) \in Row /\ RowConsistent(Closed(issue[i], {Ack(r)}))
      /\ Closed(issue[i], {Ack(r)}).status = "closed"
      /\ Closed(issue[i], {Ack(r)}).assignee = NoOne
      /\ Superseded(issue[i], r) \in Row /\ RowConsistent(Superseded(issue[i], r))
      /\ Superseded(issue[i], r).status = "closed"
      /\ Superseded(issue[i], r).assignee = NoOne
  BY <1>1, ClosedFields, ClosedIsConsistent, SupersededFields
<1>3. /\ s1 \in Revisions /\ s1.kind = "issue" /\ s1.id = i /\ s1.turn = 1
      /\ RowConsistent(s1.row) /\ s1.row.status = "closed" /\ s1.row.assignee = NoOne
      /\ s4 \in Revisions /\ s4.kind = "issue" /\ s4.id = i /\ s4.turn = 4
      /\ RowConsistent(s4.row) /\ s4.row.status = "closed" /\ s4.row.assignee = NoOne
  BY <1>2, SaveIs
<1> HIDE DEF s1, s4
<1>4. NextSeq(p) \in Nat \ {0} /\ NextSeq(p) + 1 \in Nat \ {0}
  BY <1>1 DEF NextSeq
<1>5. /\ Log(2, NextSeq(p), i) \subseteq Revisions
      /\ Log(5, NextSeq(p) + 1, i) \subseteq Revisions
      /\ \A a \in Log(2, NextSeq(p), i) \cup Log(5, NextSeq(p) + 1, i) :
            a.kind \in {"audit", "outbound"}
  <2>1. Log(2, NextSeq(p), i) \subseteq Revisions
    BY <1>4, LogRevisions
  <2>2. Log(5, NextSeq(p) + 1, i) \subseteq Revisions
    BY <1>4, LogRevisions
  <2> QED BY <2>1, <2>2, LogKinds
<1>6. {Named(i, "closed")} \subseteq Event /\ {Named(i, "closed"), Named(i, "labels")} \subseteq Event
  BY DEF Named, Event, EventNames
<1>7. ASSUME NEW T, T \in {one, two}
      PROVE  /\ T \in SUBSET Revisions
             /\ \A a \in T : a.kind = "issue" => RowConsistent(a.row)
             /\ Orderly(T) /\ Respectful(T) /\ Decided(T)
  <2>1. /\ T \in SUBSET Revisions /\ s1 \in T
        /\ \A a \in T : a.kind \in {"issue", "audit", "outbound"}
        /\ \A a \in T : a.kind = "issue" => a = s1 \/ a = s4
    BY <1>3, <1>5, <1>7
  <2>2. Orderly(T)
    <3>1. CutsOrdered(T)
      BY <2>1 DEF CutsOrdered
    <3> QED BY <1>3, <2>1, <3>1 DEF Orderly
  <2>3. Respectful(T)
    BY <1>3, <2>1 DEF Respectful
  <2>4. Decided(T)
    <3>1. PICK last \in T : /\ last.kind = "issue" /\ last.id = i
                            /\ last = IF s4 \in T THEN s4 ELSE s1
      BY <1>3, <2>1
    <3>2. \A a \in T : a.kind = "issue" => a.id = i /\ a.turn <= last.turn
      BY <1>3, <2>1, <3>1
    <3>3. \A a, b \in T : a.kind = "issue" /\ b.kind = "issue" /\ a.turn = b.turn => a = b
      BY <1>3, <2>1
    <3> QED BY <2>1, <3>1, <3>2, <3>3 DEF Decided
  <2> QED BY <1>3, <2>1, <2>2, <2>3, <2>4
<1>8. Numbered(p, one)
  <2>1. \A a \in one : a.kind \in {"audit", "outbound"} => a \in Log(2, NextSeq(p), i)
    BY <1>3
  <2> QED BY <1>1, <1>7, <2>1, OneLogNumbered
<1>9. Numbered(p, two)
  <2>1. \A a \in two : a.kind \in {"audit", "outbound"} =>
            a \in Log(2, NextSeq(p), i) \cup Log(5, NextSeq(p) + 1, i)
    BY <1>3
  <2>2. two \in SUBSET Revisions
    BY <1>7
  <2>3. Log(2, NextSeq(p), i) \subseteq two /\ Log(5, NextSeq(p) + 1, i) \subseteq two
    OBVIOUS
  <2> HIDE DEF one, two
  <2> QED BY <1>1, <2>1, <2>2, <2>3, TwoLogsNumbered
<1>10. \/ Begin(p, one, {Named(i, "closed")})
       \/ Begin(p, two, {Named(i, "closed"), Named(i, "labels")})
  BY DEF Supersede, s1, s4
<1> HIDE DEF one, two
<1> QED BY <1>6, <1>7, <1>8, <1>9, <1>10, BeginInd

LEMMA EnsureProjectInd ==
    ASSUME Ind, NEW p \in Procs, NEW s \in Projects, EnsureProject(p, s)
    PROVE  Ind'
<1> DEFINE a == Project(1, s, TRUE)
<1>1. a \in Revisions /\ a.kind = "project"
  BY ProjectIs
<1>2. Begin(p, {a}, {}) /\ ~shared
  BY DEF EnsureProject, Offered
<1> HIDE DEF a
<1>3. Numbered(p, {a}) /\ Orderly({a}) /\ Respectful({a}) /\ Decided({a})
  BY <1>1, <1>2 DEF Numbered, Orderly, CutsOrdered, Respectful, Decided
<1> QED BY <1>1, <1>2, <1>3, BeginInd

LEMMA MarkEventInd ==
    ASSUME Ind, NEW p \in Procs, NEW n \in Seqs, MarkEvent(p, n)
    PROVE  Ind'
<1>1. PICK s \in {"delivered", "failed"} : Begin(p, {Delivery(1, n, s)}, events)
  BY DEF MarkEvent
<1> DEFINE a == Delivery(1, n, s)
<1>2. a \in Revisions /\ a.kind = "delivery" /\ a.at = n
  BY DEF Delivery, Revisions
<1>3. Begin(p, {a}, events) /\ ~shared /\ outbox[n] \in {"pending", "failed"}
      /\ events \in SUBSET Event
  BY <1>1, Types DEF MarkEvent, Offered, Undelivered, Ind, RowsTypeOK
<1> HIDE DEF a
<1>4. Numbered(p, {a}) /\ Orderly({a}) /\ Respectful({a}) /\ Decided({a})
  BY <1>2, <1>3 DEF Numbered, Orderly, CutsOrdered, Respectful, Decided
<1> QED BY <1>2, <1>3, <1>4, BeginInd

\* The issue is saved as it was read, under the lock.
LEMMA AddDepInd ==
    ASSUME Ind, NEW p \in Procs, NEW c \in Issues, NEW b \in Issues, AddDep(p, c, b)
    PROVE  Ind'
<1> DEFINE edge == Edge(1, <<c, b>>, TRUE)
           save == Save(2, c, issue[c])
           log == Log(3, NextSeq(p), c)
           T == {edge, save} \cup log
<1>1. issue[c] \in Row /\ RowConsistent(issue[c]) /\ proc[p].seq \in Nat
  BY RowOf, Types DEF Ind
<1>2. /\ edge \in Revisions /\ edge.kind = "dep" /\ edge.edge = <<c, b>> /\ edge.live = TRUE
      /\ save \in Revisions /\ save.kind = "issue" /\ save.id = c /\ save.row = issue[c]
  <2>1. /\ edge \in Revisions /\ edge.kind = "dep" /\ edge.edge = <<c, b>>
        /\ edge.live = TRUE
    BY DEF Edge, Revisions
  <2>2. save \in Revisions /\ save.kind = "issue" /\ save.id = c /\ save.row = issue[c]
    BY <1>1, SaveIs
  <2> QED BY <2>1, <2>2
<1>3. log \subseteq Revisions /\ \A a \in log : a.kind \in {"audit", "outbound"}
  <2>1. NextSeq(p) \in Nat \ {0}
    BY <1>1 DEF NextSeq
  <2> QED BY <2>1, LogRevisions
<1>4. /\ Begin(p, T, {Named(c, "depends_on")}) /\ ~shared
      /\ issue[c].status # "none" /\ issue[b].status # "none"
  BY DEF AddDep, Offered, Exists
<1> HIDE DEF edge, save
<1>5. Numbered(p, T)
  <2>1. T \in SUBSET Revisions /\ log \subseteq T
    BY <1>2, <1>3
  <2>2. \A a \in T : a.kind \in {"audit", "outbound"} => a \in log
    BY <1>2
  <2> HIDE DEF T
  <2> QED BY <1>1, <2>1, <2>2, OneLogNumbered
<1> HIDE DEF log
<1>6. /\ T \in SUBSET Revisions
      /\ \A a \in T : a.kind \in {"dep", "issue", "audit", "outbound"}
      /\ \A a \in T : a.kind = "issue" => a = save
      /\ \A a \in T : a.kind = "dep" => a = edge
  BY <1>2, <1>3
<1> HIDE DEF T
<1>7. Orderly(T)
  <2>1. CutsOrdered(T)
    BY <1>6 DEF CutsOrdered
  <2>2. \A a \in T : a.kind = "issue" => a.row.status # "none"
    BY <1>2, <1>4, <1>6
  <2>3. \A a \in T : a.kind = "dep" => Exists(a.edge[1]) /\ Exists(a.edge[2])
    BY <1>2, <1>4, <1>6 DEF Exists
  <2> QED BY <1>4, <1>6, <2>1, <2>2, <2>3 DEF Orderly
<1>8. Respectful(T)
  BY <1>2, <1>6 DEF Respectful
<1>9. Decided(T)
  <2>1. save.turn <= save.turn
    <3>1. save.turn \in Nat
      BY <1>2, RevisionFields
    <3> QED BY <3>1
  <2> QED BY <1>2, <1>6, <2>1 DEF Decided
<1>10. {Named(c, "depends_on")} \in SUBSET Event
  BY DEF Named, Event, EventNames
<1> QED BY <1>1, <1>2, <1>4, <1>5, <1>6, <1>7, <1>8, <1>9, <1>10, BeginInd

LEMMA RemoveDepInd ==
    ASSUME Ind, NEW p \in Procs, NEW c \in Issues, NEW b \in Issues, RemoveDep(p, c, b)
    PROVE  Ind'
<1> DEFINE edge == Edge(1, <<c, b>>, FALSE)
           log == Log(2, NextSeq(p), c)
           T == {edge} \cup log
<1>1. proc[p].seq \in Nat
  BY Types DEF Ind
<1>2. edge \in Revisions /\ edge.kind = "dep" /\ edge.live = FALSE
  BY DEF Edge, Revisions
<1>3. log \subseteq Revisions /\ \A a \in log : a.kind \in {"audit", "outbound"}
  <2>1. NextSeq(p) \in Nat \ {0}
    BY <1>1 DEF NextSeq
  <2> QED BY <2>1, LogRevisions
<1>4. Begin(p, T, {Named(c, "unblocked_from")}) /\ ~shared
  BY DEF RemoveDep, Offered
<1> HIDE DEF edge
<1>5. Numbered(p, T)
  <2>1. T \in SUBSET Revisions /\ log \subseteq T
    BY <1>2, <1>3
  <2>2. \A a \in T : a.kind \in {"audit", "outbound"} => a \in log
    BY <1>2
  <2> HIDE DEF T
  <2> QED BY <1>1, <2>1, <2>2, OneLogNumbered
<1> HIDE DEF log
<1>6. /\ T \in SUBSET Revisions
      /\ \A a \in T : a.kind \in {"dep", "audit", "outbound"}
      /\ \A a \in T : a.kind = "dep" => a = edge
  BY <1>2, <1>3
<1> HIDE DEF T
<1>7. Orderly(T)
  <2>1. CutsOrdered(T)
    BY <1>6 DEF CutsOrdered
  <2> QED BY <1>2, <1>4, <1>6, <2>1 DEF Orderly
<1>8. Respectful(T) /\ Decided(T)
  BY <1>6 DEF Respectful, Decided
<1>9. {Named(c, "unblocked_from")} \in SUBSET Event
  BY DEF Named, Event, EventNames
<1> QED BY <1>4, <1>5, <1>6, <1>7, <1>8, <1>9, BeginInd

\* Each lapsed claim gets its own two numbers, and is written at most once.
LEMMA SweepInd ==
    ASSUME Ind, NEW p \in Procs, Sweep(p)
    PROVE  Ind'
<1> DEFINE lapsed == {i \in Issues : Lapsed(i, now)}
           k == Cardinality(lapsed)
<1>1. PICK rank \in Bijection(lapsed, 1 .. k) :
          Begin(p, {Save(3 * rank[i], i, Freed(issue[i])) : i \in {j \in lapsed : Requeued(j)}}
                   \cup UNION {Log(3 * rank[i] + 1, proc[p].seq + rank[i], i) : i \in lapsed},
                {Named(i, IF Requeued(i) THEN "claim_expired" ELSE "escalated") : i \in lapsed})
  BY DEF Sweep
<1> DEFINE S(i) == Save(3 * rank[i], i, Freed(issue[i]))
           L(i) == Log(3 * rank[i] + 1, proc[p].seq + rank[i], i)
           saves == {S(i) : i \in {j \in lapsed : Requeued(j)}}
           T == saves \cup UNION {L(i) : i \in lapsed}
<1>2. k \in Nat /\ lapsed \subseteq Issues /\ proc[p].seq \in Nat
  <2>1. IsFiniteSet(lapsed)
    BY RecordsAssumption, FS_Subset
  <2>2. k \in Nat
    BY <2>1, FS_CardinalityType
  <2> QED BY <2>2, Types DEF Ind
<1> HIDE DEF k
<1>3. /\ rank \in [lapsed -> 1 .. k]
      /\ \A i, j \in lapsed : rank[i] = rank[j] => i = j
      /\ \A m \in 1 .. k : \E i \in lapsed : rank[i] = m
  BY <1>1 DEF Bijection, Injection, Surjection, IsInjective
<1>4. ASSUME NEW i \in lapsed
      PROVE  /\ S(i) \in Revisions /\ S(i).kind = "issue" /\ S(i).id = i
             /\ RowConsistent(S(i).row) /\ S(i).row.status # "none"
             /\ S(i).row.assignee = NoOne
  <2>1. /\ issue[i] \in Row /\ RowConsistent(issue[i]) /\ issue[i].assignee # NoOne
        /\ issue[i].status # "none"
    <3>1. Absent.assignee = NoOne
      BY DEF Absent
    <3> QED BY <1>2, <3>1, RowOf DEF Lapsed, RowConsistent
  <2>2. /\ Freed(issue[i]) \in Row /\ RowConsistent(Freed(issue[i]))
        /\ Freed(issue[i]).status # "none" /\ Freed(issue[i]).assignee = NoOne
    BY <2>1, FreedFields, FreedIsConsistent
  <2>3. 3 * rank[i] \in Nat
    BY <1>2, <1>3
  <2> QED BY <1>2, <2>2, <2>3, SaveIs
<1>5. ASSUME NEW i \in lapsed
      PROVE  L(i) \subseteq Revisions /\ \A a \in L(i) : a.kind \in {"audit", "outbound"}
  <2>1. 3 * rank[i] + 1 \in Nat /\ proc[p].seq + rank[i] \in Nat \ {0} /\ i \in Issues
    BY <1>2, <1>3
  <2> QED BY <2>1, LogRevisions
<1>6. Numbered(p, T)
  <2> DEFINE who == [m \in 1 .. k |-> CHOOSE i \in lapsed : rank[i] = m]
             turn == [m \in 1 .. k |-> 3 * m + 1]
  <2>1. \A m \in 1 .. k : who[m] \in lapsed /\ rank[who[m]] = m
    BY <1>3
  <2>2. who \in [1 .. k -> Issues] /\ turn \in [1 .. k -> Nat]
    BY <1>2, <2>1
  <2>3. \A m \in 1 .. k : m + 1 \in 1 .. k => turn[m] < turn[m + 1]
    BY <1>2
  <2>4. \A m \in 1 .. k : turn[m] = 3 * m + 1
    OBVIOUS
  <2> HIDE DEF who, turn, lapsed, saves, S
  <2>5. \A m \in 1 .. k : Log(turn[m], proc[p].seq + m, who[m]) = L(who[m])
    BY <2>1, <2>4
  <2>6. \A i \in lapsed : rank[i] \in 1 .. k /\ i = who[rank[i]]
    BY <1>3, <2>1
  <2>7. \A a \in T : a.kind \in {"audit", "outbound"} => \E i \in lapsed : a \in L(i)
    BY <1>4 DEF saves
  <2>8. \A a \in T : a.kind \in {"audit", "outbound"} =>
            \E m \in 1 .. k : a \in Log(turn[m], proc[p].seq + m, who[m])
    <3> TAKE a \in T
    <3> HAVE a.kind \in {"audit", "outbound"}
    <3>1. PICK i \in lapsed : a \in L(i)
      BY <2>7
    <3>2. rank[i] \in 1 .. k /\ L(who[rank[i]]) = L(i)
      BY <2>6
    <3> QED BY <2>5, <3>1, <3>2
  <2>9. \A m \in 1 .. k : Log(turn[m], proc[p].seq + m, who[m]) \subseteq T
    <3> HIDE DEF L
    <3> QED BY <2>1, <2>5
  <2>10. T \in SUBSET Revisions
    BY <1>4, <1>5 DEF saves
  <2> HIDE DEF T
  <2> QED BY <1>2, <2>2, <2>3, <2>8, <2>9, <2>10, LogsNumbered
<1>7. {Named(i, IF Requeued(i) THEN "claim_expired" ELSE "escalated") : i \in lapsed}
          \in SUBSET Event
  <2>1. \A i \in Issues, e \in EventNames : Named(i, e) \in Event
    BY DEF Named, Event
  <2>2. "claim_expired" \in EventNames /\ "escalated" \in EventNames
    BY DEF EventNames
  <2> HIDE DEF lapsed
  <2> QED BY <1>2, <2>1, <2>2
<1> HIDE DEF S, L
<1>8. /\ T \in SUBSET Revisions
      /\ \A a \in T : a.kind \in {"issue", "audit", "outbound"}
      /\ \A a \in T : a.kind = "issue" => \E i \in lapsed : a = S(i)
  BY <1>4, <1>5
<1>9. Begin(p, T, {Named(i, IF Requeued(i) THEN "claim_expired" ELSE "escalated") : i \in lapsed})
  BY <1>1 DEF S, L
<1> HIDE DEF T, lapsed
<1>10. \A a \in T : a.kind = "issue" =>
           /\ RowConsistent(a.row) /\ a.row.status # "none" /\ a.row.assignee = NoOne
           /\ a = S(a.id)
  BY <1>4, <1>8
<1>11. \A a, b \in T : a.kind = "issue" /\ b.kind = "issue" /\ a.id = b.id => a = b
  BY <1>10
<1> QED BY <1>6, <1>7, <1>8, <1>9, <1>10, <1>11, RowsAndLogsInd

\* What a drop tombstones, type by type: over a trail file nothing is written in between.
LEMMA DropInd ==
    ASSUME Ind, NEW p \in Procs, NEW s \in Projects, DropProject(p, s)
    PROVE  Ind'
<1> DEFINE mine == Drops(s)
           evs == {n \in Seqs : audit[n] \in mine}
           sent == {n \in evs : outbox[n] \notin {Unused, Gone}}
           cut == {d \in dep : {d[1], d[2]} \cap mine # {}}
           T == DropWrites(s)
           sentCut(n) == CutOutbound(1, n)
           eventCut(n) == CutAudit(2, n)
           edgeCut(e) == Edge(3, e, FALSE)
           rowCut(i) == Tombstone(4, i)
           last == Project(5, s, FALSE)
<1>1. Unused \notin Issues /\ Begin(p, T, {}) /\ ~shared
  BY Types DEF DropProject, Offered, Ind
<1>17. /\ mine \subseteq Issues /\ evs \subseteq Seqs /\ sent \subseteq Seqs
      /\ cut \subseteq Issues \X Issues
  BY Types DEF Drops, Ind, RowsTypeOK
<1>18. T = {sentCut(n) : n \in sent} \cup {eventCut(n) : n \in evs}
             \cup {edgeCut(e) : e \in cut} \cup {rowCut(i) : i \in mine}
             \cup {last}
  BY DEF DropWrites
<1>4. \A n \in Seqs : /\ sentCut(n) \in Revisions /\ sentCut(n).kind = "cut outbound"
                       /\ sentCut(n).at = n /\ sentCut(n).turn = 1
  BY DEF CutOutbound, Revisions
<1>19. \A n \in Seqs : /\ eventCut(n) \in Revisions /\ eventCut(n).kind = "cut audit"
                      /\ eventCut(n).at = n /\ eventCut(n).turn = 2
  BY DEF CutAudit, Revisions
<1>20. ASSUME NEW e \in Issues \X Issues
      PROVE  /\ edgeCut(e) \in Revisions /\ edgeCut(e).kind = "dep"
             /\ edgeCut(e).edge = e /\ edgeCut(e).turn = 3
             /\ edgeCut(e).live = FALSE
  BY DEF Edge, Revisions
<1>21. ASSUME NEW i \in Issues
      PROVE  /\ rowCut(i) \in Revisions /\ rowCut(i).kind = "issue"
             /\ rowCut(i).id = i /\ rowCut(i).turn = 4
             /\ rowCut(i).row = Absent
  BY AbsentIsRow, SaveIs DEF Tombstone
<1>22. last \in Revisions /\ last.kind = "project"
  BY DEF Project, Revisions
<1> HIDE DEF sentCut, eventCut, edgeCut, rowCut, last
<1>23. /\ T \in SUBSET Revisions
      /\ \A a \in T : a.kind \in {"cut outbound", "cut audit", "dep", "issue", "project"}
  <2> DEFINE good == {a \in Revisions :
                        a.kind \in {"cut outbound", "cut audit", "dep", "issue", "project"}}
  <2> HIDE DEF T, mine, evs, sent, cut
  <2>1. /\ \A n \in Seqs : sentCut(n) \in good
        /\ \A n \in Seqs : eventCut(n) \in good
        /\ \A e \in Issues \X Issues : edgeCut(e) \in good
        /\ \A i \in Issues : rowCut(i) \in good
        /\ last \in good
    <3>1. \A n \in Seqs : sentCut(n) \in good
      BY <1>4
    <3>2. \A n \in Seqs : eventCut(n) \in good
      BY <1>19
    <3>3. \A e \in Issues \X Issues : edgeCut(e) \in good
      BY <1>20
    <3>4. \A i \in Issues : rowCut(i) \in good
      BY <1>21
    <3> QED BY <1>22, <3>1, <3>2, <3>3, <3>4
  <2> HIDE DEF good
  <2>2. {sentCut(n) : n \in sent} \subseteq good
    BY <1>17, <2>1
  <2>3. {eventCut(n) : n \in evs} \subseteq good
    BY <1>17, <2>1
  <2>4. {edgeCut(e) : e \in cut} \subseteq good
    BY <1>17, <2>1
  <2>5. {rowCut(i) : i \in mine} \subseteq good
    BY <1>17, <2>1
  <2>6. {last} \subseteq good
    BY <2>1
  <2>7. T \subseteq good
    BY <1>18, <2>2, <2>3, <2>4, <2>5, <2>6
  <2> QED BY <2>7 DEF good
<1>24. ASSUME NEW a \in T
      PROVE  /\ a.kind = "cut outbound" => a.at \in sent
             /\ a.kind = "cut audit" => a.at \in evs /\ a.turn = 2
             /\ a.kind = "dep" => a.edge \in cut /\ ~a.live /\ a.turn = 3
             /\ a.kind = "issue" => a = rowCut(a.id) /\ a.row = Absent /\ a.turn = 4
                                    /\ a.id \in mine
             /\ a.kind = "project" => a = last
  <2> HIDE DEF T, mine, evs, sent, cut
  <2>1. CASE \E n \in sent : a = sentCut(n)
    <3>1. a.kind = "cut outbound" /\ a.at \in sent
      BY <1>17, <1>4, <2>1
    <3> QED BY <3>1
  <2>2. CASE \E n \in evs : a = eventCut(n)
    <3>1. a.kind = "cut audit" /\ a.at \in evs /\ a.turn = 2
      BY <1>17, <1>19, <2>2
    <3> QED BY <3>1
  <2>3. CASE \E e \in cut : a = edgeCut(e)
    <3>1. PICK e \in cut : a = edgeCut(e)
      BY <2>3
    <3>2. e \in Issues \X Issues
      BY <1>17
    <3>3. a.kind = "dep" /\ a.edge \in cut /\ ~a.live /\ a.turn = 3
      BY <1>20, <3>1, <3>2
    <3> QED BY <3>3
  <2>4. CASE \E i \in mine : a = rowCut(i)
    BY <1>17, <1>21, <2>4
  <2>5. CASE a = last
    BY <1>22, <2>5
  <2> QED BY <1>18, <2>1, <2>2, <2>3, <2>4, <2>5
<1>25. /\ \A n \in sent : \E b \in T : b.kind = "cut outbound" /\ b.at = n /\ b.turn = 1
      /\ \A e \in cut : \E b \in T : b.kind = "dep" /\ ~b.live /\ b.edge = e /\ b.turn = 3
  <2> HIDE DEF T, mine, evs, sent, cut
  <2>1. ASSUME NEW n \in sent
        PROVE  \E b \in T : b.kind = "cut outbound" /\ b.at = n /\ b.turn = 1
    <3>1. n \in Seqs /\ sentCut(n) \in T
      BY <1>17, <1>18
    <3> QED BY <1>4, <3>1
  <2>2. ASSUME NEW e \in cut
        PROVE  \E b \in T : b.kind = "dep" /\ ~b.live /\ b.edge = e /\ b.turn = 3
    <3>1. e \in Issues \X Issues /\ edgeCut(e) \in T
      BY <1>17, <1>18
    <3> QED BY <1>20, <3>1
  <2> QED BY <2>1, <2>2
<1> HIDE DEF T
<1>26. Numbered(p, T)
  BY <1>23 DEF Numbered
<1>27. Orderly(T)
  <2>1. CutsOrdered(T)
    <3>1. \A a \in T : a.kind \in {"cut audit", "cut outbound"} => audit[a.at] # Unused
      BY <1>1, <1>17, <1>24
    <3>2. ASSUME NEW a \in T, a.kind = "cut audit", outbox[a.at] \notin {Unused, Gone}
          PROVE  \E b \in T : b.kind = "cut outbound" /\ b.at = a.at /\ b.turn < a.turn
      <4>1. a.at \in sent /\ a.turn = 2
        BY <1>24, <3>2
      <4>2. PICK b \in T : b.kind = "cut outbound" /\ b.at = a.at /\ b.turn = 1
        BY <1>25, <4>1
      <4>3. b.turn < a.turn
        <5>1. b.turn = 1 /\ a.turn = 2
          BY <4>1, <4>2
        <5> QED BY <5>1
      <4> QED BY <4>2, <4>3
    <3> QED BY <1>23, <3>1, <3>2 DEF CutsOrdered
  <2>2. ASSUME NEW a \in T, a.kind = "issue", NEW e \in dep, a.id \in {e[1], e[2]}
        PROVE  \E b \in T : b.kind = "dep" /\ ~b.live /\ b.edge = e /\ b.turn < a.turn
    <3>1. e \in cut /\ a.turn = 4
      BY <1>24, <2>2
    <3>2. PICK b \in T : b.kind = "dep" /\ ~b.live /\ b.edge = e /\ b.turn = 3
      BY <1>25, <3>1
    <3>3. b.turn < a.turn
      BY <3>1, <3>2
    <3> QED BY <3>2, <3>3
  <2> QED BY <1>1, <1>23, <1>24, <2>1, <2>2 DEF Orderly
<1>28. Respectful(T)
  <2>1. Absent.assignee = NoOne
    BY DEF Absent
  <2> QED BY <1>24, <2>1 DEF Respectful
<1>29. Decided(T)
  <2>1. \A a \in T : a.kind = "issue" => a.turn = 4 /\ a = rowCut(a.id)
    BY <1>24
  <2>2. ASSUME NEW a \in T, a.kind = "issue"
        PROVE  \A c \in T : c.kind = "issue" /\ c.id = a.id => c.turn <= a.turn
    BY <2>1, <2>2
  <2>3. \A a, b \in T : a.kind = "dep" /\ b.kind = "dep" => a.live = b.live
    <3>1. \A a \in T : a.kind = "dep" => a.live \in BOOLEAN /\ ~a.live
      BY <1>23, <1>24, RevisionFields
    <3> QED BY <3>1
  <2>4. \A a, b \in T : a.kind = "project" /\ b.kind = "project" => a = b
    BY <1>24
  <2> QED BY <2>1, <2>2, <2>3, <2>4 DEF Decided
<1>16. \A a \in T : a.kind = "issue" => RowConsistent(a.row)
  BY <1>24, AbsentIsRow
<1> QED BY <1>1, <1>23, <1>26, <1>27, <1>28, <1>29, <1>16, BeginInd

----------------------------------------------------------------------------
(* The invariant *)

LEMMA InitInd == Init => Ind
<1> SUFFICES ASSUME Init PROVE Ind
  OBVIOUS
<1>17. /\ Stock \in Seq(Issues) /\ Len(Stock) \in Nat /\ MaxAppends \in Nat
      /\ Cardinality(Projects) \in Nat
      /\ 1 + Cardinality(Projects) + 3 * Len(Stock) <= MaxAppends
      /\ Unused \notin Issues /\ Gone \notin Issues /\ Hosts \subseteq BOOLEAN
  BY RecordsAssumption, FS_CardinalityType
<1>18. \A n \in Seqs : n <= Len(Stock) => Stock[n] \in Issues
  BY <1>17 DEF Seqs
<1>19. issue \in [Issues -> Row] /\ \A i \in Issues : RowConsistent(issue[i])
  <2> DEFINE opened == [Absent EXCEPT !.status = "open"]
  <2>1. opened \in Row /\ opened.assignee = NoOne /\ opened.kind = "none"
        /\ opened.status = "open"
    BY AbsentIsRow DEF Row, Absent, Statuses
  <2>2. RowConsistent(opened)
    <3> HIDE DEF opened
    <3> QED BY <2>1 DEF RowConsistent
  <2> HIDE DEF opened
  <2>3. \A i \in Issues : issue[i] \in {opened, Absent} /\ issue = [j \in Issues |-> issue[j]]
    BY DEF Init, opened
  <2>4. issue = [i \in Issues |-> issue[i]]
    BY DEF Init
  <2> QED BY <2>1, <2>2, <2>3, <2>4, AbsentIsRow
<1>20. RowsTypeOK
  BY <1>19 DEF Init, RowsTypeOK
<1>21. top \in 0 .. MaxAppends /\ Len(Stock) <= top /\ top \in Nat
  BY <1>17 DEF Init
<1>22. /\ audit \in [Seqs -> Issues \cup {Unused, Gone}]
      /\ outbox \in [Seqs -> {Unused, Gone, "pending", "failed", "delivered"}]
      /\ \A n \in Seqs : /\ n <= Len(Stock) => audit[n] \in Issues /\ audit[n] # Unused
                         /\ ~(n <= Len(Stock)) => audit[n] = Unused /\ outbox[n] = Unused
  BY <1>17, <1>18 DEF Init
<1>23. /\ Closed0 \in Invocation /\ Closed0.todo = {} /\ Closed0.seq = 0 /\ ~Closed0.open
      /\ Closed0.version = "none"
  BY DEF Closed0, Invocation
<1>24. /\ proc \in [Procs -> Invocation]
      /\ \A p \in Procs : /\ proc[p].todo = {} /\ proc[p].seq = 0 /\ ~proc[p].open
                          /\ proc[p].version = "none"
  BY <1>23 DEF Init
<1>25. TypeInv
  BY <1>17, <1>20, <1>21, <1>22, <1>24 DEF Init, TypeInv, TypeOK
<1>26. CountInv
  <2>1. \A n \in Seqs : audit[n] # Unused => n <= top
    <3> TAKE n \in Seqs
    <3>1. n \in Nat /\ (audit[n] # Unused => n <= Len(Stock))
      BY <1>22 DEF Seqs
    <3> QED BY <1>17, <1>21, <3>1
  <2>2. \A p \in Procs : proc[p].seq <= top
    BY <1>21, <1>24
  <2>3. \A n \in Seqs : outbox[n] # Unused => audit[n] # Unused
    BY <1>22
  <2> QED BY <1>24, <2>1, <2>2, <2>3 DEF CountInv
<1>27. OutboxHasAudit
  BY <1>22 DEF OutboxHasAudit
<1>28. EdgesResolve /\ dep = {}
  BY DEF Init, EdgesResolve
<1>29. \A p \in Procs : Planned(p)
  BY <1>24 DEF Planned, Numbered, Orderly, CutsOrdered, Respectful, Decided
<1> QED BY <1>25, <1>26, <1>27, <1>28, <1>29 DEF Ind

LEMMA AppendInd ==
    ASSUME Ind, NEW p \in Procs, Appends(p)
    PROVE  Ind'
<1>1. PICK a \in proc[p].todo :
        \/ PutIssue(p, a) \/ ReadVersion(p, a) \/ SwapIssue(p, a) \/ SwapRefused(p, a)
        \/ PutEdge(p, a) \/ PutProject(p, a) \/ PutAudit(p, a) \/ PutOutbound(p, a)
        \/ PutDelivery(p, a) \/ Cut(p, a)
  BY DEF Appends
<1> QED BY <1>1, PutIssueInd, ReadOrRefusedInd, PutEdgeInd, PutProjectInd, PutAuditInd,
           PutOutboundInd, PutDeliveryInd, CutInd

LEMMA OperationInd ==
    ASSUME Ind, NEW p \in Procs, Operation(p)
    PROVE  Ind'
<1>1. CASE \E s \in Projects : EnsureProject(p, s) \/ DropProject(p, s)
  BY <1>1, EnsureProjectInd, DropInd
<1>2. ASSUME NEW i \in Issues,
             Create(p, i) \/ Update(p, i) \/ Touch(p, i) \/ Release(p, i) \/ Close(p, i)
      PROVE  Ind'
  BY <1>2, CreateInd, UpdateInd, TouchInd, ReleaseInd, CloseInd
<1>3. CASE \E i \in Issues : \E l \in Labels : AddLabel(p, i, l) \/ RemoveLabel(p, i, l)
  BY <1>3, LabelInd
<1>4. CASE \E i, b \in Issues : AddDep(p, i, b) \/ RemoveDep(p, i, b) \/ Supersede(p, i, b)
  BY <1>4, AddDepInd, RemoveDepInd, SupersedeInd
<1>5. CASE \E i \in Issues : \E who \in Names : Claim(p, i, who)
  BY <1>5, ClaimInd
<1>6. CASE Sweep(p)
  BY <1>6, SweepInd
<1>7. CASE \E n \in Seqs : MarkEvent(p, n)
  BY <1>7, MarkEventInd
<1> QED BY <1>1, <1>2, <1>3, <1>4, <1>5, <1>6, <1>7 DEF Operation

LEMMA StepInd == Ind /\ [Next]_vars => Ind'
<1> SUFFICES ASSUME Ind, [Next]_vars PROVE Ind'
  OBVIOUS
<1>1. ASSUME NEW p \in Procs, Open(p) \/ Stop(p) \/ Appends(p) \/ Operation(p)
      PROVE  Ind'
  BY <1>1, OpenInd, StopInd, AppendInd, OperationInd
<1> QED BY <1>1, TickInd DEF Next

\* Ind holds in every reachable state: what each process has still to append, wherever it
\* stands between two appends, is as planned.
THEOREM RecordsInvariant == Spec => []Ind
<1> QED BY InitInd, StepInd, PTL DEF Spec

\* The types of the trail, of the tables and of the invocations (TypeOK).
THEOREM RecordsTypeCorrect == Spec => []TypeOK
<1>1. Ind => TypeOK
  BY DEF Ind, TypeInv
<1> QED BY <1>1, RecordsInvariant, PTL

\* OutboxHasAudit: whatever the processes and wherever one of them died, an outbox event
\* points at an audit event.
THEOREM RecordsOutboxHasAudit == Spec => []OutboxHasAudit
<1>1. Ind => OutboxHasAudit
  BY DEF Ind
<1> QED BY <1>1, RecordsInvariant, PTL

\* EdgesResolve: in a drop of a project that dies half way too, no edge is left without
\* its issues.
THEOREM RecordsEdgesResolve == Spec => []EdgesResolve
<1>1. Ind => EdgesResolve
  BY DEF Ind
<1> QED BY <1>1, RecordsInvariant, PTL

----------------------------------------------------------------------------
(* What a step may never do *)

\* An operation only writes down what it is going to append.
LEMMA Begun ==
    ASSUME NEW p \in Procs, Operation(p)
    PROVE  UNCHANGED <<now, projects, issue, dep, shared, top, audit, outbox>>
<1>1. CASE \E s \in Projects : EnsureProject(p, s) \/ DropProject(p, s)
  BY <1>1 DEF EnsureProject, DropProject, Begin
<1>2. ASSUME NEW i \in Issues,
             Create(p, i) \/ Update(p, i) \/ Touch(p, i) \/ Release(p, i) \/ Close(p, i)
      PROVE  UNCHANGED <<now, projects, issue, dep, shared, top, audit, outbox>>
  BY <1>2 DEF Create, Update, Touch, Release, Close, SaveAndLog, Begin
<1>3. CASE \E i \in Issues : \E l \in Labels : AddLabel(p, i, l) \/ RemoveLabel(p, i, l)
  BY <1>3 DEF AddLabel, RemoveLabel, SaveAndLog, Begin
<1>4. ASSUME NEW i \in Issues, NEW b \in Issues,
             AddDep(p, i, b) \/ RemoveDep(p, i, b) \/ Supersede(p, i, b)
      PROVE  UNCHANGED <<now, projects, issue, dep, shared, top, audit, outbox>>
  <2>1. \E T, evs : Begin(p, T, evs)
    BY <1>4 DEF AddDep, RemoveDep, Supersede
  <2> QED BY <2>1 DEF Begin
<1>5. CASE \E i \in Issues : \E who \in Names : Claim(p, i, who)
  BY <1>5 DEF Claim, Begin
<1>6. CASE Sweep(p)
  BY <1>6 DEF Sweep, Begin
<1>7. CASE \E n \in Seqs : MarkEvent(p, n)
  BY <1>7 DEF MarkEvent, Begin
<1> QED BY <1>1, <1>2, <1>3, <1>4, <1>5, <1>6, <1>7 DEF Operation

LEMMA Scripted ==
    ASSUME NEW p \in Procs, Operation(p)
    PROVE  \E T : proc' = [proc EXCEPT ![p].todo = T, ![p].version = "none"]
<1>1. CASE \E s \in Projects : EnsureProject(p, s) \/ DropProject(p, s)
  BY <1>1 DEF EnsureProject, DropProject, Begin
<1>2. ASSUME NEW i \in Issues,
             Create(p, i) \/ Update(p, i) \/ Touch(p, i) \/ Release(p, i) \/ Close(p, i)
      PROVE  \E T : proc' = [proc EXCEPT ![p].todo = T, ![p].version = "none"]
  BY <1>2 DEF Create, Update, Touch, Release, Close, SaveAndLog, Begin
<1>3. CASE \E i \in Issues : \E l \in Labels : AddLabel(p, i, l) \/ RemoveLabel(p, i, l)
  BY <1>3 DEF AddLabel, RemoveLabel, SaveAndLog, Begin
<1>4. ASSUME NEW i \in Issues, NEW b \in Issues,
             AddDep(p, i, b) \/ RemoveDep(p, i, b) \/ Supersede(p, i, b)
      PROVE  \E T : proc' = [proc EXCEPT ![p].todo = T, ![p].version = "none"]
  <2>1. \E T, evs : Begin(p, T, evs)
    BY <1>4 DEF AddDep, RemoveDep, Supersede
  <2> QED BY <2>1 DEF Begin
<1>5. CASE \E i \in Issues : \E who \in Names : Claim(p, i, who)
  BY <1>5 DEF Claim, Begin
<1>6. CASE Sweep(p)
  BY <1>6 DEF Sweep, Begin
<1>7. CASE \E n \in Seqs : MarkEvent(p, n)
  BY <1>7 DEF MarkEvent, Begin
<1> QED BY <1>1, <1>2, <1>3, <1>4, <1>5, <1>6, <1>7 DEF Operation

\* Only an append writes the trail or a row: every other step leaves them.
LEMMA OnlyAppends ==
    ASSUME [Next]_vars,
           ~ \E p \in Procs : \E a \in proc[p].todo :
                \/ PutIssue(p, a) \/ SwapIssue(p, a) \/ PutEdge(p, a) \/ PutProject(p, a)
                \/ PutAudit(p, a) \/ PutOutbound(p, a) \/ PutDelivery(p, a) \/ Cut(p, a)
    PROVE  UNCHANGED <<projects, issue, dep, audit, outbox>>
<1>1. CASE Tick \/ UNCHANGED vars
  BY <1>1 DEF Tick, vars
<1>2. ASSUME NEW p \in Procs, Open(p) \/ Stop(p)
      PROVE  UNCHANGED <<projects, issue, dep, audit, outbox>>
  BY <1>2 DEF Open, Stop
<1>3. ASSUME NEW p \in Procs, NEW a \in proc[p].todo, ReadVersion(p, a) \/ SwapRefused(p, a)
      PROVE  UNCHANGED <<projects, issue, dep, audit, outbox>>
  BY <1>3 DEF ReadVersion, SwapRefused
<1>5. ASSUME NEW p \in Procs, Operation(p)
      PROVE  UNCHANGED <<projects, issue, dep, audit, outbox>>
  BY <1>5, Begun
<1>6. ASSUME NEW p \in Procs, Appends(p)
      PROVE  UNCHANGED <<projects, issue, dep, audit, outbox>>
  BY <1>3, <1>6 DEF Appends
<1> QED BY <1>1, <1>2, <1>5, <1>6 DEF Next

\* An audit event is written over no other, and a delivered outbox event stays so.
LEMMA TrailStep ==
    ASSUME Ind, NEW p \in Procs, NEW a \in proc[p].todo,
           PutAudit(p, a) \/ PutOutbound(p, a) \/ PutDelivery(p, a) \/ Cut(p, a)
    PROVE  SequencesStep
<1>1. TypeInv /\ CountInv /\ Planned(p) /\ proc[p].seq \in Nat /\ proc[p].open /\ Unused # Gone
      /\ top \in Nat /\ MaxAppends \in Nat
      /\ audit \in [Seqs -> Issues \cup {Unused, Gone}]
      /\ outbox \in [Seqs -> {Unused, Gone, "pending", "failed", "delivered"}]
  BY Types DEF Ind, CountInv
<1>2. /\ a \in First(p) /\ a \in Revisions /\ top < MaxAppends
      /\ \A b \in proc[p].todo : ~(b.turn < a.turn)
  <2>1. a \in First(p) /\ top < MaxAppends
    BY DEF PutAudit, PutOutbound, PutDelivery, Cut, Due
  <2>2. a \in Revisions
    BY <1>1, Types
  <2>3. ASSUME NEW b \in proc[p].todo PROVE ~(b.turn < a.turn)
    <3>1. a.turn \in Nat /\ b.turn \in Nat /\ a.turn <= b.turn
      BY <1>1, <2>1, Types, RevisionFields DEF First
    <3> QED BY <3>1
  <2> QED BY <2>1, <2>2, <2>3
<1>3. CASE PutAudit(p, a)
  <2>1. a.kind = "audit" /\ audit' = [audit EXCEPT ![a.at] = a.id] /\ outbox' = outbox
    BY <1>3 DEF PutAudit, Due
  <2>2. a.at = proc[p].seq + 1
    BY <1>1, <1>2, <2>1 DEF Planned, Numbered
  <2>3. ~shared /\ a.at \in Seqs => audit[a.at] = Unused
    <3>1. ~(a.at <= proc[p].seq)
      BY <1>1, <2>2
    <3> QED BY <1>1, <3>1 DEF CountInv
  <2>4. \A n \in Seqs : n # a.at => audit'[n] = audit[n]
    BY <1>1, <2>1
  <2> QED BY <2>1, <2>3, <2>4 DEF SequencesStep
<1>4. CASE PutOutbound(p, a)
  <2>1. a.kind = "outbound" /\ audit' = audit
        /\ outbox' = IF Exists(a.id) THEN [outbox EXCEPT ![a.at] = "pending"] ELSE outbox
    BY <1>4 DEF PutOutbound, Due
  <2>2. ~shared => ~Fixed(a.at)
    BY <1>1, <1>2, <2>1 DEF Planned, Numbered, Fixed, Unused, Gone
  <2>3. \A n \in Seqs : n # a.at => outbox'[n] = outbox[n]
    BY <1>1, <2>1
  <2> QED BY <2>1, <2>2, <2>3 DEF SequencesStep
<1>5. CASE PutDelivery(p, a)
  <2>1. a.kind = "delivery" /\ audit' = audit
        /\ outbox' = [outbox EXCEPT ![a.at] = a.state]
    BY <1>5 DEF PutDelivery, Due
  <2>2. ~Fixed(a.at)
    BY <1>1, <2>1 DEF Planned, Orderly, Fixed, Gone
  <2>3. \A n \in Seqs : n # a.at => outbox'[n] = outbox[n]
    BY <1>1, <2>1
  <2> QED BY <2>1, <2>2, <2>3 DEF SequencesStep
<1>6. CASE Cut(p, a)
  <2>1. /\ \A n \in Seqs : audit'[n] \in {audit[n], Gone}
        /\ \A n \in Seqs : outbox'[n] \in {outbox[n], Gone}
    BY <1>1, <1>6 DEF Cut
  <2> QED BY <2>1 DEF SequencesStep
<1> QED BY <1>3, <1>4, <1>5, <1>6

\* SequencesKept.
THEOREM RecordsSequencesKept == Spec => SequencesKept
<1>1. Ind /\ [Next]_vars => [SequencesStep]_vars
  <2> SUFFICES ASSUME Ind, [Next]_vars PROVE SequencesStep
    OBVIOUS
  <2>1. CASE \E p \in Procs : \E a \in proc[p].todo :
                PutAudit(p, a) \/ PutOutbound(p, a) \/ PutDelivery(p, a) \/ Cut(p, a)
    BY <2>1, TrailStep
  <2>2. CASE audit' = audit /\ outbox' = outbox
    BY <2>2 DEF SequencesStep
  <2>3. ASSUME NEW p \in Procs, NEW a \in proc[p].todo,
               PutIssue(p, a) \/ SwapIssue(p, a) \/ PutEdge(p, a) \/ PutProject(p, a)
        PROVE  audit' = audit /\ outbox' = outbox
    BY <2>3 DEF PutIssue, SwapIssue, PutEdge, PutProject
  <2> QED BY <2>1, <2>2, <2>3, OnlyAppends
<1> QED BY <1>1, RecordsInvariant, PTL DEF Spec, SequencesKept

\* NeverStolen: with one process over its trail, whatever it died in the middle of.
THEOREM RecordsNeverStolen == Spec => NeverStolen
<1>1. Ind /\ [Next]_vars => [shared \/ OneClaimStep]_vars
  <2> SUFFICES ASSUME Ind, [Next]_vars, ~shared PROVE OneClaimStep
    OBVIOUS
  <2>1. ASSUME NEW p \in Procs, NEW a \in proc[p].todo, PutIssue(p, a) \/ SwapIssue(p, a)
        PROVE  OneClaimStep
    <3>1. a.kind = "issue" /\ issue' = [issue EXCEPT ![a.id] = a.row]
      BY <2>1 DEF PutIssue, SwapIssue, Due
    <3>2. /\ a.id \in Issues /\ issue \in [Issues -> Row] /\ Respectful(proc[p].todo)
      BY <3>1, Types, RevisionFields DEF Ind, Planned, RowsTypeOK
    <3>3. Held(a.id, now) => a.row.assignee \in {issue[a.id].assignee, NoOne}
      BY <3>1, <3>2 DEF Respectful
    <3> QED BY <3>1, <3>2, <3>3 DEF OneClaimStep
  <2>2. CASE issue' = issue
    BY <2>2 DEF OneClaimStep
  <2>3. ASSUME NEW p \in Procs, NEW a \in proc[p].todo,
               \/ PutEdge(p, a) \/ PutProject(p, a) \/ PutAudit(p, a) \/ PutOutbound(p, a)
               \/ PutDelivery(p, a) \/ Cut(p, a)
        PROVE  issue' = issue
    BY <2>3 DEF PutEdge, PutProject, PutAudit, PutOutbound, PutDelivery, Cut
  <2> QED BY <2>1, <2>2, <2>3, OnlyAppends
<1> QED BY <1>1, RecordsInvariant, PTL DEF Spec, NeverStolen

----------------------------------------------------------------------------
(* The refinement of the issue tables *)

\* With one process a swap is never refused.
LEMMA CurrentStep == Ind /\ Current /\ [Next]_vars => Current'
<1> SUFFICES ASSUME Ind, Current, [Next]_vars, ~shared', NEW q \in Procs
             PROVE  proc'[q].version # "stale"
  BY DEF Current
<1>1. TypeInv /\ proc \in [Procs -> Invocation]
  BY DEF Ind, TypeInv
<1>2. CASE Tick \/ UNCHANGED vars
  BY <1>2 DEF Tick, vars, Current
<1>3. ASSUME NEW p \in Procs, Open(p) \/ Stop(p)
      PROVE  proc'[q].version # "stale"
  <2> DEFINE opened == [Closed0 EXCEPT !.open = TRUE, !.seq = Resume]
  <2>1. Closed0.version = "none" /\ opened.version = "none"
    BY DEF Closed0
  <2>2. shared' = shared /\ \E r \in {Closed0, opened} : proc' = [proc EXCEPT ![p] = r]
    BY <1>3 DEF Open, Stop
  <2> HIDE DEF opened
  <2> QED BY <1>1, <2>1, <2>2 DEF Current
<1>4. ASSUME NEW p \in Procs, NEW a \in proc[p].todo, NEW seq, NEW touched,
             Done(p, a, seq, touched)
      PROVE  proc'[q].version # "stale"
  <2>1. ~shared /\ proc[q].version # "stale" /\ proc[p].open
    BY <1>4 DEF Done, Current, Ind, CountInv
  <2>2. CASE q = p
    BY <1>1, <1>4, <2>1, <2>2 DEF Done, Invocation
  <2>3. CASE q # p
    <3>1. proc[q].todo = {}
      BY <2>1, <2>3, Alone
    <3> QED BY <1>1, <1>4, <2>1, <2>3, <3>1 DEF Done, First
  <2> QED BY <2>2, <2>3
<1>5. ASSUME NEW p \in Procs, NEW a \in proc[p].todo, ReadVersion(p, a) \/ SwapRefused(p, a)
      PROVE  proc'[q].version # "stale"
  BY <1>1, <1>5 DEF ReadVersion, SwapRefused, Invocation, Current
<1>6. ASSUME NEW p \in Procs, Appends(p)
      PROVE  proc'[q].version # "stale"
  BY <1>4, <1>5, <1>6 DEF Appends, PutIssue, SwapIssue, PutEdge, PutProject, PutAudit,
                          PutOutbound, PutDelivery, Cut
<1>7. ASSUME NEW p \in Procs, Operation(p)
      PROVE  proc'[q].version # "stale"
  <2>1. PICK T : proc' = [proc EXCEPT ![p].todo = T, ![p].version = "none"]
    BY <1>7, Scripted
  <2>2. ~shared
    BY <1>7, Begun
  <2> QED BY <1>1, <2>1, <2>2 DEF Current, Invocation
<1> QED BY <1>2, <1>3, <1>6, <1>7 DEF Next

\* What a row becomes: the last save of it counts, the first one is only on the way.
LEMMA RowAfterOne ==
    ASSUME NEW row, NEW a, a.turn \in Nat
    PROVE  RowAfter(row, {}) = row /\ RowAfter(row, {a}) = a.row
<1>1. a.turn <= a.turn
  OBVIOUS
<1> QED BY <1>1 DEF RowAfter

LEMMA RowAfterLast ==
    ASSUME NEW row, NEW S, \A a \in S : a.turn \in Nat,
           \A a, b \in S : a.turn = b.turn => a = b,
           NEW m \in S, \A b \in S : b.turn <= m.turn
    PROVE  RowAfter(row, S) = m.row
<1> DEFINE last == CHOOSE a \in S : \A b \in S : b.turn <= a.turn
<1>1. last \in S /\ \A b \in S : b.turn <= last.turn
  OBVIOUS
<1>2. last.turn <= m.turn /\ m.turn <= last.turn /\ last.turn \in Nat /\ m.turn \in Nat
  BY <1>1
<1>3. last = m
  <2>1. last.turn = m.turn
    BY <1>2
  <2> QED BY <1>1, <2>1
<1> QED BY <1>3 DEF RowAfter

LEMMA RowAfterFirst ==
    ASSUME NEW row, NEW S, \A a \in S : a.turn \in Nat,
           \A a, b \in S : a.turn = b.turn => a = b,
           \E m \in S : \A b \in S : b.turn <= m.turn,
           NEW a \in S, \A b \in S : ~(b.turn < a.turn)
    PROVE  RowAfter(row, S) = RowAfter(a.row, S \ {a})
<1>1. PICK m \in S : \A b \in S : b.turn <= m.turn
  OBVIOUS
<1>2. RowAfter(row, S) = m.row
  BY <1>1, RowAfterLast
<1>3. CASE m = a
  <2>1. S \ {a} = {}
    <3> SUFFICES ASSUME NEW b \in S PROVE b = a
      OBVIOUS
    <3>1. b.turn \in Nat /\ a.turn \in Nat /\ b.turn <= a.turn /\ ~(b.turn < a.turn)
      BY <1>1, <1>3
    <3>2. b.turn = a.turn
      BY <3>1
    <3> QED BY <3>2
  <2> QED BY <1>2, <1>3, <2>1 DEF RowAfter
<1>4. CASE m # a
  <2> DEFINE R == S \ {a}
  <2>1. /\ m \in R /\ \A b \in R : b.turn <= m.turn /\ b.turn \in Nat
        /\ \A b, c \in R : b.turn = c.turn => b = c
    BY <1>1, <1>4
  <2> HIDE DEF R
  <2>2. RowAfter(a.row, R) = m.row
    BY <2>1, RowAfterLast
  <2> QED BY <1>2, <2>2 DEF R
<1> QED BY <1>3, <1>4

\* With one process, its appends are all there is in flight.
LEMMA FlightIs ==
    ASSUME NEW p \in Procs, \A q \in Procs \ {p} : proc[q].todo = {}, NEW k
    PROVE  Flight(k) = {a \in proc[p].todo : a.kind = k}
BY DEF Flight

LEMMA FlightIsNext ==
    ASSUME NEW p \in Procs, \A q \in Procs \ {p} : proc'[q].todo = {}, NEW k
    PROVE  Flight(k)' = {a \in proc'[p].todo : a.kind = k}
BY DEF Flight

\* The appends in flight before and after append a of p.
LEMMA AppendFlight ==
    ASSUME Ind, ~shared, NEW p \in Procs, NEW a \in First(p), NEW seq \in Nat, NEW touched,
           top < MaxAppends, Done(p, a, seq, touched)
    PROVE  /\ \A k : Flight(k) = {b \in proc[p].todo : b.kind = k}
           /\ \A k : Flight(k)' = {b \in proc[p].todo \ {a} : b.kind = k}
           /\ now' = now /\ events' = events
<1>1. TypeInv /\ CountInv /\ a \in proc[p].todo /\ proc[p].open
  BY DEF Ind, First, CountInv
<1>2. \A q \in Procs \ {p} : proc[q].todo = {}
  BY <1>1, Alone
<1>3. /\ proc'[p].todo = proc[p].todo \ {a}
      /\ \A q \in Procs \ {p} : proc'[q].todo = proc[q].todo
      /\ now' = now /\ events' = events
  BY <1>1, DoneFacts
<1>4. \A k : Flight(k) = {b \in proc[p].todo : b.kind = k}
  BY <1>2, FlightIs
<1>5. \A q \in Procs \ {p} : proc'[q].todo = {}
  BY <1>2, <1>3
<1>6. \A k : Flight(k)' = {b \in proc'[p].todo : b.kind = k}
  BY <1>5, FlightIsNext
<1> QED BY <1>3, <1>4, <1>6

\* What is not appended by this step, and is still to come, will be as before.
LEMMA DueIssueKept ==
    ASSUME issue' = issue, Flight("issue")' = Flight("issue")
    PROVE  dueIssue' = dueIssue
BY DEF dueIssue

LEMMA DueDepKept ==
    ASSUME dep' = dep, Flight("dep")' = Flight("dep")
    PROVE  dueDep' = dueDep
BY DEF dueDep

LEMMA DueProjectsKept ==
    ASSUME projects' = projects, Flight("project")' = Flight("project")
    PROVE  dueProjects' = dueProjects
BY DEF dueProjects

\* An append of one process changes no row as it is going to be.
LEMMA PutIssueStutters ==
    ASSUME Ind, ~shared, NEW p \in Procs, NEW a \in proc[p].todo,
           PutIssue(p, a) \/ SwapIssue(p, a)
    PROVE  UNCHANGED dueRows
<1>1. /\ a \in First(p) /\ a.kind = "issue" /\ top < MaxAppends
      /\ issue' = [issue EXCEPT ![a.id] = a.row] /\ Done(p, a, proc[p].seq, {a.id})
      /\ UNCHANGED <<projects, dep>>
  BY DEF PutIssue, SwapIssue, Due
<1>2. TypeInv /\ Decided(proc[p].todo) /\ proc[p].seq \in Nat /\ issue \in [Issues -> Row]
  BY Types DEF Ind, Planned, RowsTypeOK
<1>3. \A b \in proc[p].todo : b \in Revisions /\ ~(b.turn < a.turn)
  BY <1>1, <1>2, DoneFacts
<1>4. /\ \A k : Flight(k) = {b \in proc[p].todo : b.kind = k}
      /\ \A k : Flight(k)' = {b \in proc[p].todo \ {a} : b.kind = k}
      /\ now' = now /\ events' = events
  BY <1>1, <1>2, AppendFlight
<1>5. dueDep' = dueDep
  <2>1. Flight("dep")' = Flight("dep")
    BY <1>1, <1>4
  <2> QED BY <1>1, <2>1, DueDepKept
<1>6. dueProjects' = dueProjects
  <2>1. Flight("project")' = Flight("project")
    BY <1>1, <1>4
  <2> QED BY <1>1, <2>1, DueProjectsKept
<1>7. ASSUME NEW i \in Issues
      PROVE  RowAfter(issue'[i], {b \in Flight("issue")' : b.id = i})
                = RowAfter(issue[i], {b \in Flight("issue") : b.id = i})
  <2> DEFINE S == {b \in Flight("issue") : b.id = i}
             R == {b \in Flight("issue")' : b.id = i}
  <2>1. CASE i # a.id
    <3>1. R = S
      BY <1>4, <2>1
    <3>2. issue'[i] = issue[i]
      BY <1>1, <1>2, <2>1
    <3> QED BY <3>1, <3>2
  <2>2. CASE i = a.id
    <3>1. R = S \ {a} /\ a \in S /\ issue'[i] = a.row
      BY <1>1, <1>2, <1>4, <2>2
    <3>2. \A b \in S : b \in proc[p].todo /\ b.kind = "issue" /\ b.id = i
      BY <1>4
    <3>3. \A b \in S : b.turn \in Nat
      BY <1>3, <3>2, RevisionFields
    <3>4. \A b \in S : ~(b.turn < a.turn)
      BY <1>3, <3>2
    <3>5. a \in S
      BY <3>1
    <3>6. \A b, c \in S : b.turn = c.turn => b = c
      BY <1>2, <3>2 DEF Decided
    <3>7. \E m \in S : \A b \in S : b.turn <= m.turn
      <4>1. PICK m \in proc[p].todo :
                /\ m.kind = "issue" /\ m.id = i
                /\ \A c \in proc[p].todo : c.kind = "issue" /\ c.id = i => c.turn <= m.turn
        BY <1>2, <3>1, <3>2 DEF Decided
      <4>2. m \in S
        BY <1>4, <4>1
      <4> QED BY <3>2, <4>1, <4>2
    <3> HIDE DEF S, R
    <3>8. RowAfter(issue[i], S) = RowAfter(a.row, S \ {a})
      BY <3>3, <3>4, <3>5, <3>6, <3>7, RowAfterFirst
    <3>9. issue'[i] = a.row
      BY <1>1, <1>2, <2>2
    <3>10. S # {} /\ RowAfter(issue'[i], R) = RowAfter(a.row, S \ {a})
      BY <3>1, <3>9
    <3>11. RowAfter(issue'[i], R) = RowAfter(issue[i], S)
      BY <3>8, <3>10
    <3> QED BY <3>11 DEF S, R
  <2> QED BY <2>1, <2>2
<1>8. dueIssue' = dueIssue
  BY <1>7 DEF dueIssue
<1> QED BY <1>4, <1>5, <1>6, <1>8 DEF dueRows

LEMMA PutEdgeStutters ==
    ASSUME Ind, ~shared, NEW p \in Procs, NEW a \in proc[p].todo, PutEdge(p, a)
    PROVE  UNCHANGED dueRows
<1>1. /\ a \in First(p) /\ a.kind = "dep" /\ top < MaxAppends
      /\ dep' = (IF a.live THEN dep \cup {a.edge} ELSE dep \ {a.edge})
      /\ Done(p, a, proc[p].seq, {}) /\ UNCHANGED <<projects, issue>>
  BY DEF PutEdge, Due
<1>2. Decided(proc[p].todo) /\ proc[p].seq \in Nat
  BY Types DEF Ind, Planned
<1>3. /\ \A k : Flight(k) = {b \in proc[p].todo : b.kind = k}
      /\ \A k : Flight(k)' = {b \in proc[p].todo \ {a} : b.kind = k}
      /\ now' = now /\ events' = events
  BY <1>1, <1>2, AppendFlight
<1>4. Flight("issue")' = Flight("issue") /\ Flight("project")' = Flight("project")
  BY <1>1, <1>3
<1>5. dueDep' = dueDep
  <2> DEFINE F == Flight("dep")
             live(G) == {b.edge : b \in {c \in G : c.live}}
             dead(G) == {b.edge : b \in {c \in G : ~c.live}}
  <2>1. Flight("dep")' = F \ {a} /\ a \in F
        /\ \A b, c \in F : b.edge = c.edge => b.live = c.live
    BY <1>1, <1>2, <1>3 DEF Decided
  <2>2. dueDep = (dep \cup live(F)) \ dead(F) /\ dueDep' = (dep' \cup live(F \ {a})) \ dead(F \ {a})
    BY <2>1 DEF dueDep
  <2> HIDE DEF F
  <2>3. CASE a.live
    <3>1. live(F) = live(F \ {a}) \cup {a.edge} /\ dead(F) = dead(F \ {a})
      BY <2>1, <2>3
    <3> QED BY <1>1, <2>2, <2>3, <3>1
  <2>4. CASE ~a.live
    <3>1. dead(F) = dead(F \ {a}) \cup {a.edge} /\ live(F) = live(F \ {a})
          /\ a.edge \notin live(F)
      BY <2>1, <2>4
    <3> QED BY <1>1, <2>2, <2>4, <3>1
  <2> QED BY <2>3, <2>4
<1> QED BY <1>1, <1>3, <1>4, <1>5, DueIssueKept, DueProjectsKept DEF dueRows

LEMMA PutProjectStutters ==
    ASSUME Ind, ~shared, NEW p \in Procs, NEW a \in proc[p].todo, PutProject(p, a)
    PROVE  UNCHANGED dueRows
<1>1. /\ a \in First(p) /\ a.kind = "project" /\ top < MaxAppends
      /\ projects' = (IF a.live THEN projects \cup {a.slug} ELSE projects \ {a.slug})
      /\ Done(p, a, proc[p].seq, {}) /\ UNCHANGED <<issue, dep>>
  BY DEF PutProject, Due
<1>2. Decided(proc[p].todo) /\ proc[p].seq \in Nat
  BY Types DEF Ind, Planned
<1>3. /\ \A k : Flight(k) = {b \in proc[p].todo : b.kind = k}
      /\ \A k : Flight(k)' = {b \in proc[p].todo \ {a} : b.kind = k}
      /\ now' = now /\ events' = events
  BY <1>1, <1>2, AppendFlight
<1>4. Flight("issue")' = Flight("issue") /\ Flight("dep")' = Flight("dep")
  BY <1>1, <1>3
<1>5. dueProjects' = dueProjects
  <2>1. Flight("project") = {a} /\ Flight("project")' = {}
    BY <1>1, <1>2, <1>3 DEF Decided
  <2> QED BY <1>1, <2>1 DEF dueProjects
<1> QED BY <1>1, <1>3, <1>4, <1>5, DueIssueKept, DueDepKept DEF dueRows

LEMMA TrailStutters ==
    ASSUME Ind, ~shared, NEW p \in Procs, NEW a \in proc[p].todo,
           PutAudit(p, a) \/ PutOutbound(p, a) \/ PutDelivery(p, a) \/ Cut(p, a)
    PROVE  UNCHANGED dueRows
<1>1. PICK seq \in Nat : Done(p, a, seq, {})
  <2>1. proc[p].seq \in Nat /\ (PutAudit(p, a) => a.at \in Nat)
    BY Types, RevisionFields DEF Ind, PutAudit, Due
  <2> QED BY <2>1 DEF PutAudit, PutOutbound, PutDelivery, Cut
<1>2. /\ a \in First(p) /\ a.kind \notin {"issue", "dep", "project"} /\ top < MaxAppends
      /\ UNCHANGED <<projects, issue, dep>>
  BY DEF PutAudit, PutOutbound, PutDelivery, Cut, Due
<1>3. /\ \A k : Flight(k) = {b \in proc[p].todo : b.kind = k}
      /\ \A k : Flight(k)' = {b \in proc[p].todo \ {a} : b.kind = k}
      /\ now' = now /\ events' = events
  BY <1>1, <1>2, AppendFlight
<1>4. /\ Flight("issue")' = Flight("issue") /\ Flight("dep")' = Flight("dep")
      /\ Flight("project")' = Flight("project")
  BY <1>2, <1>3
<1> QED BY <1>2, <1>3, <1>4, DueIssueKept, DueDepKept, DueProjectsKept DEF dueRows

\* What the appends in flight are, they are to become what they were.
LEMMA SameFlight ==
    ASSUME projects' = projects, issue' = issue, dep' = dep, \A k : Flight(k)' = Flight(k)
    PROVE  dueProjects' = dueProjects /\ dueIssue' = dueIssue /\ dueDep' = dueDep
BY DueProjectsKept, DueIssueKept, DueDepKept

\* A step that changes no append still to make.
LEMMA SameTodo ==
    ASSUME projects' = projects, issue' = issue, dep' = dep,
           \A p \in Procs : proc'[p].todo = proc[p].todo
    PROVE  dueProjects' = dueProjects /\ dueIssue' = dueIssue /\ dueDep' = dueDep
<1>1. UNION {proc'[p].todo : p \in Procs} = UNION {proc[p].todo : p \in Procs}
  OBVIOUS
<1>2. \A k : Flight(k)' = Flight(k)
  BY <1>1 DEF Flight
<1> QED BY <1>2, SameFlight

\* An append of the one process changes nothing, a swap included.
LEMMA AppendStutters ==
    ASSUME Ind, Current, ~shared, NEW p \in Procs, Appends(p)
    PROVE  UNCHANGED dueRows
<1>1. PICK a \in proc[p].todo :
        \/ PutIssue(p, a) \/ ReadVersion(p, a) \/ SwapIssue(p, a) \/ SwapRefused(p, a)
        \/ PutEdge(p, a) \/ PutProject(p, a) \/ PutAudit(p, a) \/ PutOutbound(p, a)
        \/ PutDelivery(p, a) \/ Cut(p, a)
  BY DEF Appends
<1>2. CASE ReadVersion(p, a)
  <2>1. proc \in [Procs -> Invocation]
    BY DEF Ind, TypeInv
  <2>2. /\ proc' = [proc EXCEPT ![p].version = "fresh"]
        /\ UNCHANGED <<now, projects, issue, dep, events>>
    BY <1>2 DEF ReadVersion
  <2>3. \A q \in Procs : proc'[q].todo = proc[q].todo
    BY <2>1, <2>2 DEF Invocation
  <2> QED BY <2>2, <2>3, SameTodo DEF dueRows
<1>3. ~SwapRefused(p, a)
  BY DEF SwapRefused, Current
<1> QED BY <1>1, <1>2, <1>3, PutIssueStutters, PutEdgeStutters, PutProjectStutters,
           TrailStutters

\* Opening the trail changes nothing, and a process that stops with nothing to append is
\* no loss.
LEMMA OpenOrStop ==
    ASSUME Ind, ~shared, NEW p \in Procs, Open(p) \/ Stop(p)
    PROVE  Dies \/ UNCHANGED dueRows
<1>1. proc \in [Procs -> Invocation]
  BY DEF Ind, TypeInv
<1> DEFINE opened == [Closed0 EXCEPT !.open = TRUE, !.seq = Resume]
<1>2. /\ Closed0.todo = {} /\ opened.todo = {} /\ Closed0.open = FALSE
  BY DEF Closed0
<1>3. /\ \E r \in {Closed0, opened} : proc' = [proc EXCEPT ![p] = r]
      /\ Stop(p) => proc' = [proc EXCEPT ![p] = Closed0]
      /\ UNCHANGED <<now, projects, issue, dep, events>>
  BY DEF Open, Stop
<1> HIDE DEF opened
<1>4. CASE proc[p].todo = {}
  <2>1. \A q \in Procs : proc'[q].todo = proc[q].todo
    BY <1>1, <1>2, <1>3, <1>4
  <2> QED BY <1>3, <2>1, SameTodo DEF dueRows
<1>5. CASE proc[p].todo # {}
  <2>1. Stop(p)
    BY <1>5 DEF Open, Ind, CountInv
  <2>2. ~proc'[p].open
    BY <1>1, <1>2, <1>3, <2>1
  <2> QED BY <1>5, <2>2 DEF Dies
<1> QED BY <1>4, <1>5

\* Time passes for the tables as for the trail.
LEMMA TickPasses ==
    ASSUME Ind, Tick
    PROVE  Passes
<1>1. now \in Nat
  BY Types DEF Ind, RowsTypeOK
<1>2. now' = now + 1 /\ UNCHANGED <<projects, issue, dep, events, proc>>
  BY DEF Tick
<1>3. now' # now
  BY <1>1, <1>2
<1> QED BY <1>2, <1>3, SameTodo DEF Passes

\* Before an operation of the one process nothing is in flight, and after it what it is
\* going to append.
LEMMA BeginDue ==
    ASSUME Ind, ~shared, NEW p \in Procs, NEW T, NEW evs, Begin(p, T, evs)
    PROVE  /\ dueIssue = issue /\ dueDep = dep /\ dueProjects = projects
           /\ \A k : Flight(k)' = {a \in T : a.kind = k}
           /\ UNCHANGED <<now, projects, issue, dep>> /\ events' = evs
<1>1. /\ proc \in [Procs -> Invocation] /\ issue \in [Issues -> Row]
      /\ proc[p].open /\ proc[p].todo = {}
      /\ proc' = [proc EXCEPT ![p].todo = T, ![p].version = "none"]
      /\ UNCHANGED <<now, projects, issue, dep>> /\ events' = evs
  BY DEF Ind, TypeInv, TypeOK, RowsTypeOK, Begin, Idle
<1>2. \A q \in Procs \ {p} : proc[q].todo = {} /\ proc'[q].todo = {}
  BY <1>1, Alone
<1>3. proc'[p].todo = T
  BY <1>1 DEF Invocation
<1>4. \A k : Flight(k) = {}
  <2>1. \A q \in Procs : proc[q].todo = {}
    BY <1>1, <1>2
  <2> QED BY <2>1 DEF Flight
<1>5. dueIssue = issue
  <2>1. \A i \in Issues : RowAfter(issue[i], {a \in Flight("issue") : a.id = i}) = issue[i]
    <3> TAKE i \in Issues
    <3>1. {a \in Flight("issue") : a.id = i} = {}
      BY <1>4
    <3> QED BY <3>1 DEF RowAfter
  <2>2. dueIssue = [i \in Issues |-> issue[i]]
    BY <2>1 DEF dueIssue
  <2> QED BY <1>1, <2>2
<1>6. dueDep = dep /\ dueProjects = projects
  BY <1>4 DEF dueDep, dueProjects
<1>7. \A k : Flight(k)' = {a \in T : a.kind = k}
  <2> TAKE k
  <2>1. \A q \in Procs \ {p} : proc'[q].todo = {}
    BY <1>2
  <2>2. Flight(k)' = {a \in proc'[p].todo : a.kind = k}
    BY <2>1, FlightIsNext
  <2> QED BY <1>3, <2>2
<1> QED BY <1>1, <1>5, <1>6, <1>7

\* An operation that saves one row and logs.
LEMMA OneRowDue ==
    ASSUME Ind, ~shared, NEW p \in Procs, NEW T, NEW evs, Begin(p, T, evs),
           NEW a \in T, a.kind = "issue", a.id \in Issues, a.turn \in Nat,
           \A b \in T : b = a \/ b.kind \in {"audit", "outbound"}
    PROVE  /\ dueIssue = issue /\ dueDep = dep /\ dueProjects = projects
           /\ dueIssue' = [issue EXCEPT ![a.id] = a.row]
           /\ dueDep' = dep /\ dueProjects' = projects /\ now' = now /\ events' = evs
<1>1. /\ dueIssue = issue /\ dueDep = dep /\ dueProjects = projects
      /\ \A k : Flight(k)' = {b \in T : b.kind = k}
      /\ UNCHANGED <<now, projects, issue, dep>> /\ events' = evs
  BY BeginDue
<1>2. Flight("issue")' = {a} /\ Flight("dep")' = {} /\ Flight("project")' = {}
  BY <1>1
<1>3. issue \in [Issues -> Row]
  BY DEF Ind, TypeInv, TypeOK, RowsTypeOK
<1>4. dueDep' = dep /\ dueProjects' = projects
  BY <1>1, <1>2 DEF dueDep, dueProjects
<1>5. ASSUME NEW i \in Issues
      PROVE  RowAfter(issue[i], {b \in {a} : b.id = i}) = IF i = a.id THEN a.row ELSE issue[i]
  <2>1. CASE i = a.id
    <3>1. {b \in {a} : b.id = i} = {a}
      BY <2>1
    <3> QED BY <2>1, <3>1, RowAfterOne
  <2>2. CASE i # a.id
    <3>1. {b \in {a} : b.id = i} = {}
      BY <2>2
    <3> QED BY <2>2, <3>1, RowAfterOne
  <2> QED BY <2>1, <2>2
<1>6. dueIssue' = [i \in Issues |-> RowAfter(issue[i], {b \in {a} : b.id = i})]
  BY <1>1, <1>2 DEF dueIssue
<1>7. dueIssue' = [i \in Issues |-> IF i = a.id THEN a.row ELSE issue[i]]
  BY <1>5, <1>6
<1>8. dueIssue' = [issue EXCEPT ![a.id] = a.row]
  BY <1>3, <1>7
<1> QED BY <1>1, <1>4, <1>8

\* The tables log what the trail does, of an issue that will be there.
LEMMA LoggedAsNamed ==
    ASSUME NEW i, NEW e, dueIssue'[i].status # "none"
    PROVE  Tables!Logged(i, e) = Named(i, e)
BY DEF Tables!Logged, Named

\* An operation that writes one row and logs one event of it.
LEMMA SaveAndLogDue ==
    ASSUME Ind, ~shared, NEW p \in Procs, NEW i \in Issues, NEW row \in Row, NEW e,
           row.status # "none",
           NEW save \in {Save(1, i, row), Swap(1, i, row)},
           Begin(p, {save} \cup Log(2, NextSeq(p), i), {Named(i, e)})
    PROVE  /\ dueIssue = issue /\ dueDep = dep /\ dueProjects = projects
           /\ dueIssue' = [issue EXCEPT ![i] = row]
           /\ dueDep' = dep /\ dueProjects' = projects /\ now' = now
           /\ events' = {Tables!Logged(i, e)}
<1> DEFINE T == {save} \cup Log(2, NextSeq(p), i)
<1>1. NextSeq(p) \in Nat \ {0}
  BY Types DEF Ind, NextSeq
<1>2. /\ save \in T /\ save.kind = "issue" /\ save.id = i /\ save.row = row /\ save.turn \in Nat
  BY SaveIs
<1>3. \A b \in T : b = save \/ b.kind \in {"audit", "outbound"}
  BY LogKinds
<1> HIDE DEF T
<1>4. Begin(p, T, {Named(i, e)}) /\ save.id \in Issues
  BY <1>2 DEF T
<1>5. /\ dueIssue = issue /\ dueDep = dep /\ dueProjects = projects
      /\ dueIssue' = [issue EXCEPT ![save.id] = save.row]
      /\ dueDep' = dep /\ dueProjects' = projects /\ now' = now
      /\ events' = {Named(i, e)}
  BY <1>2, <1>3, <1>4, OneRowDue
<1>6. dueIssue'[i].status # "none"
  <2>1. issue \in [Issues -> Row]
    BY DEF Ind, TypeInv, TypeOK, RowsTypeOK
  <2> QED BY <1>2, <1>5, <2>1
<1>7. Tables!Logged(i, e) = Named(i, e)
  BY <1>6, LoggedAsNamed
<1> QED BY <1>2, <1>5, <1>7

LEMMA CreateIsTx ==
    ASSUME Ind, ~shared, NEW p \in Procs, NEW i \in Issues, Create(p, i)
    PROVE  Tables!CreateTx(i, {}, now + Grace)
<1> DEFINE row == [Absent EXCEPT !.status = "open", !.available = now + Grace]
<1>1. Absent \in Row /\ now + Grace \in Int
  BY AbsentIsRow, RowOf, PolicyAssumption
<1>2. row \in Row /\ row.status # "none"
  <2> DEFINE opened == [Absent EXCEPT !.status = "open"]
  <2>1. opened \in Row /\ opened.status = "open"
    BY <1>1 DEF Row, Absent, Statuses
  <2>2. row = [opened EXCEPT !.available = now + Grace]
    OBVIOUS
  <2>3. row \in Row /\ row.status = "open"
    <3> HIDE DEF opened, row
    <3> QED BY <1>1, <2>1, <2>2 DEF Row
  <2> QED BY <2>3
<1>3. row = [Absent EXCEPT !.status = "open", !.available = now + Grace, !.labels = {}]
  <2> DEFINE made == [Absent EXCEPT !.status = "open", !.available = now + Grace]
  <2>1. made.labels = {} /\ made \in Row
    BY <1>1, <1>2 DEF Absent
  <2>2. made = [made EXCEPT !.labels = {}]
    <3> HIDE DEF made
    <3> QED BY <2>1 DEF Row
  <2> QED BY <2>2
<1>4. /\ ProjectOf[i] \in projects /\ issue[i].status = "none"
      /\ Begin(p, {Save(1, i, row)} \cup Log(2, NextSeq(p), i), {Named(i, "created")})
  BY DEF Create, Exists, SaveAndLog
<1> HIDE DEF row
<1>5. /\ dueIssue = issue /\ dueDep = dep /\ dueProjects = projects
      /\ dueIssue' = [issue EXCEPT ![i] = row]
      /\ dueDep' = dep /\ dueProjects' = projects /\ now' = now
      /\ events' = {Tables!Logged(i, "created")}
  BY <1>2, <1>4, SaveAndLogDue
<1>6. Tables!Absent = Absent
  BY DEF Tables!Absent, Absent
<1> QED BY <1>3, <1>4, <1>5, <1>6 DEF Tables!CreateTx, Tables!Exists

LEMMA LabelIsTx ==
    ASSUME Ind, ~shared, NEW p \in Procs, NEW i \in Issues, NEW l \in Labels,
           AddLabel(p, i, l) \/ RemoveLabel(p, i, l)
    PROVE  \/ Tables!SetLabelsTx(i, dueIssue[i].labels \cup {l})
           \/ Tables!SetLabelsTx(i, dueIssue[i].labels \ {l})
<1>1. issue[i] \in Row /\ issue[i].status # "none" /\ issue \in [Issues -> Row]
  BY RowOf, Types DEF AddLabel, RemoveLabel, Exists, Ind, RowsTypeOK
<1>2. PICK ls \in {issue[i].labels \cup {l}, issue[i].labels \ {l}} :
          SaveAndLog(p, i, [issue[i] EXCEPT !.labels = ls], "labels")
  BY DEF AddLabel, RemoveLabel
<1>3. ls \in SUBSET LabelSet
  BY <1>1, <1>2 DEF Row, LabelSet
<1> DEFINE row == [issue[i] EXCEPT !.labels = ls]
<1>4. row \in Row /\ row.status # "none"
  BY <1>1, <1>3 DEF Row
<1>5. Begin(p, {Save(1, i, row)} \cup Log(2, NextSeq(p), i), {Named(i, "labels")})
  BY <1>2 DEF SaveAndLog
<1> HIDE DEF row
<1>6. /\ dueIssue = issue /\ dueDep = dep /\ dueProjects = projects
      /\ dueIssue' = [issue EXCEPT ![i] = row]
      /\ dueDep' = dep /\ dueProjects' = projects /\ now' = now
      /\ events' = {Tables!Logged(i, "labels")}
  BY <1>4, <1>5, SaveAndLogDue
<1>7. dueIssue' = [dueIssue EXCEPT ![i].labels = ls]
  BY <1>1, <1>6 DEF row
<1>8. Tables!SetLabelsTx(i, ls)
  BY <1>1, <1>6, <1>7 DEF Tables!SetLabelsTx, Tables!Exists
<1> QED BY <1>2, <1>6, <1>8

LEMMA TouchIsTx ==
    ASSUME Ind, ~shared, NEW p \in Procs, NEW i \in Issues, Touch(p, i)
    PROVE  \E who \in Names, ttl \in Deadlines \cup {AgentTTL} : Tables!TouchTx(i, who, ttl, now)
<1>1. /\ issue[i] \in Row /\ issue[i].status # "none" /\ issue \in [Issues -> Row]
      /\ issue[i].assignee \in Names
  BY RowOf, Types DEF Touch, Exists, Ind, RowsTypeOK, Row
<1>2. PICK ttl \in IF issue[i].kind = "human" THEN Deadlines ELSE {AgentTTL} :
            SaveAndLog(p, i, [issue[i] EXCEPT !.expires = now + ttl], "heartbeat")
  BY DEF Touch
<1>3. now + ttl \in Int
  BY <1>2, RowOf, PolicyAssumption
<1> DEFINE row == [issue[i] EXCEPT !.expires = now + ttl]
<1>4. row \in Row /\ row.status # "none"
  BY <1>1, <1>3 DEF Row
<1>5. Begin(p, {Save(1, i, row)} \cup Log(2, NextSeq(p), i), {Named(i, "heartbeat")})
  BY <1>2 DEF SaveAndLog
<1> HIDE DEF row
<1>6. /\ dueIssue = issue /\ dueDep = dep /\ dueProjects = projects
      /\ dueIssue' = [issue EXCEPT ![i] = row]
      /\ dueDep' = dep /\ dueProjects' = projects /\ now' = now
      /\ events' = {Tables!Logged(i, "heartbeat")}
  BY <1>4, <1>5, SaveAndLogDue
<1>7. dueIssue' = [dueIssue EXCEPT ![i].expires = now + ttl]
  BY <1>1, <1>6 DEF row
<1>8. (issue[i].kind = "human" => ttl \in Deadlines) /\ (issue[i].kind # "human" => ttl = AgentTTL)
  BY <1>2
<1>9. Tables!TouchTx(i, issue[i].assignee, ttl, now)
  BY <1>1, <1>6, <1>7, <1>8 DEF Tables!TouchTx, Tables!Exists
<1>10. ttl \in Deadlines \cup {AgentTTL}
  BY <1>2
<1> QED BY <1>1, <1>9, <1>10

LEMMA ReleaseIsTx ==
    ASSUME Ind, ~shared, NEW p \in Procs, NEW i \in Issues, Release(p, i)
    PROVE  Tables!ReleaseTx(i)
<1> DEFINE row == Freed(issue[i])
<1>1. issue[i] \in Row /\ RowConsistent(issue[i]) /\ issue[i].status # "none"
  BY RowOf DEF Release, Exists
<1>2. row \in Row /\ row.status # "none"
  BY <1>1, FreedFields
<1>3. Begin(p, {Save(1, i, row)} \cup Log(2, NextSeq(p), i), {Named(i, "released")})
  BY DEF Release, SaveAndLog
<1> HIDE DEF row
<1>4. /\ dueIssue = issue /\ dueDep = dep /\ dueProjects = projects
      /\ dueIssue' = [issue EXCEPT ![i] = row]
      /\ dueDep' = dep /\ dueProjects' = projects /\ now' = now
      /\ events' = {Tables!Logged(i, "released")}
  BY <1>2, <1>3, SaveAndLogDue
<1>5. Tables!Freed(issue[i]) = row
  BY DEF Tables!Freed, Freed, row
<1> QED BY <1>4, <1>5 DEF Tables!ReleaseTx

\* The blockers that are open, to the trail and to the tables.
LEMMA SameBlockers ==
    ASSUME dueIssue = issue, dueDep = dep, NEW i
    PROVE  Tables!OpenBlockers(i) = OpenBlockers(i)
BY DEF Tables!OpenBlockers, Tables!Blockers, OpenBlockers, Blockers

LEMMA CloseIsTx ==
    ASSUME Ind, ~shared, NEW p \in Procs, NEW i \in Issues, Close(p, i)
    PROVE  \E ev \in Receipts : Tables!OpenBlockers(i) = {} /\ Tables!CloseTx(i, {ev})
<1>1. issue[i] \in Row /\ issue[i].status # "none"
  BY RowOf DEF Close, Exists
<1>2. PICK ev \in Receipts : SaveAndLog(p, i, Closed(issue[i], {ev}), "closed")
  BY DEF Close
<1> DEFINE row == Closed(issue[i], {ev})
<1>3. {ev} \in SUBSET Evidence
  BY DEF Evidence
<1>4. row \in Row /\ row.status # "none"
  BY <1>1, <1>3, ClosedFields
<1>5. Begin(p, {Save(1, i, row)} \cup Log(2, NextSeq(p), i), {Named(i, "closed")})
  BY <1>2 DEF SaveAndLog
<1> HIDE DEF row
<1>6. /\ dueIssue = issue /\ dueDep = dep /\ dueProjects = projects
      /\ dueIssue' = [issue EXCEPT ![i] = row]
      /\ dueDep' = dep /\ dueProjects' = projects /\ now' = now
      /\ events' = {Tables!Logged(i, "closed")}
  BY <1>4, <1>5, SaveAndLogDue
<1>7. Tables!Closed(issue[i], {ev}) = row
  BY DEF Tables!Closed, Closed, Tables!Freed, Freed, row
<1>8. Tables!OpenBlockers(i) = {}
  BY <1>6, SameBlockers DEF Close
<1>9. Tables!CloseTx(i, {ev})
  BY <1>1, <1>6, <1>7 DEF Tables!CloseTx, Tables!Exists
<1> QED BY <1>8, <1>9

LEMMA ClaimIsTx ==
    ASSUME Ind, ~shared, NEW p \in Procs, NEW i \in Issues, NEW who \in Names, Claim(p, i, who)
    PROVE  \E k \in Kinds, ttl \in Deadlines \cup TTLRequests \cup {AgentTTL, MaxTTL} :
              Tables!ClaimTx(i, who, k, ttl, now)
<1>1. issue[i] \in Row /\ RowConsistent(issue[i]) /\ issue[i].status # "none"
      /\ ~(Held(i, now) /\ issue[i].assignee # who) /\ issue \in [Issues -> Row]
  BY RowOf, Types DEF Claim, Claimable, Exists, Ind, RowsTypeOK
<1> DEFINE k == IF who \in Humans THEN "human" ELSE "agent"
           asked == IF who \in Humans THEN Deadlines ELSE TTLRequests \cup {AgentTTL}
<1>2. PICK req \in asked :
          Begin(p, {Swap(1, i, [issue[i] EXCEPT !.assignee = who, !.kind = k,
                                               !.expires = now + Lesser(req, MaxTTL)])}
                      \cup Log(2, NextSeq(p), i), {Named(i, "claimed")})
  BY DEF Claim
<1>3. PICK ttl \in Deadlines \cup TTLRequests \cup {AgentTTL, MaxTTL} : ttl = Lesser(req, MaxTTL)
  BY DEF Lesser
<1>4. now + ttl \in Int /\ k \in Kinds
  BY RowOf, PolicyAssumption, RecordsAssumption DEF Kinds
<1> HIDE DEF k, asked
<1> DEFINE row == [issue[i] EXCEPT !.assignee = who, !.kind = k, !.expires = now + ttl]
<1>5. row \in Row /\ row.status # "none"
  <2>1. k \in Kinds \cup {"none"} /\ who \in Names \cup {NoOne}
    BY <1>4
  <2> QED BY <1>1, <1>4, <2>1 DEF Row
<1>6. /\ Begin(p, {Swap(1, i, row)} \cup Log(2, NextSeq(p), i), {Named(i, "claimed")})
      /\ Swap(1, i, row) \in {Save(1, i, row), Swap(1, i, row)}
  BY <1>2, <1>3
<1> HIDE DEF row
<1>7. /\ dueIssue = issue /\ dueDep = dep /\ dueProjects = projects
      /\ dueIssue' = [issue EXCEPT ![i] = row]
      /\ dueDep' = dep /\ dueProjects' = projects /\ now' = now
      /\ events' = {Tables!Logged(i, "claimed")}
  BY <1>5, <1>6, SaveAndLogDue
<1>8. dueIssue' = [dueIssue EXCEPT ![i] = [@ EXCEPT !.assignee = who, !.kind = k,
                                                    !.expires = now + ttl]]
  BY <1>1, <1>7 DEF row
<1>9. Tables!Held(i, now) = Held(i, now)
  BY <1>7 DEF Tables!Held, Held
<1>10. Tables!ClaimTx(i, who, k, ttl, now)
  BY <1>1, <1>7, <1>8, <1>9 DEF Tables!ClaimTx, Tables!Exists
<1> QED BY <1>3, <1>4, <1>10

LEMMA UpdateIsTx ==
    ASSUME Ind, ~shared, NEW p \in Procs, NEW i \in Issues, Update(p, i)
    PROVE  \E st \in Statuses :
              Tables!UpdateTx(i, st, dueIssue[i].evidence, Tables!DeferredTo(i, now))
<1>1. PICK st \in PatchStatuses :
        LET row == [issue[i] EXCEPT !.status = st, !.available = DeferredTo(i, now)]
            moved == {Save(1, i, row)} \cup Log(2, NextSeq(p), i)
        IN  IF st = issue[i].status THEN Begin(p, moved, {Named(i, "updated")})
            ELSE Begin(p, moved \cup Log(4, NextSeq(p) + 1, i),
                       {Named(i, "updated"), Named(i, "status")})
  BY DEF Update
<1> DEFINE row == [issue[i] EXCEPT !.status = st, !.available = DeferredTo(i, now)]
           save == Save(1, i, row)
           one == {save} \cup Log(2, NextSeq(p), i)
           two == one \cup Log(4, NextSeq(p) + 1, i)
           told == IF st = issue[i].status THEN {Named(i, "updated")}
                   ELSE {Named(i, "updated"), Named(i, "status")}
<1>2. issue[i] \in Row /\ issue[i].status # "none" /\ issue \in [Issues -> Row]
      /\ NextSeq(p) \in Nat \ {0} /\ NextSeq(p) + 1 \in Nat \ {0}
  BY RowOf, Types DEF Update, Exists, Ind, RowsTypeOK, NextSeq
<1>3. st \in Statuses /\ st # "none" /\ DeferredTo(i, now) \in Int
  BY <1>2, RowOf, RecordsAssumption, PolicyAssumption DEF DeferredTo, Greater, Row, Statuses
<1>4. row \in Row /\ row.status = st
  BY <1>2, <1>3 DEF Row
<1>5. row = [issue[i] EXCEPT !.status = st, !.evidence = issue[i].evidence,
                             !.available = DeferredTo(i, now)]
  BY <1>2 DEF Row
<1> HIDE DEF row
<1>6. save.kind = "issue" /\ save.id = i /\ save.row = row /\ save.turn \in Nat
  BY <1>4, SaveIs
<1>7. PICK T \in {one, two} : Begin(p, T, told)
  BY <1>1 DEF row
<1> HIDE DEF save, told
<1>8. save \in T /\ \A b \in T : b = save \/ b.kind \in {"audit", "outbound"}
  BY <1>7, LogKinds
<1>9. /\ dueIssue = issue /\ dueDep = dep /\ dueProjects = projects
      /\ dueIssue' = [issue EXCEPT ![save.id] = save.row]
      /\ dueDep' = dep /\ dueProjects' = projects /\ now' = now /\ events' = told
  <2>1. save.id \in Issues
    BY <1>6
  <2> HIDE DEF one, two
  <2> QED BY <1>6, <1>7, <1>8, <2>1, OneRowDue
<1>10. \A e : Tables!Logged(i, e) = Named(i, e)
  <2>1. dueIssue'[i].status # "none"
    BY <1>2, <1>3, <1>4, <1>6, <1>9
  <2> QED BY <2>1, LoggedAsNamed
<1>11. events' = {Tables!Logged(i, "updated")}
          \cup (IF st # dueIssue[i].status THEN {Tables!Logged(i, "status")} ELSE {})
  BY <1>9, <1>10 DEF told
<1>12. Tables!DeferredTo(i, now) = DeferredTo(i, now)
  BY <1>9 DEF Tables!DeferredTo, DeferredTo, Tables!Greater, Greater
<1>13. dueIssue' = [dueIssue EXCEPT ![i] =
           [@ EXCEPT !.status = st, !.evidence = dueIssue[i].evidence,
                     !.available = Tables!DeferredTo(i, now)]]
  BY <1>2, <1>5, <1>6, <1>9, <1>12
<1>14. Tables!UpdateTx(i, st, dueIssue[i].evidence, Tables!DeferredTo(i, now))
  BY <1>2, <1>9, <1>11, <1>13 DEF Tables!UpdateTx, Tables!Exists
<1> QED BY <1>3, <1>14

LEMMA NoRowDue ==
    ASSUME Ind, issue' = issue, Flight("issue")' = {}
    PROVE  dueIssue' = issue
<1>1. \A i \in Issues : RowAfter(issue[i], {b \in {} : b.id = i}) = issue[i]
  BY DEF RowAfter
<1>2. dueIssue' = [i \in Issues |-> RowAfter(issue[i], {b \in {} : b.id = i})]
  BY DEF dueIssue
<1>3. issue \in [Issues -> Row]
  BY DEF Ind, TypeInv, TypeOK, RowsTypeOK
<1> QED BY <1>1, <1>2, <1>3

LEMMA EnsureProjectIsTx ==
    ASSUME Ind, ~shared, NEW p \in Procs, NEW s \in Projects, EnsureProject(p, s)
    PROVE  Tables!EnsureProjectTx(s)
<1> DEFINE a == Project(1, s, TRUE)
<1>1. a.kind = "project" /\ a.slug = s /\ a.live
  BY DEF Project
<1>2. Begin(p, {a}, {})
  BY DEF EnsureProject
<1> HIDE DEF a
<1>3. /\ dueIssue = issue /\ dueDep = dep /\ dueProjects = projects
      /\ \A k : Flight(k)' = {b \in {a} : b.kind = k}
      /\ UNCHANGED <<now, projects, issue, dep>> /\ events' = {}
  BY <1>2, BeginDue
<1>4. Flight("project")' = {a} /\ Flight("issue")' = {} /\ Flight("dep")' = {}
  BY <1>1, <1>3
<1>5. dueProjects' = projects \cup {s}
  BY <1>1, <1>3, <1>4 DEF dueProjects
<1>6. dueDep' = dep
  BY <1>3, <1>4 DEF dueDep
<1>7. dueIssue' = issue
  BY <1>3, <1>4, NoRowDue
<1> QED BY <1>3, <1>5, <1>6, <1>7 DEF Tables!EnsureProjectTx

\* A delivery is of the outbox alone.
LEMMA MarkEventStutters ==
    ASSUME Ind, ~shared, NEW p \in Procs, NEW n \in Seqs, MarkEvent(p, n)
    PROVE  UNCHANGED dueRows
<1>1. PICK s \in {"delivered", "failed"} : Begin(p, {Delivery(1, n, s)}, events)
  BY DEF MarkEvent
<1> DEFINE a == Delivery(1, n, s)
<1>2. a.kind = "delivery"
  BY DEF Delivery
<1>3. Begin(p, {a}, events)
  BY <1>1
<1> HIDE DEF a
<1>4. /\ dueIssue = issue /\ dueDep = dep /\ dueProjects = projects
      /\ \A k : Flight(k)' = {b \in {a} : b.kind = k}
      /\ UNCHANGED <<now, projects, issue, dep>> /\ events' = events
  BY <1>3, BeginDue
<1>5. Flight("project")' = {} /\ Flight("issue")' = {} /\ Flight("dep")' = {}
  BY <1>2, <1>4
<1>6. dueProjects' = projects /\ dueDep' = dep
  BY <1>4, <1>5 DEF dueProjects, dueDep
<1>7. dueIssue' = issue
  BY <1>4, <1>5, NoRowDue
<1> QED BY <1>4, <1>6, <1>7 DEF dueRows

\* The second save of a supersede is the one that counts.
LEMMA SupersedeIsTx ==
    ASSUME Ind, ~shared, NEW p \in Procs, NEW i \in Issues, NEW r \in Issues, Supersede(p, i, r)
    PROVE  Tables!SupersedeTx(i, r)
<1> DEFINE s1 == Save(1, i, Closed(issue[i], {Ack(r)}))
           s4 == Save(4, i, Superseded(issue[i], r))
           one == {s1} \cup Log(2, NextSeq(p), i)
           two == one \cup ({s4} \cup Log(5, NextSeq(p) + 1, i))
           told == Pointer(r) \in issue[i].labels
           row == Superseded(issue[i], r)
<1>1. /\ issue[i] \in Row /\ issue[i].status # "none" /\ issue[r].status # "none"
      /\ issue \in [Issues -> Row] /\ {Ack(r)} \in SUBSET Evidence
      /\ NextSeq(p) \in Nat \ {0} /\ NextSeq(p) + 1 \in Nat \ {0}
  BY RowOf, Types DEF Ind, RowsTypeOK, Evidence, NextSeq, Supersede, Exists
<1>2. Closed(issue[i], {Ack(r)}) \in Row /\ row \in Row /\ row.status = "closed"
  BY <1>1, ClosedFields, SupersededFields
<1>3. told => Closed(issue[i], {Ack(r)}) = row
  <2> DEFINE closed == Closed(issue[i], {Ack(r)})
  <2>1. closed \in Row /\ closed.labels = issue[i].labels
    BY <1>1, <1>2 DEF Closed, Freed, Row
  <2>2. row = [closed EXCEPT !.labels = closed.labels \cup {Pointer(r)}]
    BY <2>1 DEF Superseded
  <2> HIDE DEF closed, row
  <2>3. ASSUME told PROVE closed.labels \cup {Pointer(r)} = closed.labels
    BY <2>1, <2>3
  <2> QED BY <2>1, <2>2, <2>3 DEF Row, closed
<1>4. /\ s1.kind = "issue" /\ s1.id = i /\ s1.turn = 1 /\ s1.row = Closed(issue[i], {Ack(r)})
      /\ s4.kind = "issue" /\ s4.id = i /\ s4.turn = 4 /\ s4.row = row
  BY DEF Save
<1>5. /\ \A b \in Log(2, NextSeq(p), i) : b.kind \in {"audit", "outbound"}
      /\ \A b \in Log(5, NextSeq(p) + 1, i) : b.kind \in {"audit", "outbound"}
  BY LogKinds
<1>6. /\ told => Begin(p, one, {Named(i, "closed")})
      /\ ~told => Begin(p, two, {Named(i, "closed"), Named(i, "labels")})
  BY DEF Supersede
<1> HIDE DEF s1, s4, row, told
<1>7. CASE told
  <2>1. s1 \in one /\ \A b \in one : b = s1 \/ b.kind \in {"audit", "outbound"}
    BY <1>5
  <2>2. Begin(p, one, {Named(i, "closed")}) /\ s1.id \in Issues /\ s1.turn \in Nat
    BY <1>4, <1>6, <1>7
  <2> HIDE DEF one
  <2>3. /\ dueIssue = issue /\ dueDep = dep /\ dueProjects = projects
        /\ dueIssue' = [issue EXCEPT ![s1.id] = s1.row]
        /\ dueDep' = dep /\ dueProjects' = projects /\ now' = now
        /\ events' = {Named(i, "closed")}
    BY <1>4, <2>1, <2>2, OneRowDue
  <2>4. dueIssue' = [issue EXCEPT ![i] = row]
    BY <1>3, <1>4, <1>7, <2>3
  <2>5. Tables!Logged(i, "closed") = Named(i, "closed")
    <3>1. dueIssue'[i].status # "none"
      BY <1>1, <1>2, <2>4
    <3> QED BY <3>1, LoggedAsNamed
  <2>6. Tables!Superseded(issue[i], r) = row
    BY DEF Tables!Superseded, Superseded, Tables!Closed, Closed, Tables!Freed, Freed,
           Tables!Ack, Ack, Tables!Pointer, Pointer, row
  <2>7. Tables!Pointer(r) \in dueIssue[i].labels
    BY <1>7, <2>3 DEF Tables!Pointer, Pointer, told
  <2> QED BY <1>1, <2>3, <2>4, <2>5, <2>6, <2>7 DEF Tables!SupersedeTx, Tables!Exists
<1>8. CASE ~told
  <2>1. /\ s1 \in two /\ s4 \in two
        /\ \A b \in two : b = s1 \/ b = s4 \/ b.kind \in {"audit", "outbound"}
    BY <1>5
  <2>2. Begin(p, two, {Named(i, "closed"), Named(i, "labels")})
    BY <1>6, <1>8
  <2> HIDE DEF one, two
  <2>3. /\ dueIssue = issue /\ dueDep = dep /\ dueProjects = projects
        /\ \A k : Flight(k)' = {a \in two : a.kind = k}
        /\ UNCHANGED <<now, projects, issue, dep>>
        /\ events' = {Named(i, "closed"), Named(i, "labels")}
    BY <2>2, BeginDue
  <2>4. Flight("issue")' = {s1, s4} /\ Flight("dep")' = {} /\ Flight("project")' = {}
    BY <1>4, <2>1, <2>3
  <2>5. dueDep' = dep /\ dueProjects' = projects
    BY <2>3, <2>4 DEF dueDep, dueProjects
  <2>6. ASSUME NEW j \in Issues
        PROVE  RowAfter(issue[j], {b \in {s1, s4} : b.id = j}) = IF j = i THEN row ELSE issue[j]
    <3>1. CASE j = i
      <4>1. {b \in {s1, s4} : b.id = j} = {s1, s4}
        BY <1>4, <3>1
      <4> DEFINE S == {s1, s4}
      <4>2. s4 \in S /\ \A b \in S : b.turn <= s4.turn
        BY <1>4
      <4>3. \A b \in S : b.turn \in Nat
        BY <1>4
      <4>4. \A b, c \in S : b.turn = c.turn => b = c
        BY <1>4
      <4> HIDE DEF S
      <4>5. RowAfter(issue[j], S) = s4.row
        BY <4>2, <4>3, <4>4, RowAfterLast
      <4> QED BY <1>4, <3>1, <4>1, <4>5 DEF S
    <3>2. CASE j # i
      <4>1. {b \in {s1, s4} : b.id = j} = {}
        BY <1>4, <3>2
      <4> QED BY <3>2, <4>1 DEF RowAfter
    <3> QED BY <3>1, <3>2
  <2>7. dueIssue' = [j \in Issues |-> RowAfter(issue[j], {b \in {s1, s4} : b.id = j})]
    BY <2>3, <2>4 DEF dueIssue
  <2>8. dueIssue' = [j \in Issues |-> IF j = i THEN row ELSE issue[j]]
    BY <2>6, <2>7
  <2>9. dueIssue' = [issue EXCEPT ![i] = row]
    BY <1>1, <2>8
  <2>10. \A e : Tables!Logged(i, e) = Named(i, e)
    <3>1. dueIssue'[i].status # "none"
      BY <1>1, <1>2, <2>9
    <3> QED BY <3>1, LoggedAsNamed
  <2>11. Tables!Superseded(issue[i], r) = row
    BY DEF Tables!Superseded, Superseded, Tables!Closed, Closed, Tables!Freed, Freed,
           Tables!Ack, Ack, Tables!Pointer, Pointer, row
  <2>12. Tables!Pointer(r) \notin dueIssue[i].labels
    BY <1>8, <2>3 DEF Tables!Pointer, Pointer, told
  <2>13. events' = {Tables!Logged(i, "closed")} \cup {Tables!Logged(i, "labels")}
    BY <2>3, <2>10
  <2> QED BY <1>1, <2>3, <2>5, <2>9, <2>11, <2>12, <2>13 DEF Tables!SupersedeTx, Tables!Exists
<1> QED BY <1>7, <1>8

\* The edge is added and the issue saved as it was read.
LEMMA AddDepIsTx ==
    ASSUME Ind, ~shared, NEW p \in Procs, NEW c \in Issues, NEW b \in Issues, AddDep(p, c, b)
    PROVE  Tables!AddDepTx(c, b)
<1> DEFINE edge == Edge(1, <<c, b>>, TRUE)
           save == Save(2, c, issue[c])
           T == {edge, save} \cup Log(3, NextSeq(p), c)
<1>1. issue[c] \in Row /\ NextSeq(p) \in Nat \ {0} /\ issue \in [Issues -> Row]
  BY RowOf, Types DEF Ind, NextSeq, RowsTypeOK
<1>2. edge.kind = "dep" /\ edge.edge = <<c, b>> /\ edge.live
  BY DEF Edge
<1>3. save.kind = "issue" /\ save.id = c /\ save.row = issue[c] /\ save.turn \in Nat
  BY <1>1, SaveIs
<1>4. /\ Begin(p, T, {Named(c, "depends_on")})
      /\ issue[c].status # "none" /\ issue[b].status # "none"
      /\ c # b /\ c \notin Reach(dep, b)
  BY DEF AddDep, Exists, Refused
<1>5. \A a \in Log(3, NextSeq(p), c) : a.kind \in {"audit", "outbound"}
  BY LogKinds
<1> HIDE DEF edge, save
<1>6. /\ edge \in T /\ save \in T
      /\ \A a \in T : a = edge \/ a = save \/ a.kind \in {"audit", "outbound"}
  BY <1>5
<1> HIDE DEF T
<1>7. /\ dueIssue = issue /\ dueDep = dep /\ dueProjects = projects
      /\ \A k : Flight(k)' = {a \in T : a.kind = k}
      /\ UNCHANGED <<now, projects, issue, dep>> /\ events' = {Named(c, "depends_on")}
  BY <1>4, BeginDue
<1>8. Flight("issue")' = {save} /\ Flight("dep")' = {edge} /\ Flight("project")' = {}
  BY <1>2, <1>3, <1>6, <1>7
<1>9. dueProjects' = projects
  BY <1>7, <1>8 DEF dueProjects
<1>10. dueDep' = dep \cup {<<c, b>>}
  <2>1. {a.edge : a \in {d \in {edge} : d.live}} = {<<c, b>>} /\ {d \in {edge} : ~d.live} = {}
    BY <1>2
  <2> QED BY <1>7, <1>8, <2>1 DEF dueDep
<1>11. dueIssue' = issue
  <2>1. ASSUME NEW i \in Issues
        PROVE  RowAfter(issue[i], {a \in {save} : a.id = i}) = issue[i]
    <3>1. CASE i = c
      <4>1. {a \in {save} : a.id = i} = {save}
        BY <1>3, <3>1
      <4> QED BY <1>3, <3>1, <4>1, RowAfterOne
    <3>2. CASE i # c
      <4>1. {a \in {save} : a.id = i} = {}
        BY <1>3, <3>2
      <4> QED BY <4>1 DEF RowAfter
    <3> QED BY <3>1, <3>2
  <2>2. dueIssue' = [i \in Issues |-> RowAfter(issue[i], {a \in {save} : a.id = i})]
    BY <1>7, <1>8 DEF dueIssue
  <2>3. dueIssue' = [i \in Issues |-> issue[i]]
    BY <2>1, <2>2
  <2> QED BY <1>1, <2>3
<1>12. Tables!Logged(c, "depends_on") = Named(c, "depends_on")
  BY <1>4, <1>11, LoggedAsNamed
<1>13. Tables!Reach(dueDep, b) = Reach(dep, b)
  BY <1>7 DEF Tables!Reach, Reach
<1> QED BY <1>4, <1>7, <1>9, <1>10, <1>11, <1>12, <1>13 DEF Tables!AddDepTx, Tables!Exists

LEMMA RemoveDepIsTx ==
    ASSUME Ind, ~shared, NEW p \in Procs, NEW c \in Issues, NEW b \in Issues, RemoveDep(p, c, b)
    PROVE  Tables!RemoveDepTx(c, b)
<1> DEFINE edge == Edge(1, <<c, b>>, FALSE)
           T == {edge} \cup Log(2, NextSeq(p), c)
<1>1. NextSeq(p) \in Nat \ {0}
  BY Types DEF Ind, NextSeq
<1>2. edge.kind = "dep" /\ edge.edge = <<c, b>> /\ ~edge.live
  BY DEF Edge
<1>3. Begin(p, T, {Named(c, "unblocked_from")}) /\ issue[c].status # "none"
  <2>1. <<c, b>> \in dep
    BY DEF RemoveDep
  <2>2. <<c, b>>[1] = c
    OBVIOUS
  <2> QED BY <2>1, <2>2 DEF RemoveDep, Ind, EdgesResolve, Exists
<1>4. \A a \in Log(2, NextSeq(p), c) : a.kind \in {"audit", "outbound"}
  BY LogKinds
<1> HIDE DEF edge
<1>5. edge \in T /\ \A a \in T : a = edge \/ a.kind \in {"audit", "outbound"}
  BY <1>4
<1> HIDE DEF T
<1>6. /\ dueIssue = issue /\ dueDep = dep /\ dueProjects = projects
      /\ \A k : Flight(k)' = {a \in T : a.kind = k}
      /\ UNCHANGED <<now, projects, issue, dep>> /\ events' = {Named(c, "unblocked_from")}
  BY <1>3, BeginDue
<1>7. Flight("issue")' = {} /\ Flight("dep")' = {edge} /\ Flight("project")' = {}
  BY <1>2, <1>5, <1>6
<1>8. dueProjects' = projects
  BY <1>6, <1>7 DEF dueProjects
<1>9. dueDep' = dep \ {<<c, b>>}
  BY <1>2, <1>6, <1>7 DEF dueDep
<1>10. dueIssue' = issue
  BY <1>6, <1>7, NoRowDue
<1>11. Tables!Logged(c, "unblocked_from") = Named(c, "unblocked_from")
  BY <1>3, <1>10, LoggedAsNamed
<1> QED BY <1>6, <1>8, <1>9, <1>10, <1>11 DEF Tables!RemoveDepTx

\* Requeued or only reported, each lapsed claim as the tables' sweep has it.
LEMMA SweepIsTx ==
    ASSUME Ind, ~shared, NEW p \in Procs, Sweep(p)
    PROVE  Tables!SweepTx(now)
<1> DEFINE lapsed == {i \in Issues : Lapsed(i, now)}
           human == {i \in lapsed : issue[i].kind = "human"}
           name(i) == IF Requeued(i) THEN "claim_expired" ELSE "escalated"
<1>1. PICK rank \in Bijection(lapsed, 1 .. Cardinality(lapsed)) :
          Begin(p, {Save(3 * rank[i], i, Freed(issue[i])) : i \in {j \in lapsed : Requeued(j)}}
                   \cup UNION {Log(3 * rank[i] + 1, proc[p].seq + rank[i], i) : i \in lapsed},
                {Named(i, name(i)) : i \in lapsed})
  BY DEF Sweep
<1> DEFINE S(i) == Save(3 * rank[i], i, Freed(issue[i]))
           saves == {S(i) : i \in {j \in lapsed : Requeued(j)}}
           logs == UNION {Log(3 * rank[i] + 1, proc[p].seq + rank[i], i) : i \in lapsed}
           T == saves \cup logs
<1>2. /\ \A i \in lapsed : rank[i] \in Nat \ {0} /\ i \in Issues
      /\ proc[p].seq \in Nat /\ issue \in [Issues -> Row]
  <2>1. IsFiniteSet(lapsed)
    BY RecordsAssumption, FS_Subset
  <2>2. Cardinality(lapsed) \in Nat
    BY <2>1, FS_CardinalityType
  <2> HIDE DEF lapsed
  <2>3. rank \in [lapsed -> 1 .. Cardinality(lapsed)]
    BY <1>1 DEF Bijection, Injection
  <2>4. \A i \in lapsed : rank[i] \in Nat \ {0}
    BY <2>2, <2>3
  <2> QED BY <2>4, Types DEF Ind, RowsTypeOK, lapsed
<1>3. \A i \in lapsed : Requeued(i) <=> i \notin human
  BY DEF Requeued
<1>4. ASSUME NEW i \in lapsed
      PROVE  /\ S(i).kind = "issue" /\ S(i).id = i /\ S(i).row = Freed(issue[i])
             /\ S(i).turn \in Nat
             /\ issue[i].status # "none" /\ Freed(issue[i]).status # "none"
  <2>1. issue[i] \in Row /\ issue[i].assignee # NoOne /\ issue[i].status # "none"
    <3>1. Absent.assignee = NoOne
      BY DEF Absent
    <3> QED BY <1>2, <3>1, RowOf DEF Lapsed, RowConsistent
  <2>2. Freed(issue[i]) \in Row /\ Freed(issue[i]).status # "none"
    BY <2>1, FreedFields
  <2>3. 3 * rank[i] \in Nat
    BY <1>2
  <2> QED BY <1>2, <2>1, <2>2, <2>3, SaveIs
<1>5. \A a \in logs : a.kind \in {"audit", "outbound"}
  <2>1. ASSUME NEW i \in lapsed
        PROVE  \A a \in Log(3 * rank[i] + 1, proc[p].seq + rank[i], i) :
                  a.kind \in {"audit", "outbound"}
    BY LogKinds
  <2> QED BY <2>1
<1>6. Begin(p, T, {Named(i, name(i)) : i \in lapsed})
  BY <1>1
<1> HIDE DEF logs, S
<1>7. {a \in T : a.kind = "issue"} = saves
      /\ {a \in T : a.kind = "dep"} = {} /\ {a \in T : a.kind = "project"} = {}
  <2>1. \A a \in saves : a.kind = "issue"
    BY <1>4
  <2> HIDE DEF saves
  <2> QED BY <1>5, <2>1
<1> HIDE DEF T
<1>8. /\ dueIssue = issue /\ dueDep = dep /\ dueProjects = projects
      /\ \A k : Flight(k)' = {a \in T : a.kind = k}
      /\ UNCHANGED <<now, projects, issue, dep>>
      /\ events' = {Named(i, name(i)) : i \in lapsed}
  BY <1>6, BeginDue
<1>9. Flight("issue")' = saves /\ Flight("dep")' = {} /\ Flight("project")' = {}
  BY <1>7, <1>8
<1>10. dueDep' = dep /\ dueProjects' = projects
  BY <1>8, <1>9 DEF dueDep, dueProjects
<1> HIDE DEF human, name
<1>11. ASSUME NEW i \in Issues
       PROVE  RowAfter(issue[i], {a \in saves : a.id = i})
                 = IF i \in lapsed \ human THEN Freed(issue[i]) ELSE issue[i]
  <2>1. CASE i \in lapsed \ human
    <3>1. \A a \in saves : a.id = i => a = S(i)
      BY <1>4
    <3>2. S(i) \in saves
      BY <1>3, <2>1
    <3> HIDE DEF saves, lapsed
    <3>3. S(i).id = i /\ S(i).row = Freed(issue[i]) /\ S(i).turn \in Nat
      BY <1>4, <2>1
    <3>4. {a \in saves : a.id = i} = {S(i)}
      BY <3>1, <3>2, <3>3
    <3> QED BY <2>1, <3>3, <3>4, RowAfterOne
  <2>2. CASE i \notin lapsed \ human
    <3>1. \A a \in saves : a.id # i
      BY <1>3, <1>4, <2>2
    <3>2. {a \in saves : a.id = i} = {}
      BY <3>1
    <3> HIDE DEF saves, lapsed
    <3> QED BY <2>2, <3>2 DEF RowAfter
  <2> QED BY <2>1, <2>2
<1>12. dueIssue' = [i \in Issues |-> RowAfter(issue[i], {a \in saves : a.id = i})]
  BY <1>8, <1>9 DEF dueIssue
<1>13. dueIssue' = [i \in Issues |-> IF i \in lapsed \ human THEN Freed(issue[i]) ELSE issue[i]]
  <2> HIDE DEF saves, lapsed
  <2> QED BY <1>11, <1>12
<1>14. \A i \in lapsed : \A e : Tables!Logged(i, e) = Named(i, e)
  <2>1. ASSUME NEW i \in lapsed PROVE dueIssue'[i].status # "none"
    BY <1>2, <1>4, <1>13
  <2> QED BY <2>1, LoggedAsNamed
<1>15. events' = {Tables!Logged(i, "escalated") : i \in human}
                    \cup {Tables!Logged(i, "claim_expired") : i \in lapsed \ human}
  <2>1. \A i \in lapsed : name(i) = IF i \in human THEN "escalated" ELSE "claim_expired"
    BY <1>3 DEF name
  <2>2. human \subseteq lapsed
    BY DEF human
  <2>3. \A i \in human : Tables!Logged(i, "escalated") = Named(i, name(i))
    BY <1>14, <2>1, <2>2
  <2>4. \A i \in lapsed \ human : Tables!Logged(i, "claim_expired") = Named(i, name(i))
    BY <1>14, <2>1
  <2> DEFINE N(i) == Named(i, name(i))
             E(i) == Tables!Logged(i, "escalated")
             X(i) == Tables!Logged(i, "claim_expired")
  <2>5. events' = {N(i) : i \in lapsed}
    BY <1>8
  <2>6. (\A i \in human : E(i) = N(i)) /\ (\A i \in lapsed \ human : X(i) = N(i))
    BY <2>3, <2>4
  <2> HIDE DEF N, E, X, lapsed
  <2>7. events' = {E(i) : i \in human} \cup {X(i) : i \in lapsed \ human}
    BY <2>2, <2>5, <2>6
  <2> QED BY <2>7 DEF E, X
<1>16. /\ lapsed = {i \in Issues : Tables!Lapsed(i, now)}
       /\ human = {i \in lapsed : dueIssue[i].kind = "human"}
       /\ \A i : Tables!Freed(dueIssue[i]) = Freed(issue[i])
  BY <1>8 DEF Tables!Lapsed, Lapsed, human, Tables!Freed, Freed
<1> HIDE DEF lapsed, saves
<1>17. dueIssue' = [i \in Issues |-> IF i \in lapsed \ human THEN Tables!Freed(dueIssue[i])
                                     ELSE dueIssue[i]]
  BY <1>8, <1>13, <1>16
<1> QED BY <1>8, <1>10, <1>15, <1>16, <1>17 DEF Tables!SweepTx

\* A drop tombstones what is there, and an edge of the project is an edge of a row that is.
LEMMA DropIsTx ==
    ASSUME Ind, ~shared, NEW p \in Procs, NEW s \in Projects, DropProject(p, s)
    PROVE  Tables!DropProjectTx(s)
<1> DEFINE mine == Drops(s)
           evs == {n \in Seqs : audit[n] \in mine}
           sent == {n \in evs : outbox[n] \notin {Unused, Gone}}
           cut == {d \in dep : {d[1], d[2]} \cap mine # {}}
           T == DropWrites(s)
           edgeCut(e) == Edge(3, e, FALSE)
           rowCut(i) == Tombstone(4, i)
           last == Project(5, s, FALSE)
           edges == {edgeCut(e) : e \in cut}
           rows == {rowCut(i) : i \in mine}
           sentCut(n) == CutOutbound(1, n)
           eventCut(n) == CutAudit(2, n)
           cuts == {sentCut(n) : n \in sent} \cup {eventCut(n) : n \in evs}
<1>1. Begin(p, T, {}) /\ s \in projects
  BY DEF DropProject
<1>2. T = cuts \cup edges \cup rows \cup {last}
  BY DEF DropWrites
<1>3. \A a \in cuts : a.kind \in {"cut audit", "cut outbound"}
  <2>1. \A n : sentCut(n).kind = "cut outbound" /\ eventCut(n).kind = "cut audit"
    BY DEF CutOutbound, CutAudit
  <2> HIDE DEF sentCut, eventCut, sent, evs
  <2> QED BY <2>1
<1>4. \A e : edgeCut(e).kind = "dep" /\ edgeCut(e).edge = e /\ ~edgeCut(e).live
  BY DEF Edge
<1>5. \A i : /\ rowCut(i).kind = "issue" /\ rowCut(i).id = i /\ rowCut(i).row = Absent
             /\ rowCut(i).turn = 4
  BY DEF Tombstone, Save
<1>6. last.kind = "project" /\ last.slug = s /\ ~last.live
  BY DEF Project
<1>7. /\ mine = {i \in Issues : ProjectOf[i] = s /\ issue[i].status # "none"}
      /\ issue \in [Issues -> Row] /\ dep \subseteq Issues \X Issues
      /\ \A i \in Issues : issue[i].status = "none" => issue[i] = Absent
      /\ \A e \in dep : issue[e[1]].status # "none" /\ issue[e[2]].status # "none"
  BY Types DEF Drops, Exists, Ind, RowsTypeOK, RowConsistent, EdgesResolve
<1> HIDE DEF cuts, edgeCut, rowCut, last, T, mine
<1>8. /\ \A a \in edges : a.kind = "dep"
      /\ \A a \in rows : a.kind = "issue"
  BY <1>4, <1>5
<1>9. /\ dueIssue = issue /\ dueDep = dep /\ dueProjects = projects
      /\ \A k : Flight(k)' = {a \in T : a.kind = k}
      /\ UNCHANGED <<now, projects, issue, dep>> /\ events' = {}
  BY <1>1, BeginDue
<1>10. Flight("issue")' = rows /\ Flight("dep")' = edges /\ Flight("project")' = {last}
  <2> HIDE DEF edges, rows
  <2> QED BY <1>2, <1>3, <1>6, <1>8, <1>9
<1>11. dueProjects' = projects \ {s}
  BY <1>6, <1>9, <1>10 DEF dueProjects
<1>12. dueDep' = dep \ cut
  <2>1. /\ \A b \in edges : ~b.live /\ b.edge \in cut
        /\ \A e \in cut : edgeCut(e) \in edges /\ edgeCut(e).edge = e
    <3> HIDE DEF cut
    <3> QED BY <1>4
  <2> HIDE DEF edges, cut
  <2> QED BY <1>9, <1>10, <2>1 DEF dueDep
<1>13. ASSUME NEW i \in Issues
       PROVE  RowAfter(issue[i], {a \in rows : a.id = i})
                 = IF ProjectOf[i] = s THEN Absent ELSE issue[i]
  <2>1. CASE i \in mine
    <3>1. {a \in rows : a.id = i} = {rowCut(i)}
      BY <1>5, <2>1
    <3>2. rowCut(i).turn \in Nat /\ rowCut(i).row = Absent
      BY <1>5
    <3> HIDE DEF rows
    <3> QED BY <1>7, <2>1, <3>1, <3>2, RowAfterOne
  <2>2. CASE i \notin mine
    <3>1. {a \in rows : a.id = i} = {}
      BY <1>5, <2>2
    <3> HIDE DEF rows
    <3> QED BY <1>7, <2>2, <3>1 DEF RowAfter
  <2> QED BY <2>1, <2>2
<1>14. dueIssue' = [i \in Issues |-> RowAfter(issue[i], {a \in rows : a.id = i})]
  BY <1>9, <1>10 DEF dueIssue
<1> HIDE DEF rows, edges
<1> DEFINE all == {i \in Issues : ProjectOf[i] = s}
<1>15. dueIssue' = [i \in Issues |-> IF i \in all THEN Absent ELSE issue[i]]
  BY <1>13, <1>14
<1>16. dueDep' = {e \in dep : e[1] \notin all /\ e[2] \notin all}
  <2>1. \A e \in dep : e \in cut <=> e[1] \in all \/ e[2] \in all
    BY <1>7
  <2> HIDE DEF all, cut
  <2> QED BY <1>12, <2>1
<1>17. Tables!Absent = Absent
  BY DEF Tables!Absent, Absent
<1> QED BY <1>1, <1>9, <1>11, <1>15, <1>16, <1>17 DEF Tables!DropProjectTx

\* An operation of the one process is a transaction of the tables, or marks a delivery.
LEMMA OperationIsTx ==
    ASSUME Ind, ~shared, NEW p \in Procs, Operation(p)
    PROVE  Transaction \/ UNCHANGED dueRows
<1>1. CASE \E s \in Projects : EnsureProject(p, s) \/ DropProject(p, s)
  BY <1>1, EnsureProjectIsTx, DropIsTx DEF Transaction
<1>2. ASSUME NEW i \in Issues, Create(p, i)
      PROVE  Transaction
  BY <1>2, CreateIsTx DEF Transaction
<1>3. ASSUME NEW i \in Issues, Update(p, i)
      PROVE  Transaction
  BY <1>3, UpdateIsTx DEF Transaction
<1>4. ASSUME NEW i \in Issues, Touch(p, i)
      PROVE  Transaction
  <2>1. PICK who \in Names, ttl \in Deadlines \cup {AgentTTL} : Tables!TouchTx(i, who, ttl, now)
    BY <1>4, TouchIsTx
  <2>2. ttl \in Deadlines \cup TTLRequests \cup {AgentTTL, MaxTTL} /\ "agent" \in Kinds
    BY DEF Kinds
  <2> QED BY <2>1, <2>2 DEF Transaction
<1>5. ASSUME NEW i \in Issues, Release(p, i)
      PROVE  Transaction
  BY <1>5, ReleaseIsTx DEF Transaction
<1>6. ASSUME NEW i \in Issues, Close(p, i)
      PROVE  Transaction
  BY <1>6, CloseIsTx DEF Transaction
<1>7. ASSUME NEW i \in Issues, NEW l \in Labels, AddLabel(p, i, l) \/ RemoveLabel(p, i, l)
      PROVE  Transaction
  BY <1>7, LabelIsTx DEF Transaction
<1>8. ASSUME NEW i \in Issues, NEW b \in Issues,
             AddDep(p, i, b) \/ RemoveDep(p, i, b) \/ Supersede(p, i, b)
      PROVE  Transaction
  <2>1. Tables!AddDepTx(i, b) \/ Tables!RemoveDepTx(i, b) \/ Tables!SupersedeTx(i, b)
    BY <1>8, AddDepIsTx, RemoveDepIsTx, SupersedeIsTx
  <2> QED BY <2>1 DEF Transaction
<1>9. ASSUME NEW i \in Issues, NEW who \in Names, Claim(p, i, who)
      PROVE  Transaction
  <2>1. PICK k \in Kinds, ttl \in Deadlines \cup TTLRequests \cup {AgentTTL, MaxTTL} :
            Tables!ClaimTx(i, who, k, ttl, now)
    BY <1>9, ClaimIsTx
  <2> QED BY <2>1 DEF Transaction
<1>10. CASE Sweep(p)
  BY <1>10, SweepIsTx DEF Transaction
<1>11. CASE \E n \in Seqs : MarkEvent(p, n)
  BY <1>11, MarkEventStutters
<1> QED BY <1>1, <1>2, <1>3, <1>4, <1>5, <1>6, <1>7, <1>8, <1>9, <1>10, <1>11 DEF Operation

\* ImplementsTables: over a trail file each operation is one transaction of the issue
\* tables and each append changes nothing, unless the process dies in the middle.
THEOREM RecordsImplementsTables == Spec => ImplementsTables
<1>1. Init => Current
  BY DEF Init, Current, Closed0
<1>2. Ind /\ Current /\ [Next]_vars => [shared \/ Dies \/ Passes \/ Transaction]_dueRows
  <2> SUFFICES ASSUME Ind, Current, [Next]_vars, ~shared
               PROVE  Dies \/ Passes \/ Transaction \/ UNCHANGED dueRows
    OBVIOUS
  <2>1. CASE Tick
    BY <2>1, TickPasses
  <2>2. ASSUME NEW p \in Procs, Open(p) \/ Stop(p)
        PROVE  Dies \/ UNCHANGED dueRows
    BY <2>2, OpenOrStop
  <2>3. ASSUME NEW p \in Procs, Appends(p)
        PROVE  UNCHANGED dueRows
    BY <2>3, AppendStutters
  <2>4. ASSUME NEW p \in Procs, Operation(p)
        PROVE  Transaction \/ UNCHANGED dueRows
    BY <2>4, OperationIsTx
  <2>5. CASE UNCHANGED vars
    <3>1. UNCHANGED <<now, projects, issue, dep, events, proc>>
      BY <2>5 DEF vars
    <3> QED BY <3>1, SameTodo DEF dueRows
  <2> QED BY <2>1, <2>2, <2>3, <2>4, <2>5 DEF Next
<1> QED BY <1>1, <1>2, CurrentStep, RecordsInvariant, PTL DEF Spec, ImplementsTables

==============================================================================
