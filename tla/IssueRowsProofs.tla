--------------------------- MODULE IssueRowsProofs ---------------------------
(****************************************************************************)
(* What every transaction of IssueRows preserves, proved once.  RowsNext is *)
(* any transaction with any arguments of the right type, on a clock reading *)
(* that is not ahead of the clock; a store whose steps are such steps (see  *)
(* SqliteStoreProofs) inherits the results.                                 *)
(****************************************************************************)
EXTENDS IssueRows, TLAPS

RowsNext ==
    \/ \E p \in Projects : EnsureProjectTx(p) \/ DropProjectTx(p)
    \/ \E i \in Issues, ls \in SUBSET Labels, available \in Int : CreateTx(i, ls, available)
    \/ \E i \in Issues, who \in Names, k \in Kinds, ttl \in Int, at \in 0..now :
          ClaimTx(i, who, k, ttl, at)
    \/ \E i \in Issues, who \in Names, ttl \in Int, at \in 0..now : TouchTx(i, who, ttl, at)
    \/ \E i \in Issues : ReleaseTx(i)
    \/ \E at \in 0..now : SweepTx(at)
    \/ \E i \in Issues, st \in Statuses, ev \in SUBSET Evidence, available \in Int :
          UpdateTx(i, st, ev, available)
    \/ \E i \in Issues, ls \in SUBSET LabelSet : SetLabelsTx(i, ls)
    \/ \E i \in Issues, ev \in SUBSET Evidence : CloseTx(i, ev)
    \/ \E i, r \in Issues : SupersedeTx(i, r)
    \/ \E c, p \in Issues : AddDepTx(c, p) \/ RemoveDepTx(c, p)
    \/ UNCHANGED <<projects, issue, dep>> /\ events' = {} /\ now' \in {now, now + 1}

----------------------------------------------------------------------------
(* Rows *)

\* The values a setter writes are rows with consistent claim columns.
LEMMA AbsentIsRow == Absent \in Row /\ RowConsistent(Absent)
BY NamesAssumption DEF Absent, Row, RowConsistent, Statuses, Kinds

\* The three shapes of column update.
LEMMA ClaimColumns ==
    ASSUME NEW row \in Row, NEW who \in Names \cup {NoOne}, NEW k \in Kinds \cup {"none"},
           NEW e \in Int
    PROVE  LET new == [row EXCEPT !.assignee = who, !.kind = k, !.expires = e]
           IN  /\ new \in Row
               /\ new.assignee = who /\ new.kind = k /\ new.expires = e
               /\ new.status = row.status /\ new.evidence = row.evidence
               /\ new.labels = row.labels
<1> DEFINE r1 == [row EXCEPT !.assignee = who]
           r2 == [r1 EXCEPT !.kind = k]
           r3 == [r2 EXCEPT !.expires = e]
<1>1. r1 \in Row
  BY DEF Row
<1>2. r2 \in Row
  <2> HIDE DEF r1
  <2> QED BY <1>1 DEF Row
<1>3. r3 \in Row
  <2> HIDE DEF r2
  <2> QED BY <1>2 DEF Row
<1>4. r3.assignee = who /\ r3.kind = k /\ r3.expires = e
  BY DEF Row
<1>5. r3.status = row.status /\ r3.evidence = row.evidence /\ r3.labels = row.labels
  BY DEF Row
<1>6. r3 = [row EXCEPT !.assignee = who, !.kind = k, !.expires = e]
  OBVIOUS
<1> QED BY ONLY <1>3, <1>4, <1>5, <1>6

LEMMA EditColumns ==
    ASSUME NEW row \in Row, NEW st \in Statuses, NEW ev \in SUBSET Evidence,
           NEW available \in Int
    PROVE  LET new == [row EXCEPT !.status = st, !.evidence = ev, !.available = available]
           IN  /\ new \in Row
               /\ new.status = st /\ new.assignee = row.assignee
               /\ new.kind = row.kind /\ new.expires = row.expires
<1> DEFINE r1 == [row EXCEPT !.status = st]
           r2 == [r1 EXCEPT !.evidence = ev]
           r3 == [r2 EXCEPT !.available = available]
<1>1. r1 \in Row
  BY DEF Row
<1>2. r2 \in Row
  <2> HIDE DEF r1
  <2> QED BY <1>1 DEF Row
<1>3. r3 \in Row
  <2> HIDE DEF r2
  <2> QED BY <1>2 DEF Row
<1>4. r3.status = st /\ r3.assignee = row.assignee /\ r3.kind = row.kind
  BY DEF Row
<1>5. r3.expires = row.expires
  BY DEF Row
<1>6. r3 = [row EXCEPT !.status = st, !.evidence = ev, !.available = available]
  OBVIOUS
<1> QED BY ONLY <1>3, <1>4, <1>5, <1>6

LEMMA FreedFields ==
    ASSUME NEW row \in Row
    PROVE  /\ Freed(row) \in Row
           /\ Freed(row).status = row.status
           /\ Freed(row).assignee = NoOne
           /\ Freed(row).kind = "none"
           /\ Freed(row).evidence = row.evidence
           /\ Freed(row).labels = row.labels
<1>1. 0 \in Int
  OBVIOUS
<1>2. NoOne \in Names \cup {NoOne} /\ "none" \in Kinds \cup {"none"}
  OBVIOUS
<1> DEFINE new == [row EXCEPT !.assignee = NoOne, !.kind = "none", !.expires = 0]
<1>3. new \in Row
  BY <1>1, <1>2, ClaimColumns
<1>4. new.status = row.status
  BY DEF Row
<1>5. new.assignee = NoOne /\ new.kind = "none"
  BY DEF Row
<1>6. new.evidence = row.evidence /\ new.labels = row.labels
  BY DEF Row
<1>7. Freed(row) = new
  BY DEF Freed
<1> QED BY ONLY <1>3, <1>4, <1>5, <1>6, <1>7

LEMMA ClosedFields ==
    ASSUME NEW row \in Row, NEW ev \in SUBSET Evidence
    PROVE  /\ Closed(row, ev) \in Row
           /\ Closed(row, ev).status = "closed"
           /\ Closed(row, ev).assignee = NoOne
           /\ Closed(row, ev).kind = "none"
           /\ Closed(row, ev).evidence = row.evidence \cup ev
<1> DEFINE free == Freed(row)
           r1 == [free EXCEPT !.status = "closed"]
           r2 == [r1 EXCEPT !.evidence = @ \cup ev]
<1>0. free \in Row /\ free.assignee = NoOne /\ free.kind = "none"
      /\ free.evidence = row.evidence
  BY FreedFields
<1>a. row.evidence \cup ev \in SUBSET Evidence
  BY DEF Row
<1> HIDE DEF free
<1>1. r1 \in Row
  BY <1>0 DEF Row, Statuses
<1>2. r1.evidence = row.evidence
  BY <1>0 DEF Row
<1>3. r2 \in Row
  <2> HIDE DEF r1
  <2> QED BY <1>1, <1>2, <1>a DEF Row
<1>4. r2.status = "closed" /\ r2.assignee = NoOne /\ r2.kind = "none"
  BY <1>0 DEF Row
<1>5. r2.evidence = row.evidence \cup ev
  BY <1>0 DEF Row
<1>6. r2 = Closed(row, ev)
  BY DEF Closed, free
<1> QED BY ONLY <1>3, <1>4, <1>5, <1>6

\* Clearing a claim, of a row or (ReleaseTx) of an id that has none.
LEMMA FreedIsConsistent ==
    ASSUME NEW row \in Row, RowConsistent(row)
    PROVE  RowConsistent(Freed(row))
<1>1. Freed(Absent) = Absent
  <2>1. [Absent EXCEPT !.assignee = NoOne] = Absent
    BY DEF Absent
  <2>2. [Absent EXCEPT !.kind = "none"] = Absent
    BY DEF Absent
  <2>3. [Absent EXCEPT !.expires = 0] = Absent
    BY DEF Absent
  <2> QED BY <2>1, <2>2, <2>3 DEF Freed
<1> QED BY <1>1, FreedFields DEF RowConsistent

LEMMA ClosedIsConsistent ==
    ASSUME NEW row \in Row, NEW ev \in SUBSET Evidence
    PROVE  RowConsistent(Closed(row, ev))
BY ClosedFields DEF RowConsistent

LEMMA SupersededFields ==
    ASSUME NEW row \in Row, NEW r \in Issues
    PROVE  /\ Superseded(row, r) \in Row
           /\ Superseded(row, r).status = "closed"
           /\ Superseded(row, r).assignee = NoOne
           /\ RowConsistent(Superseded(row, r))
<1> DEFINE c == Closed(row, {Ack(r)})
           new == [c EXCEPT !.labels = @ \cup {Pointer(r)}]
<1>1. {Ack(r)} \in SUBSET Evidence
  BY DEF Evidence
<1>2. c \in Row /\ c.status = "closed" /\ c.assignee = NoOne /\ c.kind = "none"
  BY <1>1, ClosedFields
<1> HIDE DEF c
<1>3. c.labels \cup {Pointer(r)} \in SUBSET LabelSet
  BY <1>2 DEF Row, LabelSet
<1>4. new \in Row
  BY <1>2, <1>3 DEF Row
<1>5. new.status = "closed" /\ new.assignee = NoOne /\ new.kind = "none"
  BY <1>2 DEF Row
<1>6. RowConsistent(new)
  BY <1>5 DEF RowConsistent
<1>7. new = Superseded(row, r)
  BY DEF Superseded, c
<1> QED BY ONLY <1>4, <1>5, <1>6, <1>7

LEMMA LoggedIsEvent ==
    ASSUME NEW i \in Issues, NEW e \in EventNames
    PROVE  Logged(i, e) \in Event
BY DEF Logged, Event

----------------------------------------------------------------------------
(* Type correctness *)

\* One row is replaced by another good row, and nothing else in the table changes.
LEMMA SetRowTypes ==
    ASSUME issue \in [Issues -> Row], \A j \in Issues : RowConsistent(issue[j]),
           NEW i \in Issues, NEW row \in Row, RowConsistent(row),
           issue' = [issue EXCEPT ![i] = row]
    PROVE  issue' \in [Issues -> Row] /\ \A j \in Issues : RowConsistent(issue'[j])
<1>1. issue' \in [Issues -> Row]
  OBVIOUS
<1>2. ASSUME NEW j \in Issues PROVE RowConsistent(issue'[j])
  <2>1. CASE j = i
    <3>1. issue'[j] = row
      BY <2>1
    <3> QED BY <3>1
  <2>2. CASE j # i
    <3>1. issue'[j] = issue[j]
      BY <2>2
    <3> QED BY <3>1
  <2> QED BY <2>1, <2>2
<1> QED BY <1>1, <1>2

\* A row that exists stays consistent when its claim is set or when other columns
\* change.
LEMMA ClaimIsConsistent ==
    ASSUME NEW row \in Row, row.status # "none", NEW who \in Names, NEW k \in Kinds,
           NEW e \in Int
    PROVE  LET new == [row EXCEPT !.assignee = who, !.kind = k, !.expires = e]
           IN  new \in Row /\ RowConsistent(new)
<1> DEFINE new == [row EXCEPT !.assignee = who, !.kind = k, !.expires = e]
<1>1. new \in Row
  BY ClaimColumns
<1>2. new.status = row.status /\ new.assignee = who
  BY DEF Row
<1>3. new.kind = k
  BY DEF Row
<1>4. who # NoOne /\ k # "none"
  BY NamesAssumption DEF Kinds
<1>5. RowConsistent(new)
  <2> HIDE DEF new
  <2> QED BY <1>2, <1>3, <1>4 DEF RowConsistent
<1> QED BY <1>1, <1>5

LEMMA EditIsConsistent ==
    ASSUME NEW row \in Row, RowConsistent(row), NEW st \in Statuses,
           NEW ev \in SUBSET Evidence, NEW available \in Int
    PROVE  LET new == [row EXCEPT !.status = st, !.evidence = ev, !.available = available]
           IN  new \in Row /\ RowConsistent(new)
<1> DEFINE new == [row EXCEPT !.status = st, !.evidence = ev, !.available = available]
<1>1. new \in Row
  BY EditColumns
<1>2. new.status = st /\ new.assignee = row.assignee /\ new.kind = row.kind
  BY DEF Row
<1>4. st # "none"
  BY DEF Statuses
<1>5. RowConsistent(new)
  <2> HIDE DEF new
  <2> QED BY <1>2, <1>4 DEF RowConsistent
<1> QED BY <1>1, <1>5

\* What a transaction logs are events of the table's issues.
LEMMA EventSetTypes ==
    ASSUME NEW S \in SUBSET Issues, NEW e \in EventNames
    PROVE  {Logged(i, e) : i \in S} \subseteq Event
BY LoggedIsEvent

\* The claim a transaction sets, a row it frees, closes or edits: the table keeps its type.
LEMMA ClaimTypes ==
    ASSUME RowsTypeOK, NEW i \in Issues, NEW who \in Names, NEW k \in Kinds, NEW e \in Int,
           Exists(i),
           issue' = [issue EXCEPT ![i] = [@ EXCEPT !.assignee = who, !.kind = k, !.expires = e]]
    PROVE  issue' \in [Issues -> Row] /\ \A j \in Issues : RowConsistent(issue'[j])
<1> DEFINE new == [issue[i] EXCEPT !.assignee = who, !.kind = k, !.expires = e]
<1>1. issue[i] \in Row /\ issue[i].status # "none"
  BY DEF RowsTypeOK, Exists
<1>2. new \in Row /\ RowConsistent(new)
  BY <1>1, ClaimIsConsistent
<1>3. issue' = [issue EXCEPT ![i] = new]
  OBVIOUS
<1> HIDE DEF new
<1> QED BY <1>2, <1>3, SetRowTypes DEF RowsTypeOK

LEMMA TouchTypes ==
    ASSUME RowsTypeOK, NEW i \in Issues, NEW e \in Int,
           issue[i].assignee \in Names,
           issue' = [issue EXCEPT ![i].expires = e]
    PROVE  issue' \in [Issues -> Row] /\ \A j \in Issues : RowConsistent(issue'[j])
<1> DEFINE new == [issue[i] EXCEPT !.expires = e]
<1>1. issue[i] \in Row /\ RowConsistent(issue[i])
  BY DEF RowsTypeOK
<1>2. new \in Row
  BY <1>1 DEF Row
<1>3. /\ new.assignee = issue[i].assignee /\ new.kind = issue[i].kind
      /\ new.status = issue[i].status
  BY <1>1 DEF Row
<1>4. new.evidence = issue[i].evidence /\ new.labels = issue[i].labels
  BY <1>1 DEF Row
<1>5. issue' = [issue EXCEPT ![i] = new]
  OBVIOUS
<1> HIDE DEF new
<1>6. RowConsistent(new)
  <2>1. Absent.assignee = NoOne
    BY DEF Absent
  <2> QED BY <1>1, <1>3, <1>4, <2>1, NamesAssumption DEF RowConsistent
<1> QED BY <1>2, <1>5, <1>6, SetRowTypes DEF RowsTypeOK

LEMMA FreeTypes ==
    ASSUME RowsTypeOK, NEW S \in SUBSET Issues,
           issue' = [i \in Issues |-> IF i \in S THEN Freed(issue[i]) ELSE issue[i]]
    PROVE  issue' \in [Issues -> Row] /\ \A j \in Issues : RowConsistent(issue'[j])
<1>1. \A i \in Issues : issue[i] \in Row /\ RowConsistent(issue[i])
  BY DEF RowsTypeOK
<1>2. \A i \in Issues : Freed(issue[i]) \in Row /\ RowConsistent(Freed(issue[i]))
  BY <1>1, FreedFields, FreedIsConsistent
<1>3. issue' \in [Issues -> Row]
  BY <1>1, <1>2
<1>4. ASSUME NEW j \in Issues PROVE RowConsistent(issue'[j])
  <2>1. issue'[j] = Freed(issue[j]) \/ issue'[j] = issue[j]
    OBVIOUS
  <2> QED BY <1>1, <1>2, <2>1
<1> QED BY <1>3, <1>4

LEMMA EditTypes ==
    ASSUME RowsTypeOK, NEW i \in Issues, NEW st \in Statuses, NEW ev \in SUBSET Evidence,
           NEW available \in Int,
           issue' = [issue EXCEPT ![i] = [@ EXCEPT !.status = st, !.evidence = ev,
                                                   !.available = available]]
    PROVE  issue' \in [Issues -> Row] /\ \A j \in Issues : RowConsistent(issue'[j])
<1> DEFINE new == [issue[i] EXCEPT !.status = st, !.evidence = ev, !.available = available]
<1>1. issue[i] \in Row /\ RowConsistent(issue[i])
  BY DEF RowsTypeOK
<1>2. new \in Row /\ RowConsistent(new)
  BY <1>1, EditIsConsistent
<1>3. issue' = [issue EXCEPT ![i] = new]
  OBVIOUS
<1> HIDE DEF new
<1> QED BY <1>2, <1>3, SetRowTypes DEF RowsTypeOK

LEMMA LabelTypes ==
    ASSUME RowsTypeOK, NEW i \in Issues, Exists(i), NEW ls \in SUBSET LabelSet,
           issue' = [issue EXCEPT ![i].labels = ls]
    PROVE  issue' \in [Issues -> Row] /\ \A j \in Issues : RowConsistent(issue'[j])
<1> DEFINE new == [issue[i] EXCEPT !.labels = ls]
<1>1. issue[i] \in Row /\ RowConsistent(issue[i]) /\ issue[i].status # "none"
  BY DEF RowsTypeOK, Exists
<1>2. new \in Row
  BY <1>1 DEF Row
<1>3. /\ new.assignee = issue[i].assignee /\ new.kind = issue[i].kind
      /\ new.status = issue[i].status
  BY <1>1 DEF Row
<1>5. issue' = [issue EXCEPT ![i] = new]
  OBVIOUS
<1> HIDE DEF new
<1>6. RowConsistent(new)
  BY <1>1, <1>3 DEF RowConsistent
<1> QED BY <1>2, <1>5, <1>6, SetRowTypes DEF RowsTypeOK

LEMMA CreateTypes ==
    ASSUME RowsTypeOK, NEW i \in Issues, NEW ls \in SUBSET LabelSet, NEW available \in Int,
           issue' = [issue EXCEPT ![i] = [Absent EXCEPT !.status = "open",
                                                       !.available = available,
                                                       !.labels = ls]]
    PROVE  issue' \in [Issues -> Row] /\ \A j \in Issues : RowConsistent(issue'[j])
<1> DEFINE r1 == [Absent EXCEPT !.status = "open"]
           r2 == [r1 EXCEPT !.available = available]
           new == [Absent EXCEPT !.status = "open", !.available = available, !.labels = ls]
<1>1. r1 \in Row
  BY DEF Row, Absent, Statuses
<1>2. r2 \in Row
  <2> HIDE DEF r1
  <2> QED BY <1>1 DEF Row
<1>3. [r2 EXCEPT !.labels = ls] \in Row
  <2> HIDE DEF r2
  <2> QED BY <1>2 DEF Row
<1>4. new = [r2 EXCEPT !.labels = ls]
  OBVIOUS
<1>5. new.status = "open" /\ new.assignee = NoOne
  BY DEF Absent
<1>6. new.kind = "none"
  BY DEF Absent
<1>7. issue' = [issue EXCEPT ![i] = new]
  OBVIOUS
<1> HIDE DEF new
<1>8. new \in Row
  BY ONLY <1>3, <1>4
<1>9. RowConsistent(new)
  BY <1>5, <1>6 DEF RowConsistent
<1> QED BY <1>7, <1>8, <1>9, SetRowTypes DEF RowsTypeOK

LEMMA DropTypes ==
    ASSUME RowsTypeOK, NEW S \in SUBSET Issues,
           issue' = [i \in Issues |-> IF i \in S THEN Absent ELSE issue[i]]
    PROVE  issue' \in [Issues -> Row] /\ \A j \in Issues : RowConsistent(issue'[j])
<1>1. \A i \in Issues : issue[i] \in Row /\ RowConsistent(issue[i])
  BY DEF RowsTypeOK
<1>2. issue' \in [Issues -> Row]
  BY <1>1, AbsentIsRow
<1>3. ASSUME NEW j \in Issues PROVE RowConsistent(issue'[j])
  <2>1. issue'[j] = Absent \/ issue'[j] = issue[j]
    OBVIOUS
  <2> QED BY <1>1, <2>1, AbsentIsRow
<1> QED BY <1>2, <1>3

\* RowsTypeOK is kept by every transaction.
THEOREM RowsType == RowsTypeOK /\ [RowsNext]_rowVars => RowsTypeOK'
<1> SUFFICES ASSUME RowsTypeOK, [RowsNext]_rowVars PROVE RowsTypeOK'
  OBVIOUS
<1> DEFINE TableOK == issue' \in [Issues -> Row] /\ \A j \in Issues : RowConsistent(issue'[j])
<1>0. /\ now \in Nat /\ projects \subseteq Projects /\ dep \subseteq Issues \X Issues
      /\ events \subseteq Event
      /\ issue \in [Issues -> Row] /\ \A j \in Issues : RowConsistent(issue[j])
  BY DEF RowsTypeOK
<1>a. ASSUME now' \in Nat, projects' \subseteq Projects, dep' \subseteq Issues \X Issues,
             events' \subseteq Event, TableOK
      PROVE  RowsTypeOK'
  BY <1>a DEF RowsTypeOK, RowConsistent
<1> HIDE DEF TableOK
<1>b. ASSUME issue' = issue PROVE TableOK
  BY <1>0, <1>b DEF TableOK
<1>1. ASSUME NEW p \in Projects, EnsureProjectTx(p) PROVE RowsTypeOK'
  BY <1>0, <1>1, <1>a, <1>b DEF EnsureProjectTx
<1>2. ASSUME NEW p \in Projects, DropProjectTx(p) PROVE RowsTypeOK'
  <2> DEFINE mine == {i \in Issues : ProjectOf[i] = p}
  <2>1. TableOK
    BY <1>2, DropTypes DEF DropProjectTx, TableOK
  <2> QED BY <1>0, <1>2, <1>a, <2>1 DEF DropProjectTx
<1>3. ASSUME NEW i \in Issues, NEW ls \in SUBSET Labels, NEW available \in Int,
             CreateTx(i, ls, available)
      PROVE  RowsTypeOK'
  <2>1. TableOK
    BY <1>3, CreateTypes DEF CreateTx, TableOK, LabelSet
  <2>2. events' \subseteq Event
    BY <1>3, LoggedIsEvent DEF CreateTx, EventNames
  <2> QED BY <1>0, <1>3, <1>a, <2>1, <2>2 DEF CreateTx
<1>4. ASSUME NEW i \in Issues, NEW who \in Names, NEW k \in Kinds, NEW ttl \in Int,
             NEW at \in 0..now, ClaimTx(i, who, k, ttl, at)
      PROVE  RowsTypeOK'
  <2>0. at + ttl \in Int
    BY <1>0
  <2>1. TableOK
    BY <1>4, <2>0, ClaimTypes DEF ClaimTx, TableOK
  <2>2. events' \subseteq Event
    BY <1>4, LoggedIsEvent DEF ClaimTx, EventNames
  <2> QED BY <1>0, <1>4, <1>a, <2>1, <2>2 DEF ClaimTx
<1>5. ASSUME NEW i \in Issues, NEW who \in Names, NEW ttl \in Int, NEW at \in 0..now,
             TouchTx(i, who, ttl, at)
      PROVE  RowsTypeOK'
  <2>0. at + ttl \in Int
    BY <1>0
  <2>1. TableOK
    BY <1>5, <2>0, TouchTypes DEF TouchTx, TableOK
  <2>2. events' \subseteq Event
    BY <1>5, LoggedIsEvent DEF TouchTx, EventNames
  <2> QED BY <1>0, <1>5, <1>a, <2>1, <2>2 DEF TouchTx
<1>6. ASSUME NEW i \in Issues, ReleaseTx(i) PROVE RowsTypeOK'
  <2>1. TableOK
    <3>1. issue[i] \in Row /\ RowConsistent(issue[i])
      BY <1>0
    <3>2. Freed(issue[i]) \in Row /\ RowConsistent(Freed(issue[i]))
      BY <3>1, FreedFields, FreedIsConsistent
    <3>3. issue' = [issue EXCEPT ![i] = Freed(issue[i])]
      BY <1>6 DEF ReleaseTx
    <3> QED BY <1>0, <3>2, <3>3, SetRowTypes DEF TableOK
  <2>2. events' \subseteq Event
    BY <1>6, LoggedIsEvent DEF ReleaseTx, EventNames
  <2> QED BY <1>0, <1>6, <1>a, <2>1, <2>2 DEF ReleaseTx
<1>7. ASSUME NEW at \in 0..now, SweepTx(at) PROVE RowsTypeOK'
  <2> DEFINE lapsed == {i \in Issues : Lapsed(i, at)}
             human  == {i \in lapsed : issue[i].kind = "human"}
  <2>1. TableOK
    BY <1>7, FreeTypes DEF SweepTx, TableOK
  <2>2. events' \subseteq Event
    <3>1. {Logged(i, "escalated") : i \in human} \subseteq Event
      BY EventSetTypes DEF EventNames
    <3>2. {Logged(i, "claim_expired") : i \in lapsed \ human} \subseteq Event
      BY EventSetTypes DEF EventNames
    <3> QED BY <1>7, <3>1, <3>2 DEF SweepTx
  <2> QED BY <1>0, <1>7, <1>a, <2>1, <2>2 DEF SweepTx
<1>8. ASSUME NEW i \in Issues, NEW st \in Statuses, NEW ev \in SUBSET Evidence,
             NEW available \in Int, UpdateTx(i, st, ev, available)
      PROVE  RowsTypeOK'
  <2>1. TableOK
    BY <1>8, EditTypes DEF UpdateTx, TableOK
  <2>2. events' \subseteq Event
    BY <1>8, LoggedIsEvent DEF UpdateTx, EventNames
  <2> QED BY <1>0, <1>8, <1>a, <2>1, <2>2 DEF UpdateTx
<1>9. ASSUME NEW i \in Issues, NEW ls \in SUBSET LabelSet, SetLabelsTx(i, ls)
      PROVE  RowsTypeOK'
  <2>1. TableOK
    BY <1>9, LabelTypes DEF SetLabelsTx, TableOK
  <2>2. events' \subseteq Event
    BY <1>9, LoggedIsEvent DEF SetLabelsTx, EventNames
  <2> QED BY <1>0, <1>9, <1>a, <2>1, <2>2 DEF SetLabelsTx
<1>10. ASSUME NEW i \in Issues, NEW ev \in SUBSET Evidence, CloseTx(i, ev)
       PROVE  RowsTypeOK'
  <2>1. TableOK
    <3>1. Closed(issue[i], ev) \in Row /\ RowConsistent(Closed(issue[i], ev))
      BY <1>0, ClosedFields, ClosedIsConsistent
    <3>2. issue' = [issue EXCEPT ![i] = Closed(issue[i], ev)]
      BY <1>10 DEF CloseTx
    <3> QED BY <1>0, <3>1, <3>2, SetRowTypes DEF TableOK
  <2>2. events' \subseteq Event
    BY <1>10, LoggedIsEvent DEF CloseTx, EventNames
  <2> QED BY <1>0, <1>10, <1>a, <2>1, <2>2 DEF CloseTx
<1>11. ASSUME NEW c \in Issues, NEW p \in Issues, AddDepTx(c, p) \/ RemoveDepTx(c, p)
       PROVE  RowsTypeOK'
  <2>1. events' \subseteq Event
    BY <1>11, LoggedIsEvent DEF AddDepTx, RemoveDepTx, EventNames
  <2> QED BY <1>0, <1>11, <1>a, <1>b, <2>1 DEF AddDepTx, RemoveDepTx
<1>12. CASE UNCHANGED <<projects, issue, dep>> /\ events' = {} /\ now' \in {now, now + 1}
  BY <1>0, <1>12, <1>a, <1>b
<1>13. CASE UNCHANGED rowVars
  BY <1>0, <1>13, <1>a, <1>b DEF rowVars
<1>14. ASSUME NEW i \in Issues, NEW r \in Issues, SupersedeTx(i, r) PROVE RowsTypeOK'
  <2>1. TableOK
    <3>1. Superseded(issue[i], r) \in Row /\ RowConsistent(Superseded(issue[i], r))
      BY <1>0, SupersededFields
    <3>2. issue' = [issue EXCEPT ![i] = Superseded(issue[i], r)]
      BY <1>14 DEF SupersedeTx
    <3> QED BY <1>0, <3>1, <3>2, SetRowTypes DEF TableOK
  <2>2. events' \subseteq Event
    BY <1>14, LoggedIsEvent DEF SupersedeTx, EventNames
  <2> QED BY <1>0, <1>14, <1>a, <2>1, <2>2 DEF SupersedeTx
<1> QED BY <1>1, <1>2, <1>3, <1>4, <1>5, <1>6, <1>7, <1>8, <1>9, <1>10, <1>11, <1>12,
           <1>13, <1>14 DEF RowsNext

----------------------------------------------------------------------------
(* The dependency graph *)

ClosedUnder(S, d) == \A e \in d : e[1] \in S => e[2] \in S

\* Reach(d, x) holds x, is closed under the edges, and is the least such set.
LEMMA ReachIsClosed ==
    ASSUME NEW d \in SUBSET (Issues \X Issues), NEW x \in Issues
    PROVE  x \in Reach(d, x) /\ Reach(d, x) \subseteq Issues /\ ClosedUnder(Reach(d, x), d)
<1>1. x \in Reach(d, x) /\ Reach(d, x) \subseteq Issues
  BY DEF Reach
<1>2. ASSUME NEW e \in d, e[1] \in Reach(d, x) PROVE e[2] \in Reach(d, x)
  <2>1. e[2] \in Issues
    OBVIOUS
  <2>2. ASSUME NEW S \in SUBSET Issues, x \in S, \A f \in d : f[1] \in S => f[2] \in S
        PROVE  e[2] \in S
    BY <1>2, <2>2 DEF Reach
  <2> QED BY <2>1, <2>2 DEF Reach
<1> QED BY <1>1, <1>2 DEF ClosedUnder

LEMMA ReachIsLeast ==
    ASSUME NEW d \in SUBSET (Issues \X Issues), NEW x \in Issues, NEW S \in SUBSET Issues,
           x \in S, ClosedUnder(S, d)
    PROVE  Reach(d, x) \subseteq S
BY DEF Reach, ClosedUnder

\* Removing edges cannot close a cycle.
LEMMA AcyclicSubset ==
    ASSUME NEW d \in SUBSET (Issues \X Issues), NEW d2 \in SUBSET d,
           \A e \in d : e[1] \notin Reach(d, e[2])
    PROVE  \A e \in d2 : e[1] \notin Reach(d2, e[2])
<1> SUFFICES ASSUME NEW e \in d2 PROVE e[1] \notin Reach(d2, e[2])
  OBVIOUS
<1>1. e \in d /\ e[2] \in Issues /\ d2 \in SUBSET (Issues \X Issues)
  OBVIOUS
<1>2. e[2] \in Reach(d, e[2]) /\ Reach(d, e[2]) \subseteq Issues
      /\ ClosedUnder(Reach(d, e[2]), d)
  BY <1>1, ReachIsClosed
<1>3. ClosedUnder(Reach(d, e[2]), d2)
  BY <1>2 DEF ClosedUnder
<1>4. Reach(d2, e[2]) \subseteq Reach(d, e[2])
  BY <1>1, <1>2, <1>3, ReachIsLeast
<1> QED BY <1>1, <1>4

\* add_dep's check is enough: an edge whose target does not reach its source closes
\* no cycle.
LEMMA AcyclicAdd ==
    ASSUME NEW d \in SUBSET (Issues \X Issues), NEW c \in Issues, NEW p \in Issues,
           \A e \in d : e[1] \notin Reach(d, e[2]),
           c \notin Reach(d, p)
    PROVE  \A e \in d \cup {<<c, p>>} : e[1] \notin Reach(d \cup {<<c, p>>}, e[2])
<1> DEFINE d2 == d \cup {<<c, p>>}
           B  == Reach(d, p)
<1>1. d2 \in SUBSET (Issues \X Issues)
  OBVIOUS
<1>2. p \in B /\ B \subseteq Issues /\ ClosedUnder(B, d)
  BY ReachIsClosed
<1>3. ClosedUnder(B, d2)
  BY <1>2 DEF ClosedUnder
<1> SUFFICES ASSUME NEW e \in d2 PROVE e[1] \notin Reach(d2, e[2])
  OBVIOUS
<1>4. CASE e = <<c, p>>
  <2>1. Reach(d2, p) \subseteq B
    BY <1>1, <1>2, <1>3, ReachIsLeast
  <2> QED BY <1>4, <2>1
<1>5. CASE e \in d
  <2> DEFINE A == Reach(d, e[2])
  <2>0. e[1] \in Issues /\ e[2] \in Issues
    BY <1>5
  <2>1. e[2] \in A /\ A \subseteq Issues /\ ClosedUnder(A, d)
    BY <2>0, ReachIsClosed
  <2>2. e[1] \notin A
    BY <1>5
  <2>3. CASE c \notin A
    <3>1. ClosedUnder(A, d2)
      BY <2>1, <2>3 DEF ClosedUnder
    <3>2. Reach(d2, e[2]) \subseteq A
      BY <1>1, <2>0, <2>1, <3>1, ReachIsLeast
    <3> QED BY <2>2, <3>2
  <2>4. CASE c \in A
    <3>1. A \cup B \in SUBSET Issues /\ e[2] \in A \cup B
      BY <1>2, <2>1
    <3>2. ClosedUnder(A \cup B, d2)
      BY <1>2, <2>1 DEF ClosedUnder
    <3>3. Reach(d2, e[2]) \subseteq A \cup B
      BY <1>1, <2>0, <3>1, <3>2, ReachIsLeast
    <3>4. e[1] \notin B
      <4>1. SUFFICES ASSUME e[1] \in B PROVE FALSE
        OBVIOUS
      <4>2. e[2] \in B
        BY <1>2, <1>5, <4>1 DEF ClosedUnder
      <4>3. A \subseteq B
        BY <1>2, <2>0, <4>2, ReachIsLeast
      <4> QED BY <2>4, <4>3
    <3> QED BY <2>2, <3>3, <3>4
  <2> QED BY <2>3, <2>4
<1> QED BY <1>4, <1>5

\* DepAcyclic is kept by every transaction.
THEOREM RowsAcyclic == RowsTypeOK /\ DepAcyclic /\ [RowsNext]_rowVars => DepAcyclic'
<1> SUFFICES ASSUME RowsTypeOK, DepAcyclic, [RowsNext]_rowVars PROVE DepAcyclic'
  OBVIOUS
<1>0. dep \in SUBSET (Issues \X Issues) /\ \A e \in dep : e[1] \notin Reach(dep, e[2])
  BY DEF RowsTypeOK, DepAcyclic
<1>1. CASE dep' \subseteq dep
  BY <1>0, <1>1, AcyclicSubset DEF DepAcyclic, Reach
<1>2. ASSUME NEW c \in Issues, NEW p \in Issues, AddDepTx(c, p) PROVE DepAcyclic'
  <2>1. dep' = dep \cup {<<c, p>>} /\ c \notin Reach(dep, p)
    BY <1>2 DEF AddDepTx
  <2>2. \A e \in dep' : e[1] \notin Reach(dep', e[2])
    BY <1>0, <2>1, AcyclicAdd
  <2> QED BY <2>2 DEF DepAcyclic, Reach
<1>3. dep' \subseteq dep \/ \E c, p \in Issues : AddDepTx(c, p)
  BY DEF RowsNext, rowVars, EnsureProjectTx, DropProjectTx, CreateTx, ClaimTx, TouchTx,
         ReleaseTx, SweepTx, UpdateTx, SetLabelsTx, CloseTx, SupersedeTx, RemoveDepTx
<1> QED BY <1>1, <1>2, <1>3

\* What a transaction leaves of the status of a row that survives it.
LEMMA RowsSurvive ==
    ASSUME RowsTypeOK, RowsNext, NEW i \in Issues, Exists(i)
    PROVE  Exists(i)' \/ \E p \in Projects : DropProjectTx(p)
<1>0. issue \in [Issues -> Row] /\ issue[i] \in Row /\ issue[i].status # "none"
  BY DEF RowsTypeOK, Exists
<1>1. ASSUME issue' = issue PROVE Exists(i)'
  BY <1>0, <1>1 DEF Exists
<1>2. ASSUME NEW j \in Issues, NEW row \in Row, row.status = issue[j].status \/ row.status # "none",
             issue' = [issue EXCEPT ![j] = row]
      PROVE  Exists(i)'
  <2>1. issue'[i].status = issue[i].status \/ issue'[i].status # "none"
    BY <1>0, <1>2
  <2> QED BY <1>0, <2>1 DEF Exists
<1>3. ASSUME NEW j \in Issues, NEW ls \in SUBSET Labels, NEW available \in Int,
             CreateTx(j, ls, available)
      PROVE  Exists(i)'
  <2>1. i # j
    BY <1>0, <1>3 DEF CreateTx, Exists
  <2>2. issue'[i] = issue[i]
    BY <1>0, <1>3, <2>1 DEF CreateTx
  <2> QED BY <1>0, <2>2 DEF Exists
<1>4. ASSUME NEW j \in Issues, NEW who \in Names, NEW k \in Kinds, NEW ttl \in Int,
             NEW at \in 0..now, ClaimTx(j, who, k, ttl, at)
      PROVE  Exists(i)'
  <2> DEFINE new == [issue[j] EXCEPT !.assignee = who, !.kind = k, !.expires = at + ttl]
  <2>1. issue[j] \in Row /\ at + ttl \in Int
    BY <1>0 DEF RowsTypeOK
  <2>2. new \in Row
    BY <2>1, ClaimColumns
  <2>3. new.status = issue[j].status
    BY <2>1 DEF Row
  <2>4. issue' = [issue EXCEPT ![j] = new]
    BY <1>4 DEF ClaimTx
  <2> HIDE DEF new
  <2> QED BY <1>2, <2>2, <2>3, <2>4
<1>5. ASSUME NEW j \in Issues, NEW who \in Names, NEW ttl \in Int, NEW at \in 0..now,
             TouchTx(j, who, ttl, at)
      PROVE  Exists(i)'
  <2> DEFINE new == [issue[j] EXCEPT !.expires = at + ttl]
  <2>1. issue[j] \in Row /\ at + ttl \in Int
    BY <1>0 DEF RowsTypeOK
  <2>2. new \in Row /\ new.status = issue[j].status
    BY <2>1 DEF Row
  <2>4. issue' = [issue EXCEPT ![j] = new]
    BY <1>5 DEF TouchTx
  <2> HIDE DEF new
  <2> QED BY <1>2, <2>2, <2>4
<1>6. ASSUME NEW j \in Issues, ReleaseTx(j) PROVE Exists(i)'
  <2>1. Freed(issue[j]) \in Row /\ Freed(issue[j]).status = issue[j].status
    BY <1>0, FreedFields
  <2> QED BY <1>2, <1>6, <2>1 DEF ReleaseTx
<1>7. ASSUME NEW at \in 0..now, SweepTx(at) PROVE Exists(i)'
  <2>1. issue'[i] = Freed(issue[i]) \/ issue'[i] = issue[i]
    BY <1>7 DEF SweepTx
  <2>2. Freed(issue[i]).status = issue[i].status
    BY <1>0, FreedFields
  <2> QED BY <1>0, <2>1, <2>2 DEF Exists
<1>8. ASSUME NEW j \in Issues, NEW st \in Statuses, NEW ev \in SUBSET Evidence,
             NEW available \in Int, UpdateTx(j, st, ev, available)
      PROVE  Exists(i)'
  <2> DEFINE new == [issue[j] EXCEPT !.status = st, !.evidence = ev, !.available = available]
  <2>1. issue[j] \in Row
    BY <1>0
  <2>2. new \in Row
    BY <2>1, EditColumns
  <2>3. new.status = st
    BY <2>1 DEF Row
  <2>4. issue' = [issue EXCEPT ![j] = new]
    BY <1>8 DEF UpdateTx
  <2> HIDE DEF new
  <2> QED BY <1>2, <2>2, <2>3, <2>4 DEF Statuses
<1>9. ASSUME NEW j \in Issues, NEW ls \in SUBSET LabelSet, SetLabelsTx(j, ls)
      PROVE  Exists(i)'
  <2> DEFINE new == [issue[j] EXCEPT !.labels = ls]
  <2>1. issue[j] \in Row
    BY <1>0
  <2>2. new \in Row /\ new.status = issue[j].status
    BY <2>1 DEF Row
  <2>4. issue' = [issue EXCEPT ![j] = new]
    BY <1>9 DEF SetLabelsTx
  <2> HIDE DEF new
  <2> QED BY <1>2, <2>2, <2>4
<1>10. ASSUME NEW j \in Issues, NEW ev \in SUBSET Evidence, CloseTx(j, ev)
       PROVE  Exists(i)'
  <2>1. Closed(issue[j], ev) \in Row /\ Closed(issue[j], ev).status = "closed"
    BY <1>0, ClosedFields
  <2> QED BY <1>2, <1>10, <2>1 DEF CloseTx
<1>11. ASSUME NEW p \in Projects, EnsureProjectTx(p) PROVE Exists(i)'
  BY <1>1, <1>11 DEF EnsureProjectTx
<1>12. ASSUME NEW c \in Issues, NEW p \in Issues, AddDepTx(c, p) \/ RemoveDepTx(c, p)
       PROVE  Exists(i)'
  BY <1>1, <1>12 DEF AddDepTx, RemoveDepTx
<1>13. ASSUME NEW j \in Issues, NEW r \in Issues, SupersedeTx(j, r) PROVE Exists(i)'
  <2>1. Superseded(issue[j], r) \in Row /\ Superseded(issue[j], r).status = "closed"
    BY <1>0, SupersededFields
  <2> QED BY <1>2, <1>13, <2>1 DEF SupersedeTx
<1> QED BY <1>1, <1>3, <1>4, <1>5, <1>6, <1>7, <1>8, <1>9, <1>10, <1>11, <1>12, <1>13
        DEF RowsNext

\* A transaction gives at most one id a row it did not have.
LEMMA RowsGrow ==
    ASSUME RowsTypeOK, [RowsNext]_rowVars
    PROVE  \/ \A i \in Issues : Exists(i)' => Exists(i)
           \/ \E j \in Issues : \A i \in Issues : Exists(i)' => Exists(i) \/ i = j
<1>0. issue \in [Issues -> Row]
  BY DEF RowsTypeOK
<1> DEFINE None == \A i \in Issues : Exists(i)' => Exists(i)
           One == \E j \in Issues : \A i \in Issues : Exists(i)' => Exists(i) \/ i = j
<1>1. ASSUME issue' = issue PROVE None
  BY <1>1 DEF Exists
<1>2. ASSUME NEW j \in Issues, NEW row, issue' = [issue EXCEPT ![j] = row] PROVE One
  <2>1. \A i \in Issues \ {j} : issue'[i] = issue[i]
    BY <1>0, <1>2
  <2>2. \A i \in Issues : Exists(i)' => Exists(i) \/ i = j
    BY <2>1 DEF Exists
  <2> QED BY <2>2
<1>3. ASSUME NEW p \in Projects, DropProjectTx(p) PROVE None
  <2>1. \A i \in Issues : issue'[i] = issue[i] \/ issue'[i].status = "none"
    BY <1>3 DEF DropProjectTx, Absent
  <2> QED BY <2>1 DEF Exists
<1>4. ASSUME NEW at \in 0..now, SweepTx(at) PROVE None
  <2>1. \A i \in Issues : issue'[i] = issue[i] \/ issue'[i] = Freed(issue[i])
    BY <1>4 DEF SweepTx
  <2>2. \A i \in Issues : Freed(issue[i]).status = issue[i].status
    BY <1>0, FreedFields
  <2> QED BY <2>1, <2>2 DEF Exists
<1>5. ASSUME NEW j \in Issues, NEW ls \in SUBSET Labels, NEW available \in Int,
             CreateTx(j, ls, available)
      PROVE  One
  <2> HIDE DEF One
  <2> QED BY <1>2, <1>5 DEF CreateTx
<1>6. ASSUME NEW j \in Issues, NEW who \in Names, NEW ttl \in Int, NEW at \in 0..now,
             (\E k \in Kinds : ClaimTx(j, who, k, ttl, at)) \/ TouchTx(j, who, ttl, at)
      PROVE  One
  <2> DEFINE a(k) == [issue[j] EXCEPT !.assignee = who, !.kind = k, !.expires = at + ttl]
             b == [issue[j] EXCEPT !.expires = at + ttl]
  <2>1. (\E k \in Kinds : issue' = [issue EXCEPT ![j] = a(k)]) \/ issue' = [issue EXCEPT ![j] = b]
    BY <1>6 DEF ClaimTx, TouchTx
  <2> HIDE DEF One, a, b
  <2> QED BY <1>2, <2>1
<1>7. ASSUME NEW j \in Issues, ReleaseTx(j) PROVE One
  <2> HIDE DEF One
  <2> QED BY <1>2, <1>7 DEF ReleaseTx
<1>8. ASSUME NEW j \in Issues, NEW st \in Statuses, NEW ev \in SUBSET Evidence,
             NEW available \in Int, UpdateTx(j, st, ev, available)
      PROVE  One
  <2> DEFINE a == [issue[j] EXCEPT !.status = st, !.evidence = ev, !.available = available]
  <2>1. issue' = [issue EXCEPT ![j] = a]
    BY <1>8 DEF UpdateTx
  <2> HIDE DEF One, a
  <2> QED BY <1>2, <2>1
<1>9. ASSUME NEW j \in Issues, NEW ls \in SUBSET LabelSet, SetLabelsTx(j, ls) PROVE One
  <2> DEFINE a == [issue[j] EXCEPT !.labels = ls]
  <2>1. issue' = [issue EXCEPT ![j] = a]
    BY <1>9 DEF SetLabelsTx
  <2> HIDE DEF One, a
  <2> QED BY <1>2, <2>1
<1>10. ASSUME NEW j \in Issues, NEW ev \in SUBSET Evidence, CloseTx(j, ev) PROVE One
  <2> HIDE DEF One
  <2> QED BY <1>2, <1>10 DEF CloseTx
<1>11. ASSUME NEW j \in Issues, NEW r \in Issues, SupersedeTx(j, r) PROVE One
  <2> HIDE DEF One
  <2> QED BY <1>2, <1>11 DEF SupersedeTx
<1>12. CASE UNCHANGED rowVars
  BY <1>1, <1>12 DEF rowVars
<1>13. ASSUME NEW p \in Projects, EnsureProjectTx(p) PROVE None
  BY <1>1, <1>13 DEF EnsureProjectTx
<1>14. ASSUME NEW c \in Issues, NEW p \in Issues, AddDepTx(c, p) \/ RemoveDepTx(c, p) PROVE None
  BY <1>1, <1>14 DEF AddDepTx, RemoveDepTx
<1> HIDE DEF None, One
<1>15. ASSUME RowsNext PROVE None \/ One
  BY <1>15, <1>1, <1>3, <1>4, <1>5, <1>6, <1>7, <1>8, <1>9, <1>10, <1>11, <1>13, <1>14
     DEF RowsNext
<1> QED BY <1>12, <1>15 DEF None, One

\* EdgesResolve is kept by every transaction.
THEOREM RowsEdgesResolve == RowsTypeOK /\ EdgesResolve /\ [RowsNext]_rowVars => EdgesResolve'
<1> SUFFICES ASSUME RowsTypeOK, EdgesResolve, [RowsNext]_rowVars PROVE EdgesResolve'
  OBVIOUS
<1>0. dep \subseteq Issues \X Issues /\ \A e \in dep : Exists(e[1]) /\ Exists(e[2])
  BY DEF RowsTypeOK, EdgesResolve
<1>1. CASE UNCHANGED rowVars
  BY <1>1 DEF rowVars, EdgesResolve, Exists
<1>2. ASSUME NEW p \in Projects, DropProjectTx(p) PROVE EdgesResolve'
  <2>1. \A e \in dep' : issue'[e[1]] = issue[e[1]] /\ issue'[e[2]] = issue[e[2]]
    BY <1>0, <1>2 DEF DropProjectTx
  <2>2. dep' \subseteq dep
    BY <1>2 DEF DropProjectTx
  <2> QED BY <1>0, <2>1, <2>2 DEF EdgesResolve, Exists
<1>3. CASE RowsNext /\ ~\E p \in Projects : DropProjectTx(p)
  <2>1. \A i \in Issues : Exists(i) => Exists(i)'
    BY <1>3, RowsSurvive
  <2>2. ASSUME dep' \subseteq dep PROVE EdgesResolve'
    BY <1>0, <2>1, <2>2 DEF EdgesResolve, Exists
  <2>3. ASSUME NEW c \in Issues, NEW p \in Issues, AddDepTx(c, p) PROVE EdgesResolve'
    <3>1. dep' = dep \cup {<<c, p>>} /\ Exists(c) /\ Exists(p)
      BY <2>3 DEF AddDepTx
    <3> QED BY <1>0, <2>1, <3>1 DEF EdgesResolve, Exists
  <2>4. dep' \subseteq dep \/ \E c, p \in Issues : AddDepTx(c, p)
    BY <1>3 DEF RowsNext, EnsureProjectTx, CreateTx, ClaimTx, TouchTx, ReleaseTx, SweepTx,
           UpdateTx, SetLabelsTx, CloseTx, SupersedeTx, RemoveDepTx
  <2> QED BY <2>2, <2>3, <2>4
<1> QED BY <1>1, <1>2, <1>3

----------------------------------------------------------------------------
(* Claims are a lock *)

holderNow(i) == IF Held(i, now) THEN issue[i].assignee ELSE NoOne

\* A step that only lets holders go is an End of the lock.
LEMMA LeaseEnds ==
    ASSUME RowsTypeOK,
           \A i \in Issues : holderNow(i)' \in {holderNow(i), NoOne}
    PROVE  [Lease!Next]_heldBy
<1> DEFINE S == {i \in Issues : holderNow(i)' = NoOne}
<1>1. heldBy' = [i \in Issues |-> IF i \in S THEN NoOne ELSE heldBy[i]]
  BY DEF heldBy, holderNow
<1>2. S \in SUBSET Issues
  OBVIOUS
<1> QED BY <1>1, <1>2 DEF Lease!Next, Lease!End

\* A step that gives one free issue to a name is a Grant of the lock.
LEMMA LeaseGrants ==
    ASSUME NEW i \in Issues, NEW who \in Names,
           holderNow(i) = NoOne, holderNow(i)' = who,
           \A j \in Issues : j # i => holderNow(j)' = holderNow(j)
    PROVE  [Lease!Next]_heldBy
<1>1. heldBy[i] = NoOne
  BY DEF heldBy, holderNow
<1>2. heldBy' = [heldBy EXCEPT ![i] = who]
  BY DEF heldBy, holderNow
<1> QED BY <1>1, <1>2 DEF Lease!Next, Lease!Grant

\* A claim or a renewal of row i, by its holder or of a row nobody holds.
LEMMA LeaseOneRow ==
    ASSUME RowsTypeOK, NEW i \in Issues, NEW who \in Names, NEW new \in Row,
           issue' = [issue EXCEPT ![i] = new], now' = now,
           new.assignee = who,
           holderNow(i) \in {NoOne, who}
    PROVE  [Lease!Next]_heldBy
<1>0. issue \in [Issues -> Row]
  BY DEF RowsTypeOK
<1>1. issue'[i] = new /\ \A j \in Issues : j # i => issue'[j] = issue[j]
  BY <1>0
<1>2. \A j \in Issues : j # i => holderNow(j)' = holderNow(j)
  BY <1>1 DEF holderNow, Held
<1>3. holderNow(i)' \in {NoOne, who}
  BY <1>1 DEF holderNow, Held
<1>4. CASE holderNow(i) = NoOne /\ holderNow(i)' = who
  BY <1>2, <1>4, LeaseGrants
<1>5. CASE holderNow(i)' = NoOne \/ holderNow(i)' = holderNow(i)
  BY <1>2, <1>5, LeaseEnds
<1> QED BY <1>3, <1>4, <1>5

\* Setting other columns of row i leaves the lock alone.
LEMMA LeaseSameClaim ==
    ASSUME RowsTypeOK, NEW i \in Issues, NEW new \in Row,
           issue' = [issue EXCEPT ![i] = new], now' = now,
           \/ new.assignee = issue[i].assignee /\ new.expires = issue[i].expires
           \/ new.assignee = NoOne
    PROVE  [Lease!Next]_heldBy
<1>0. issue \in [Issues -> Row]
  BY DEF RowsTypeOK
<1>1. issue'[i] = new /\ \A j \in Issues : j # i => issue'[j] = issue[j]
  BY <1>0
<1>2. \A j \in Issues : j # i => holderNow(j)' = holderNow(j)
  BY <1>1 DEF holderNow, Held
<1>3. holderNow(i)' \in {holderNow(i), NoOne}
  BY <1>1 DEF holderNow, Held
<1> QED BY <1>2, <1>3, LeaseEnds

\* Who a transaction finds holding row i, on a clock reading `at` that is not ahead.
LEMMA HeldEarlier ==
    ASSUME RowsTypeOK, NEW i \in Issues, NEW at \in 0..now, Held(i, now)
    PROVE  Held(i, at) /\ ~Lapsed(i, at)
<1>1. issue[i].expires \in Int /\ now \in Int /\ at \in Int /\ at <= now
  BY DEF RowsTypeOK, Row
<1> QED BY <1>1 DEF Held, Lapsed

\* Every transaction is a step of the lock (LeaseSpec).
THEOREM RowsLease == RowsTypeOK /\ [RowsNext]_rowVars => [Lease!Next]_heldBy
<1> SUFFICES ASSUME RowsTypeOK, [RowsNext]_rowVars PROVE [Lease!Next]_heldBy
  OBVIOUS
<1>0. /\ now \in Nat /\ issue \in [Issues -> Row]
      /\ \A j \in Issues : issue[j] \in Row /\ RowConsistent(issue[j])
  BY DEF RowsTypeOK
<1>a. ASSUME issue' = issue, now' = now PROVE [Lease!Next]_heldBy
  <2>1. \A i \in Issues : holderNow(i)' = holderNow(i)
    BY <1>a DEF holderNow, Held
  <2> QED BY <2>1, LeaseEnds
<1>1. ASSUME NEW p \in Projects, EnsureProjectTx(p) PROVE [Lease!Next]_heldBy
  BY <1>1, <1>a DEF EnsureProjectTx
<1>2. ASSUME NEW p \in Projects, DropProjectTx(p) PROVE [Lease!Next]_heldBy
  <2>1. \A i \in Issues : issue'[i] = Absent \/ issue'[i] = issue[i]
    BY <1>2 DEF DropProjectTx
  <2>2. Absent.assignee = NoOne
    BY DEF Absent
  <2>3. now' = now
    BY <1>2 DEF DropProjectTx
  <2>4. \A i \in Issues : holderNow(i)' \in {holderNow(i), NoOne}
    BY <2>1, <2>2, <2>3 DEF holderNow, Held
  <2> QED BY <2>4, LeaseEnds
<1>3. ASSUME NEW i \in Issues, NEW ls \in SUBSET Labels, NEW available \in Int,
             CreateTx(i, ls, available)
      PROVE  [Lease!Next]_heldBy
  <2> DEFINE new == [Absent EXCEPT !.status = "open", !.available = available, !.labels = ls]
  <2>1. new.assignee = NoOne
    BY DEF Absent
  <2>2. issue' = [issue EXCEPT ![i] = new] /\ now' = now
    BY <1>3 DEF CreateTx
  <2> HIDE DEF new
  <2>3. issue'[i].assignee = NoOne /\ \A j \in Issues : j # i => issue'[j] = issue[j]
    BY <1>0, <2>1, <2>2
  <2>4. \A j \in Issues : holderNow(j)' \in {holderNow(j), NoOne}
    BY <2>2, <2>3 DEF holderNow, Held
  <2> QED BY <2>4, LeaseEnds
<1>4. ASSUME NEW i \in Issues, NEW who \in Names, NEW k \in Kinds, NEW ttl \in Int,
             NEW at \in 0..now, ClaimTx(i, who, k, ttl, at)
      PROVE  [Lease!Next]_heldBy
  <2> DEFINE new == [issue[i] EXCEPT !.assignee = who, !.kind = k, !.expires = at + ttl]
  <2>1. issue[i] \in Row /\ at + ttl \in Int
    BY <1>0
  <2>2. new \in Row
    BY <2>1, ClaimColumns
  <2>3. new.assignee = who
    BY <2>1 DEF Row
  <2>4. issue' = [issue EXCEPT ![i] = new] /\ now' = now
    BY <1>4 DEF ClaimTx
  <2>5. holderNow(i) \in {NoOne, who}
    <3>1. CASE Held(i, now)
      <4>1. Held(i, at)
        BY <3>1, HeldEarlier
      <4>2. issue[i].assignee = who
        BY <1>4, <4>1 DEF ClaimTx
      <4> QED BY <3>1, <4>2 DEF holderNow
    <3>2. CASE ~Held(i, now)
      BY <3>2 DEF holderNow
    <3> QED BY <3>1, <3>2
  <2> HIDE DEF new
  <2> QED BY <2>2, <2>3, <2>4, <2>5, LeaseOneRow
<1>5. ASSUME NEW i \in Issues, NEW who \in Names, NEW ttl \in Int, NEW at \in 0..now,
             TouchTx(i, who, ttl, at)
      PROVE  [Lease!Next]_heldBy
  <2> DEFINE new == [issue[i] EXCEPT !.expires = at + ttl]
  <2>1. issue[i] \in Row /\ at + ttl \in Int
    BY <1>0
  <2>2. new \in Row /\ new.assignee = issue[i].assignee
    BY <2>1 DEF Row
  <2>3. issue' = [issue EXCEPT ![i] = new] /\ now' = now /\ issue[i].assignee = who
    BY <1>5 DEF TouchTx
  <2>4. holderNow(i) \in {NoOne, who}
    BY <2>3 DEF holderNow
  <2> HIDE DEF new
  <2> QED BY <2>2, <2>3, <2>4, LeaseOneRow
<1>6. ASSUME NEW i \in Issues, ReleaseTx(i) PROVE [Lease!Next]_heldBy
  <2>1. Freed(issue[i]) \in Row /\ Freed(issue[i]).assignee = NoOne
    BY <1>0, FreedFields
  <2> QED BY <1>6, <2>1, LeaseSameClaim DEF ReleaseTx
<1>7. ASSUME NEW at \in 0..now, SweepTx(at) PROVE [Lease!Next]_heldBy
  <2>1. now' = now /\ \A i \in Issues : issue'[i] = Freed(issue[i]) \/ issue'[i] = issue[i]
    BY <1>7 DEF SweepTx
  <2>2. \A i \in Issues : Freed(issue[i]).assignee = NoOne
    BY <1>0, FreedFields
  <2>3. \A i \in Issues : holderNow(i)' \in {holderNow(i), NoOne}
    BY <2>1, <2>2 DEF holderNow, Held
  <2> QED BY <2>3, LeaseEnds
<1>8. ASSUME NEW i \in Issues, NEW st \in Statuses, NEW ev \in SUBSET Evidence,
             NEW available \in Int, UpdateTx(i, st, ev, available)
      PROVE  [Lease!Next]_heldBy
  <2> DEFINE new == [issue[i] EXCEPT !.status = st, !.evidence = ev, !.available = available]
  <2>1. issue[i] \in Row
    BY <1>0
  <2>2. new \in Row
    BY <2>1, EditColumns
  <2>3. new.assignee = issue[i].assignee /\ new.expires = issue[i].expires
    BY <2>1 DEF Row
  <2>4. issue' = [issue EXCEPT ![i] = new] /\ now' = now
    BY <1>8 DEF UpdateTx
  <2> HIDE DEF new
  <2> QED BY <2>2, <2>3, <2>4, LeaseSameClaim
<1>9. ASSUME NEW i \in Issues, NEW ls \in SUBSET LabelSet, SetLabelsTx(i, ls)
      PROVE  [Lease!Next]_heldBy
  <2> DEFINE new == [issue[i] EXCEPT !.labels = ls]
  <2>1. issue[i] \in Row
    BY <1>0
  <2>2. new \in Row
    BY <2>1 DEF Row
  <2>3. new.assignee = issue[i].assignee /\ new.expires = issue[i].expires
    BY <2>1 DEF Row
  <2>4. issue' = [issue EXCEPT ![i] = new] /\ now' = now
    BY <1>9 DEF SetLabelsTx
  <2> HIDE DEF new
  <2> QED BY <2>2, <2>3, <2>4, LeaseSameClaim
<1>10. ASSUME NEW i \in Issues, NEW ev \in SUBSET Evidence, CloseTx(i, ev)
       PROVE  [Lease!Next]_heldBy
  <2>1. Closed(issue[i], ev) \in Row /\ Closed(issue[i], ev).assignee = NoOne
    BY <1>0, ClosedFields
  <2> QED BY <1>10, <2>1, LeaseSameClaim DEF CloseTx
<1>11. ASSUME NEW c \in Issues, NEW p \in Issues, AddDepTx(c, p) \/ RemoveDepTx(c, p)
       PROVE  [Lease!Next]_heldBy
  BY <1>11, <1>a DEF AddDepTx, RemoveDepTx
<1>12. CASE UNCHANGED <<projects, issue, dep>> /\ events' = {} /\ now' \in {now, now + 1}
  <2>1. ASSUME NEW i \in Issues, Held(i, now)' PROVE Held(i, now)
    <3>1. issue[i].expires \in Int /\ now \in Int
      BY <1>0 DEF Row
    <3>2. issue[i].assignee # NoOne /\ issue[i].expires > now'
      BY <1>12, <2>1 DEF Held
    <3>3. issue[i].expires > now
      BY <1>12, <3>1, <3>2
    <3> QED BY <3>2, <3>3 DEF Held
  <2>2. \A i \in Issues : holderNow(i)' \in {holderNow(i), NoOne}
    BY <1>12, <2>1 DEF holderNow
  <2> QED BY <2>2, LeaseEnds
<1>13. CASE UNCHANGED rowVars
  BY <1>13, <1>a DEF rowVars
<1>14. ASSUME NEW i \in Issues, NEW r \in Issues, SupersedeTx(i, r)
       PROVE  [Lease!Next]_heldBy
  <2>1. Superseded(issue[i], r) \in Row /\ Superseded(issue[i], r).assignee = NoOne
    BY <1>0, SupersededFields
  <2> QED BY <1>14, <2>1, LeaseSameClaim DEF SupersedeTx
<1> QED BY <1>1, <1>2, <1>3, <1>4, <1>5, <1>6, <1>7, <1>8, <1>9, <1>10, <1>11, <1>12,
           <1>13, <1>14 DEF RowsNext

\* A step that keeps row i's assignee, or clears it with a release or a close, or
\* changes a row that is not under a live claim, respects LiveClaimStep.
LEMMA LiveClaimRow ==
    ASSUME RowsTypeOK, NEW i \in Issues, NEW new \in Row,
           issue' = [issue EXCEPT ![i] = new],
           \/ new.assignee = issue[i].assignee
           \/ \E e \in events' : e.issue = i /\ e.event \in {"released", "closed"}
           \/ ~Held(i, now)
    PROVE  LiveClaimStep
<1>0. issue \in [Issues -> Row]
  BY DEF RowsTypeOK
<1>1. issue'[i] = new /\ \A j \in Issues : j # i => issue'[j] = issue[j]
  BY <1>0
<1> QED BY <1>1 DEF LiveClaimStep

\* LiveClaimEnds, step by step.
THEOREM RowsLiveClaim == RowsTypeOK /\ [RowsNext]_rowVars => [LiveClaimStep]_rowVars
<1> SUFFICES ASSUME RowsTypeOK, RowsNext PROVE LiveClaimStep
  OBVIOUS
<1>0. /\ now \in Nat /\ issue \in [Issues -> Row]
      /\ \A j \in Issues : issue[j] \in Row /\ RowConsistent(issue[j])
  BY DEF RowsTypeOK
<1>a. ASSUME issue' = issue PROVE LiveClaimStep
  BY <1>a DEF LiveClaimStep
<1>1. ASSUME NEW p \in Projects, EnsureProjectTx(p) PROVE LiveClaimStep
  BY <1>1, <1>a DEF EnsureProjectTx
<1>2. ASSUME NEW p \in Projects, DropProjectTx(p) PROVE LiveClaimStep
  <2>1. \A i \in Issues : issue'[i] = Absent \/ issue'[i] = issue[i]
    BY <1>2 DEF DropProjectTx
  <2>2. Absent.status = "none"
    BY DEF Absent
  <2> QED BY <2>1, <2>2 DEF LiveClaimStep
<1>3. ASSUME NEW i \in Issues, NEW ls \in SUBSET Labels, NEW available \in Int,
             CreateTx(i, ls, available)
      PROVE  LiveClaimStep
  <2>1. \A j \in Issues : j # i => issue'[j] = issue[j]
    BY <1>0, <1>3 DEF CreateTx
  <2>2. ~Held(i, now)
    <3>1. Absent.assignee = NoOne
      BY DEF Absent
    <3> QED BY <1>0, <1>3, <3>1 DEF CreateTx, Exists, RowConsistent, Held
  <2> QED BY <2>1, <2>2 DEF LiveClaimStep
<1>4. ASSUME NEW i \in Issues, NEW who \in Names, NEW k \in Kinds, NEW ttl \in Int,
             NEW at \in 0..now, ClaimTx(i, who, k, ttl, at)
      PROVE  LiveClaimStep
  <2> DEFINE new == [issue[i] EXCEPT !.assignee = who, !.kind = k, !.expires = at + ttl]
  <2>1. issue[i] \in Row /\ at + ttl \in Int
    BY <1>0
  <2>2. new \in Row
    BY <2>1, ClaimColumns
  <2>3. new.assignee = who
    BY <2>1 DEF Row
  <2>4. issue' = [issue EXCEPT ![i] = new]
    BY <1>4 DEF ClaimTx
  <2>5. issue[i].assignee = who \/ ~Held(i, now)
    BY <1>4, HeldEarlier DEF ClaimTx
  <2> HIDE DEF new
  <2> QED BY <2>2, <2>3, <2>4, <2>5, LiveClaimRow
<1>5. ASSUME NEW i \in Issues, NEW who \in Names, NEW ttl \in Int, NEW at \in 0..now,
             TouchTx(i, who, ttl, at)
      PROVE  LiveClaimStep
  <2> DEFINE new == [issue[i] EXCEPT !.expires = at + ttl]
  <2>1. issue[i] \in Row /\ at + ttl \in Int
    BY <1>0
  <2>2. new \in Row /\ new.assignee = issue[i].assignee
    BY <2>1 DEF Row
  <2>3. issue' = [issue EXCEPT ![i] = new]
    BY <1>5 DEF TouchTx
  <2> HIDE DEF new
  <2> QED BY <2>2, <2>3, LiveClaimRow
<1>6. ASSUME NEW i \in Issues, ReleaseTx(i) PROVE LiveClaimStep
  <2>1. Freed(issue[i]) \in Row
    BY <1>0, FreedFields
  <2>2. \E e \in events' : e.issue = i /\ e.event \in {"released", "closed"}
    BY <1>6 DEF ReleaseTx, Logged
  <2> QED BY <1>6, <2>1, <2>2, LiveClaimRow DEF ReleaseTx
<1>7. ASSUME NEW at \in 0..now, SweepTx(at) PROVE LiveClaimStep
  <2>1. \A i \in Issues : issue'[i] = issue[i] \/ Lapsed(i, at)
    BY <1>7 DEF SweepTx
  <2> QED BY <2>1, HeldEarlier DEF LiveClaimStep
<1>8. ASSUME NEW i \in Issues, NEW st \in Statuses, NEW ev \in SUBSET Evidence,
             NEW available \in Int, UpdateTx(i, st, ev, available)
      PROVE  LiveClaimStep
  <2> DEFINE new == [issue[i] EXCEPT !.status = st, !.evidence = ev, !.available = available]
  <2>1. issue[i] \in Row
    BY <1>0
  <2>2. new \in Row
    BY <2>1, EditColumns
  <2>3. new.assignee = issue[i].assignee
    BY <2>1 DEF Row
  <2>4. issue' = [issue EXCEPT ![i] = new]
    BY <1>8 DEF UpdateTx
  <2> HIDE DEF new
  <2> QED BY <2>2, <2>3, <2>4, LiveClaimRow
<1>9. ASSUME NEW i \in Issues, NEW ls \in SUBSET LabelSet, SetLabelsTx(i, ls)
      PROVE  LiveClaimStep
  <2> DEFINE new == [issue[i] EXCEPT !.labels = ls]
  <2>1. issue[i] \in Row
    BY <1>0
  <2>2. new \in Row
    BY <2>1 DEF Row
  <2>3. new.assignee = issue[i].assignee
    BY <2>1 DEF Row
  <2>4. issue' = [issue EXCEPT ![i] = new]
    BY <1>9 DEF SetLabelsTx
  <2> HIDE DEF new
  <2> QED BY <2>2, <2>3, <2>4, LiveClaimRow
<1>10. ASSUME NEW i \in Issues, NEW ev \in SUBSET Evidence, CloseTx(i, ev)
       PROVE  LiveClaimStep
  <2>1. Closed(issue[i], ev) \in Row
    BY <1>0, ClosedFields
  <2>2. \E e \in events' : e.issue = i /\ e.event \in {"released", "closed"}
    BY <1>10 DEF CloseTx, Logged
  <2> QED BY <1>10, <2>1, <2>2, LiveClaimRow DEF CloseTx
<1>11. ASSUME NEW c \in Issues, NEW p \in Issues, AddDepTx(c, p) \/ RemoveDepTx(c, p)
       PROVE  LiveClaimStep
  BY <1>11, <1>a DEF AddDepTx, RemoveDepTx
<1>12. CASE UNCHANGED <<projects, issue, dep>> /\ events' = {} /\ now' \in {now, now + 1}
  BY <1>12, <1>a
<1>13. ASSUME NEW i \in Issues, NEW r \in Issues, SupersedeTx(i, r) PROVE LiveClaimStep
  <2>1. Superseded(issue[i], r) \in Row
    BY <1>0, SupersededFields
  <2>2. \E e \in events' : e.issue = i /\ e.event \in {"released", "closed"}
    <3>1. Logged(i, "closed") \in events'
      BY <1>13 DEF SupersedeTx
    <3>2. Logged(i, "closed").issue = i /\ Logged(i, "closed").event = "closed"
      BY DEF Logged
    <3> QED BY <3>1, <3>2
  <2> QED BY <1>13, <2>1, <2>2, LiveClaimRow DEF SupersedeTx
<1> QED BY <1>1, <1>2, <1>3, <1>4, <1>5, <1>6, <1>7, <1>8, <1>9, <1>10, <1>11, <1>12,
           <1>13 DEF RowsNext

----------------------------------------------------------------------------
(* The audit trail *)

\* An event logged for a row that is there after the step is queued.
LEMMA LoggedAccounts ==
    ASSUME NEW i \in Issues, NEW n \in EventNames, NEW names, n \in names,
           Logged(i, n) \in events', issue'[i].status # "none"
    PROVE  Accounted(i, names)
<1>1. Logged(i, n).issue = i /\ Logged(i, n).event = n /\ Logged(i, n).queued
  BY DEF Logged
<1> QED BY <1>1 DEF Accounted

\* A step on one row that logs an event for it, a claim event if the assignee changes.
LEMMA AuditRow ==
    ASSUME RowsTypeOK, NEW i \in Issues, NEW new, NEW n \in EventNames,
           issue' = [issue EXCEPT ![i] = new], dep' = dep,
           Logged(i, n) \in events',
           new.assignee = issue[i].assignee \/ n \in ClaimEvents
    PROVE  RowsAudited /\ EdgesAudited
<1>0. issue \in [Issues -> Row]
  BY DEF RowsTypeOK
<1>1. issue'[i] = new /\ \A j \in Issues : j # i => issue'[j] = issue[j]
  BY <1>0
<1>2. ASSUME issue'[i].status # "none" PROVE Accounted(i, EventNames)
  BY <1>2, LoggedAccounts
<1>3. ASSUME issue'[i].status # "none", n \in ClaimEvents PROVE Accounted(i, ClaimEvents)
  BY <1>3, LoggedAccounts
<1>4. RowsAudited
  BY <1>1, <1>2, <1>3 DEF RowsAudited
<1>5. EdgesAudited
  BY DEF EdgesAudited
<1> QED BY <1>4, <1>5

\* AuditTrail, step by step.
THEOREM RowsAudit == RowsTypeOK /\ [RowsNext]_rowVars => [RowsAudited /\ EdgesAudited]_rowVars
<1> DEFINE Audited == RowsAudited /\ EdgesAudited
<1> SUFFICES ASSUME RowsTypeOK, RowsNext PROVE Audited
  OBVIOUS
<1>0. /\ issue \in [Issues -> Row] /\ dep \subseteq Issues \X Issues
      /\ \A j \in Issues : issue[j] \in Row /\ RowConsistent(issue[j])
  BY DEF RowsTypeOK
<1>a. ASSUME issue' = issue, dep' = dep PROVE Audited
  BY <1>a DEF RowsAudited, EdgesAudited
<1>1. ASSUME NEW p \in Projects, EnsureProjectTx(p) PROVE Audited
  BY <1>1, <1>a DEF EnsureProjectTx
<1>2. ASSUME NEW p \in Projects, DropProjectTx(p) PROVE Audited
  <2>1. \A i \in Issues : issue'[i] = Absent \/ issue'[i] = issue[i]
    BY <1>2 DEF DropProjectTx
  <2>2. Absent.status = "none"
    BY DEF Absent
  <2>3. RowsAudited
    BY <2>1, <2>2 DEF RowsAudited
  <2>4. ASSUME NEW e \in (dep \ dep') \cup (dep' \ dep)
        PROVE  issue'[e[1]] = Absent \/ issue'[e[2]] = Absent
    <3>1. e \in dep /\ e[1] \in Issues /\ e[2] \in Issues
      BY <1>0, <1>2 DEF DropProjectTx
    <3>2. ProjectOf[e[1]] = p \/ ProjectOf[e[2]] = p
      BY <1>2, <2>4, <3>1 DEF DropProjectTx
    <3>3. \A i \in Issues : ProjectOf[i] = p => issue'[i] = Absent
      BY <1>2 DEF DropProjectTx
    <3> QED BY <3>1, <3>2, <3>3
  <2>5. EdgesAudited
    BY <2>2, <2>4 DEF EdgesAudited
  <2> QED BY <2>3, <2>5
<1>3. ASSUME NEW i \in Issues, NEW ls \in SUBSET Labels, NEW available \in Int,
             CreateTx(i, ls, available)
      PROVE  Audited
  <2> DEFINE new == [Absent EXCEPT !.status = "open", !.available = available, !.labels = ls]
  <2>1. new.assignee = Absent.assignee
    BY DEF Absent
  <2>2. issue[i] = Absent
    BY <1>0, <1>3 DEF CreateTx, Exists, RowConsistent
  <2>3. issue' = [issue EXCEPT ![i] = new] /\ dep' = dep /\ Logged(i, "created") \in events'
    BY <1>3 DEF CreateTx
  <2>4. "created" \in EventNames
    BY DEF EventNames
  <2> HIDE DEF new
  <2> QED BY <2>1, <2>2, <2>3, <2>4, AuditRow
<1>4. ASSUME NEW i \in Issues, NEW who \in Names, NEW k \in Kinds, NEW ttl \in Int,
             NEW at \in 0..now, ClaimTx(i, who, k, ttl, at)
      PROVE  Audited
  <2> DEFINE new == [issue[i] EXCEPT !.assignee = who, !.kind = k, !.expires = at + ttl]
  <2>1. issue' = [issue EXCEPT ![i] = new] /\ dep' = dep /\ Logged(i, "claimed") \in events'
    BY <1>4 DEF ClaimTx
  <2>2. "claimed" \in EventNames /\ "claimed" \in ClaimEvents
    BY DEF EventNames, ClaimEvents
  <2> HIDE DEF new
  <2> QED BY <2>1, <2>2, AuditRow
<1>5. ASSUME NEW i \in Issues, NEW who \in Names, NEW ttl \in Int, NEW at \in 0..now,
             TouchTx(i, who, ttl, at)
      PROVE  Audited
  <2> DEFINE new == [issue[i] EXCEPT !.expires = at + ttl]
  <2>1. issue[i] \in Row
    BY <1>0
  <2>2. new.assignee = issue[i].assignee
    BY <2>1 DEF Row
  <2>3. issue' = [issue EXCEPT ![i] = new] /\ dep' = dep /\ Logged(i, "heartbeat") \in events'
    BY <1>5 DEF TouchTx
  <2>4. "heartbeat" \in EventNames
    BY DEF EventNames
  <2> HIDE DEF new
  <2> QED BY <2>2, <2>3, <2>4, AuditRow
<1>6. ASSUME NEW i \in Issues, ReleaseTx(i) PROVE Audited
  <2>1. "released" \in EventNames /\ "released" \in ClaimEvents
    BY DEF EventNames, ClaimEvents
  <2>2. /\ issue' = [issue EXCEPT ![i] = Freed(issue[i])] /\ dep' = dep
        /\ Logged(i, "released") \in events'
    BY <1>6 DEF ReleaseTx
  <2> QED BY <2>1, <2>2, AuditRow
<1>7. ASSUME NEW at \in 0..now, SweepTx(at) PROVE Audited
  <2>1. ASSUME NEW i \in Issues, issue'[i] # issue[i]
        PROVE  Logged(i, "claim_expired") \in events'
    BY <1>7, <2>1 DEF SweepTx
  <2>2. "claim_expired" \in EventNames /\ "claim_expired" \in ClaimEvents
    BY DEF EventNames, ClaimEvents
  <2>3. ASSUME NEW i \in Issues, issue'[i] # issue[i], issue'[i].status # "none"
        PROVE  Accounted(i, EventNames) /\ Accounted(i, ClaimEvents)
    BY <2>1, <2>2, <2>3, LoggedAccounts
  <2>4. RowsAudited
    BY <2>3 DEF RowsAudited
  <2>5. EdgesAudited
    BY <1>7 DEF SweepTx, EdgesAudited
  <2> QED BY <2>4, <2>5
<1>8. ASSUME NEW i \in Issues, NEW st \in Statuses, NEW ev \in SUBSET Evidence,
             NEW available \in Int, UpdateTx(i, st, ev, available)
      PROVE  Audited
  <2> DEFINE new == [issue[i] EXCEPT !.status = st, !.evidence = ev, !.available = available]
  <2>1. issue[i] \in Row
    BY <1>0
  <2>2. new.assignee = issue[i].assignee
    BY <2>1 DEF Row
  <2>3. issue' = [issue EXCEPT ![i] = new] /\ dep' = dep /\ Logged(i, "updated") \in events'
    BY <1>8 DEF UpdateTx
  <2>4. "updated" \in EventNames
    BY DEF EventNames
  <2> HIDE DEF new
  <2> QED BY <2>2, <2>3, <2>4, AuditRow
<1>9. ASSUME NEW i \in Issues, NEW ls \in SUBSET LabelSet, SetLabelsTx(i, ls) PROVE Audited
  <2> DEFINE new == [issue[i] EXCEPT !.labels = ls]
  <2>1. issue[i] \in Row
    BY <1>0
  <2>2. new.assignee = issue[i].assignee
    BY <2>1 DEF Row
  <2>3. issue' = [issue EXCEPT ![i] = new] /\ dep' = dep /\ Logged(i, "labels") \in events'
    BY <1>9 DEF SetLabelsTx
  <2>4. "labels" \in EventNames
    BY DEF EventNames
  <2> HIDE DEF new
  <2> QED BY <2>2, <2>3, <2>4, AuditRow
<1>c. "closed" \in EventNames /\ "closed" \in ClaimEvents
  BY DEF EventNames, ClaimEvents
<1>10. ASSUME NEW i \in Issues, NEW ev \in SUBSET Evidence, CloseTx(i, ev) PROVE Audited
  <2>1. /\ issue' = [issue EXCEPT ![i] = Closed(issue[i], ev)] /\ dep' = dep
        /\ Logged(i, "closed") \in events'
    BY <1>10 DEF CloseTx
  <2> QED BY <1>c, <2>1, AuditRow
<1>11. ASSUME NEW i \in Issues, NEW r \in Issues, SupersedeTx(i, r) PROVE Audited
  <2>1. /\ issue' = [issue EXCEPT ![i] = Superseded(issue[i], r)] /\ dep' = dep
        /\ Logged(i, "closed") \in events'
    BY <1>11 DEF SupersedeTx
  <2> QED BY <1>c, <2>1, AuditRow
<1>12. ASSUME NEW c \in Issues, NEW p \in Issues, AddDepTx(c, p) \/ RemoveDepTx(c, p)
       PROVE  Audited
  <2> DEFINE names == {"depends_on", "unblocked_from"}
  <2>1. issue' = issue /\ \A e \in (dep \ dep') \cup (dep' \ dep) : e = <<c, p>>
    BY <1>12 DEF AddDepTx, RemoveDepTx
  <2>2. PICK n \in names : Logged(c, n) \in events'
    BY <1>12 DEF AddDepTx, RemoveDepTx
  <2>3. n \in EventNames
    BY DEF EventNames
  <2>4. issue'[c].status # "none" => Accounted(c, names)
    BY <2>2, <2>3, LoggedAccounts
  <2>5. \A e \in (dep \ dep') \cup (dep' \ dep) : e[1] = c
    BY <2>1
  <2>6. EdgesAudited
    BY <2>4, <2>5 DEF EdgesAudited
  <2>7. RowsAudited
    BY <2>1 DEF RowsAudited
  <2> QED BY <2>6, <2>7
<1>13. CASE UNCHANGED <<projects, issue, dep>> /\ events' = {} /\ now' \in {now, now + 1}
  BY <1>13, <1>a
<1> HIDE DEF Audited
<1> QED BY <1>1, <1>2, <1>3, <1>4, <1>5, <1>6, <1>7, <1>8, <1>9, <1>10, <1>11, <1>12,
           <1>13 DEF RowsNext
==============================================================================
