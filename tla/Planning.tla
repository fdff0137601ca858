------------------------------- MODULE Planning -------------------------------
(****************************************************************************)
(* The requests that write a plan, an export or the folder tree as many     *)
(* transactions, while other clients work on the same rows:                 *)
(*   - plan::create (src/src/plan.rs, the CLI and plans.create);            *)
(*   - the JSONL importer (src/src/jsonl.rs), made to be run again;         *)
(*   - the array importer (src/src/import.rs, issues.import);               *)
(*   - folders and project placement (src/src/db.rs).                       *)
(*                                                                          *)
(* A job is the transactions its client has still to make.  It can stop     *)
(* before any of them: an error, or the process dies.  What a reader may    *)
(* compute at any point is in WorkGraph and Portfolio.                      *)
(****************************************************************************)
EXTENDS Portfolio


CONSTANTS
    Clients,        \* who runs jobs
    Cases,          \* bound: what may happen in a behaviour, as records of
                    \*   ops: what its clients do; specs: plan specs, sequences of nodes;
                    \*   files: exports, sequences of rows; patches: statuses set by hand;
                    \*   types: of the issues made by hand; made: their ids
    Window          \* days of the burndown

ASSUME WindowAssumption == Window \in Nat

SpecNode == [key : Keys, deps : SUBSET Keys, group : Groups \cup {NoGroup},
             estimate : Estimates \cup {0}, project : Projects]
ExportRow == [id : Issues, deps : SUBSET Issues, status : Statuses, parent : Issues \cup {0}]

ASSUME CasesAssumption ==
    \A k \in Cases :
        /\ k.specs \subseteq Seq(SpecNode) /\ k.files \subseteq Seq(ExportRow)
        /\ \A s \in k.specs \cup k.files : \A n \in DOMAIN s : IsFiniteSet(s[n].deps)
        /\ k.patches \subseteq Statuses /\ k.types \subseteq Types /\ k.made \subseteq Issues

VARIABLES
    scene,      \* bound: the case of this behaviour
    spec,       \* the plan spec of this behaviour
    file,       \* the export of this behaviour
    job         \* per client: the transactions to come, and what it knows

readVars == <<fact, folder, placed>>
caseVars == <<scene, spec, file>>
vars == <<rowVars, readVars, caseVars, job>>

NoJob == [busy |-> FALSE, resumable |-> FALSE, todo |-> <<>>, ids |-> [k \in Keys |-> 0], at |-> 0,
          failed |-> <<>>, progressed |-> FALSE]

Started(todo, at, resumable) ==
    [busy |-> TRUE, resumable |-> resumable, todo |-> todo, ids |-> [k \in Keys |-> 0], at |-> at,
     failed |-> <<>>, progressed |-> FALSE]

Offered(op) == op \in scene.ops
Idle(c) == ~job[c].busy

----------------------------------------------------------------------------
(* Plan specs *)

SpecKeys(sp) == {sp[n].key : n \in DOMAIN sp}
SpecEdges(sp) == UNION {{<<sp[n].key, d>> : d \in sp[n].deps} : n \in DOMAIN sp}

\* The keys the visit of `validate` paints from k: k and all it depends on.
Painted(sp, k) ==
    LET paint[n \in 0..Len(sp)] ==
          IF n = 0 THEN {k}
          ELSE paint[n - 1] \cup {e[2] : e \in {d \in SpecEdges(sp) : d[1] \in paint[n - 1]}}
    IN  paint[Len(sp)]

\* Every key once, every dependency known and not the node itself, and no cycle.
Valid(sp) ==
    /\ sp # <<>>
    /\ Cardinality(SpecKeys(sp)) = Len(sp)
    /\ \A e \in SpecEdges(sp) : e[2] # e[1] /\ e[2] \in SpecKeys(sp)
    /\ \A e \in SpecEdges(sp) : e[1] \notin Painted(sp, e[2])

Wires(sp) ==
    FlattenSeq([n \in DOMAIN sp |->
        SetToSeq({[op |-> "wire", child |-> sp[n].key, parent |-> d] : d \in sp[n].deps})])

PlanScript(sp) == [n \in DOMAIN sp |-> [op |-> "node", node |-> sp[n]]] \o Wires(sp)

\* Mutant: closed nodes of the plan are not looked at.
Existing_Open == {i \in PlanNodes : issue[i].status # "closed"}

Existing == PlanNodes

----------------------------------------------------------------------------
(* Jobs *)

\* All the nodes are created, immediately visible, and then all the edges.
StartPlan(c) ==
    /\ Offered("plan") /\ Idle(c)
    /\ Valid(spec) /\ Existing = {}
    /\ job' = [job EXCEPT ![c] = Started(PlanScript(spec), now, FALSE)]
    /\ UNCHANGED <<rowVars, readVars, caseVars>>

Internals(r) == SetToSeq({[op |-> "edge", child |-> r.id, parent |-> d] : d \in r.deps \ {r.id}})

\* Mutant: the edges of a row are added as soon as the row is.
ImportScript_RowByRow(f) ==
    FlattenSeq([n \in DOMAIN f |-> <<[op |-> "row", row |-> f[n]]>> \o Internals(f[n])])
    \o [n \in DOMAIN f |-> [op |-> "settle", row |-> f[n]]] \o <<[op |-> "round"]>>

\* Every row, then every edge, then rounds of statuses.
ImportScript(f) ==
    [n \in DOMAIN f |-> [op |-> "row", row |-> f[n]]]
    \o FlattenSeq([n \in DOMAIN f |-> Internals(f[n])])
    \o [n \in DOMAIN f |-> [op |-> "settle", row |-> f[n]]] \o <<[op |-> "round"]>>

\* A row of the export that exists and was not imported is a conflict: nothing is written.
StartImport(c) ==
    /\ Offered("import") /\ Idle(c)
    /\ \A n \in DOMAIN file : Exists(file[n].id) => fact[file[n].id].imported
    /\ job' = [job EXCEPT ![c] = Started(ImportScript(file), 0, TRUE)]
    /\ UNCHANGED <<rowVars, readVars, caseVars>>

\* Row by row: the issue, its edges, its status.
ArrayScript(f) ==
    FlattenSeq([n \in DOMAIN f |->
        <<[op |-> "insert", row |-> f[n]]>>
        \o SetToSeq({[op |-> "edge", child |-> f[n].id, parent |-> d] : d \in f[n].deps})
        \o (IF f[n].status = "open" THEN <<>> ELSE <<[op |-> "patch", row |-> f[n]]>>)])

StartArrayImport(c) ==
    /\ Offered("array") /\ Idle(c)
    /\ job' = [job EXCEPT ![c] = Started(ArrayScript(file), 0, FALSE)]
    /\ UNCHANGED <<rowVars, readVars, caseVars>>

Turn(c, op) == job[c].busy /\ job[c].todo # <<>> /\ job[c].todo[1].op = op
Step(c) == job[c].todo[1]
Onward(c) == job' = [job EXCEPT ![c].todo = Tail(@)]

\* The job's last transaction is done: it answers.
Answer(c) ==
    /\ job[c].busy /\ job[c].todo = <<>>
    /\ job' = [job EXCEPT ![c] = NoJob]
    /\ UNCHANGED <<rowVars, readVars, caseVars>>

\* A transaction fails, the request is cut off, or the process dies.
Abort(c) ==
    /\ job[c].busy /\ job[c].todo # <<>>
    /\ job' = [job EXCEPT ![c] = NoJob]
    /\ UNCHANGED <<rowVars, readVars, caseVars>>

----------------------------------------------------------------------------
(* Their transactions *)

Ending(i, st, at) == fact' = [fact EXCEPT ![i].ended = IF st = "closed" THEN at ELSE Never]

FirstReview(i, st) == IF st = "review" /\ fact[i].reviewed = Never /\ issue[i].status # "review"
                      THEN now ELSE fact[i].reviewed

\* Hierarchy is project-local, and the parent is there.
ParentAllows(i, p) == p # 0 => Exists(p) /\ ProjectOf[p] = ProjectOf[i]

\* The node is available at once.  Its id is a fresh one: the least free, for which of the
\* free ids the code draws changes only the order of ties.
CreateNode(c) ==
    /\ Turn(c, "node")
    /\ LET n == Step(c).node
       IN  \E i \in Issues :
             /\ ProjectOf[i] = n.project
             /\ \A j \in Issues : ~Exists(j) /\ ProjectOf[j] = n.project => i <= j
             /\ CreateTx(i, {}, job[c].at)
             /\ fact' = [fact EXCEPT ![i] = [NoFact EXCEPT !.key = n.key, !.group = n.group,
                                             !.estimate = n.estimate, !.born = job[c].at]]
             /\ job' = [job EXCEPT ![c].todo = Tail(@), ![c].ids[n.key] = i]
    /\ UNCHANGED <<folder, placed, caseVars>>

WireEdge(c) ==
    /\ Turn(c, "wire")
    /\ AddDepTx(job[c].ids[Step(c).child], job[c].ids[Step(c).parent])
    /\ Onward(c)
    /\ UNCHANGED <<readVars, caseVars>>

\* A row that is there already is left alone.
ImportRow(c) ==
    /\ Turn(c, "row")
    /\ LET i == Step(c).row.id
           p == Step(c).row.parent
       IN  \/ Exists(i) /\ UNCHANGED <<rowVars, fact>>
           \/ /\ ParentAllows(i, p) /\ CreateTx(i, {}, 0)
              /\ fact' = [fact EXCEPT ![i] = [NoFact EXCEPT !.parent = p, !.born = 0,
                                                            !.imported = TRUE]]
    /\ Onward(c)
    /\ UNCHANGED <<folder, placed, caseVars>>

\* The array importer fails on an id that exists, and leaves no provenance.
InsertRow(c) ==
    /\ Turn(c, "insert")
    /\ LET r == Step(c).row
       IN  /\ ParentAllows(r.id, r.parent) /\ CreateTx(r.id, {}, 0)
           /\ fact' = [fact EXCEPT ![r.id] = [NoFact EXCEPT !.parent = r.parent, !.born = 0]]
    /\ Onward(c)
    /\ UNCHANGED <<folder, placed, caseVars>>

\* Only a missing issue is passed over; a refused cycle ends the import.
ImportEdge(c) ==
    /\ Turn(c, "edge")
    /\ LET e == Step(c)
       IN  \/ AddDepTx(e.child, e.parent)
           \/ ~(Exists(e.child) /\ Exists(e.parent)) /\ e.child # e.parent /\ UNCHANGED rowVars
    /\ Onward(c)
    /\ UNCHANGED <<readVars, caseVars>>

PatchRow(c) ==
    /\ Turn(c, "patch")
    /\ LET r == Step(c).row
       IN  /\ UpdateTx(r.id, r.status, issue[r.id].evidence, DeferredTo(r.id, now))
           /\ fact' = [fact EXCEPT ![r.id].ended = IF r.status = "closed" THEN now ELSE Never,
                                   ![r.id].reviewed = FirstReview(r.id, r.status)]
    /\ Onward(c)
    /\ UNCHANGED <<folder, placed, caseVars>>

\* Still waiting on an open blocker: another round will catch it.
SettleWaits(c, r) ==
    /\ UNCHANGED <<rowVars, fact>>
    /\ job' = [job EXCEPT ![c].todo = Tail(@), ![c].failed = Append(@, r)]

Progressed(c) == job' = [job EXCEPT ![c].todo = Tail(@), ![c].progressed = TRUE]

\* One row of a round.
Settle(c) ==
    /\ Turn(c, "settle")
    /\ LET r  == Step(c).row
           st == issue[r.id].status
       IN  /\ Exists(r.id)
           /\ \/ /\ r.status = "closed" /\ st # "closed" /\ OpenBlockers(r.id) = {}
                 /\ \E ev \in Receipts : CloseTx(r.id, {ev})
                 /\ Ending(r.id, "closed", 0) /\ Progressed(c)
              \/ /\ r.status = "closed" /\ st # "closed" /\ OpenBlockers(r.id) # {}
                 /\ SettleWaits(c, r)
              \/ /\ r.status \notin {"open", "closed"} /\ st = "open"
                 /\ UpdateTx(r.id, r.status, issue[r.id].evidence, 0)
                 /\ fact' = [fact EXCEPT ![r.id].reviewed = FirstReview(r.id, r.status)]
                 /\ Progressed(c)
              \/ /\ r.status = "closed" => st = "closed"
                 /\ r.status \notin {"open", "closed"} => st # "open"
                 /\ UNCHANGED <<rowVars, fact>> /\ Onward(c)
    /\ UNCHANGED <<folder, placed, caseVars>>

\* The round is over: another one for the rows that wait, or, when nothing moved, they
\* are closed all the same.
EndRound(c) ==
    /\ Turn(c, "round")
    /\ LET next(op) == [n \in DOMAIN job[c].failed |-> [op |-> op, row |-> job[c].failed[n]]]
       IN  job' = [job EXCEPT ![c].failed = <<>>, ![c].progressed = FALSE,
                              ![c].todo = IF job[c].progressed
                                          THEN next("settle") \o <<[op |-> "round"]>>
                                          ELSE next("except")]
    /\ UNCHANGED <<rowVars, readVars, caseVars>>

CloseException(c) ==
    /\ Turn(c, "except")
    /\ \E ev \in Receipts : CloseTx(Step(c).row.id, {ev})
    /\ Ending(Step(c).row.id, "closed", 0)
    /\ Onward(c)
    /\ UNCHANGED <<folder, placed, caseVars>>

----------------------------------------------------------------------------
(* Other clients of the same store *)

Create(i, ty, parent) ==
    /\ Offered("create")
    /\ ParentAllows(i, parent)
    /\ CreateTx(i, {}, now + Grace)
    /\ fact' = [fact EXCEPT ![i] = [NoFact EXCEPT !.type = ty, !.parent = parent, !.born = now]]
    /\ UNCHANGED <<folder, placed, caseVars, job>>

Claim(i, who) ==
    /\ Offered("claim")
    /\ issue[i].status # "closed"
    /\ ClaimTx(i, who, IF who \in Humans THEN "human" ELSE "agent", AgentTTL, now)
    /\ fact' = [fact EXCEPT ![i].claimed = IF @ = Never THEN now ELSE @]
    /\ UNCHANGED <<folder, placed, caseVars, job>>

\* Mutant: a patch that reopens keeps the old closing time.
Ended_Kept(i, st) == IF st = "closed" THEN now ELSE fact[i].ended

Ended(i, st) == IF st = "closed" THEN now ELSE Never

SetStatus(i, st) ==
    /\ Offered("status")
    /\ UpdateTx(i, st, issue[i].evidence, DeferredTo(i, now))
    /\ fact' = [fact EXCEPT ![i].ended = Ended(i, st), ![i].reviewed = FirstReview(i, st)]
    /\ UNCHANGED <<folder, placed, caseVars, job>>

Close(i) ==
    /\ Offered("close")
    /\ issue[i].status # "closed"
    /\ OpenBlockers(i) = {}
    /\ \E ev \in Receipts : CloseTx(i, {ev})
    /\ Ending(i, "closed", now)
    /\ UNCHANGED <<folder, placed, caseVars, job>>

AddDep(c, p) ==
    /\ Offered("dep")
    /\ <<c, p>> \notin dep /\ AddDepTx(c, p)
    /\ UNCHANGED <<readVars, caseVars, job>>

RemoveDep(c, p) ==
    /\ Offered("undep")
    /\ <<c, p>> \in dep /\ RemoveDepTx(c, p)
    /\ UNCHANGED <<readVars, caseVars, job>>

\* project_folder cascades with its project.
DropProject(s) ==
    /\ Offered("drop")
    /\ DropProjectTx(s)
    /\ fact' = [i \in Issues |-> IF ProjectOf[i] = s THEN NoFact ELSE fact[i]]
    /\ placed' = [placed EXCEPT ![s] = NoFolder]
    /\ UNCHANGED <<folder, caseVars, job>>

EnsureFolder(f, p) ==
    /\ Offered("folder")
    /\ p # Root => CanParent(f, p)
    /\ folder' = [folder EXCEPT ![f] = p]
    /\ UNCHANGED <<rowVars, fact, placed, caseVars, job>>

\* A folder, or none; it must be there.
MoveProject(s, f) ==
    /\ Offered("move")
    /\ s \in projects
    /\ f # NoFolder => IsFolder(f)
    /\ placed' = [placed EXCEPT ![s] = f]
    /\ UNCHANGED <<rowVars, fact, folder, caseVars, job>>

Tick ==
    /\ Offered("time")
    /\ now < Horizon
    /\ now' = now + 1
    /\ events' = {}
    /\ UNCHANGED <<projects, issue, dep, readVars, caseVars, job>>

----------------------------------------------------------------------------
Init ==
    /\ RowsInit
    /\ fact = [i \in Issues |-> NoFact]
    /\ folder = [f \in Folders |-> NoFolder]
    /\ placed = [s \in Projects |-> NoFolder]
    /\ scene \in Cases
    /\ spec \in scene.specs
    /\ file \in scene.files
    /\ job = [c \in Clients |-> NoJob]

Job(c) ==
    \/ StartPlan(c) \/ StartImport(c) \/ StartArrayImport(c) \/ Answer(c) \/ Abort(c)
    \/ CreateNode(c) \/ WireEdge(c)
    \/ ImportRow(c) \/ InsertRow(c) \/ ImportEdge(c) \/ PatchRow(c)
    \/ Settle(c) \/ EndRound(c) \/ CloseException(c)

Others ==
    \/ Tick
    \/ \E i \in scene.made, ty \in scene.types, p \in Issues \cup {0} : Create(i, ty, p)
    \/ \E i \in Issues :
         \/ \E who \in Names : Claim(i, who)
         \/ \E st \in scene.patches : SetStatus(i, st)
         \/ Close(i)
         \/ \E j \in Issues : AddDep(i, j) \/ RemoveDep(i, j)
    \/ \E s \in Projects : \/ DropProject(s)
                           \/ \E f \in Folders \cup {NoFolder} : MoveProject(s, f)
    \/ \E f \in Folders, p \in Folders \cup {Root} : EnsureFolder(f, p)

Next == (\E c \in Clients : Job(c)) \/ Others

Spec == Init /\ [][Next]_vars

----------------------------------------------------------------------------
(* Properties *)

PlanMinutes == [i \in PlanNodes |-> Minutes(i, DefaultEstimate)]

\* Every path of dependencies that ends in i, as the set of its nodes.
PathsTo(S, i) ==
    LET paths[n \in 0..Cardinality(S)] ==
          IF n = 0 THEN {<<i>>}
          ELSE paths[n - 1] \cup UNION {{<<d>> \o q : d \in Internal(S, q[1])} : q \in paths[n - 1]}
    IN  paths[Cardinality(S)]

Longest(S, D) == LET L == {Sum(D, q) : q \in UNION {PathsTo(S, i) : i \in S}}
                 IN  Top([l \in L |-> l], L)

\* "The critical path is the zero-slack chain (equivalently the longest chain): slipping
\* any node on it slips the plan" (plan.rs:734).  A loaded plan is ordered dependencies
\* first; its critical chain is a chain of dependencies as long as the longest one and as
\* the makespan; every node may slip by its slack and by no minute more; and the peak is
\* the largest number of nodes running at one instant.
ChartSound ==
    LET S == PlanNodes
        D == PlanMinutes
        t == Topo(S)
        g == Gantt(S, D)
        q == g.path
        Slip(i, m) == Total(S, [D EXCEPT ![i] = @ + m])
        Running(at) == Cardinality({i \in S : g.finish[i] - D[i] <= at /\ at < g.finish[i]})
    IN  S # {} =>
          /\ Loads(S)
          /\ \A a, b \in DOMAIN t : <<t[a], t[b]>> \in dep => b < a
          /\ \A k \in 1..Len(q) - 1 : <<q[k + 1], q[k]>> \in dep
          /\ Sum(D, q) = g.minutes /\ g.minutes = Longest(S, D)
          /\ \A i \in S : /\ Slip(i, g.slack[i]) = g.minutes
                          /\ Slip(i, g.slack[i] + 1) > g.minutes
          /\ g.peak = Top([at \in 0..g.minutes |-> Running(at)], 0..g.minutes)

\* "An executor consumes exactly the same `ready` semantics", "deliberately stricter"
\* (README.md:208, 231): what a plan offers the store's ready offers too, two nodes of one
\* conflict group are never offered together, and what the store offers and the plan does
\* not waits for a node of its group that is in progress or offered.
FrontierSound ==
    LET S == PlanNodes
        F == Frontier(S)
    IN  /\ \A i \in F : StoreReady(i)
        /\ \A i, j \in F : i # j => fact[i].group = NoGroup \/ fact[i].group # fact[j].group
        /\ \A i \in S \ F : StoreReady(i) =>
              \E j \in S : /\ fact[j].group = fact[i].group /\ fact[i].group # NoGroup
                           /\ (issue[j].status = "in_progress" \/ j \in F)

\* "A re-run is an error you can see, not a half-duplicated DAG" (plan.rs:612): with one
\* author at a time, whatever was left by a creation that stopped half way, no two issues
\* stand for the same node.
PlanUnique == \A i, j \in PlanNodes : i # j => fact[i].key # fact[j].key

Answers(c) == job[c].busy /\ job[c].todo = <<>>

\* "The importer is re-runnable: a crash mid-import is resume, not cleanup" (README.md:401),
\* "land the source state" (jsonl.rs:370): when an import answers, whatever earlier runs left
\* and other clients claimed, closed and linked meanwhile, every row is there, every edge
\* between its rows too, and what the export closed is closed.
ImportLands ==
    \A c \in Clients : job[c].resumable /\ Answers(c) =>
        \A n \in DOMAIN file :
            /\ Exists(file[n].id)
            /\ file[n].status # "open" => issue[file[n].id].status # "open"
            /\ file[n].status = "closed" => issue[file[n].id].status = "closed"
            /\ \A d \in file[n].deps \ {file[n].id} : Exists(d) => <<file[n].id, d>> \in dep

\* The walk before the write keeps the folders a tree (db.rs:535), and a project is only in
\* a folder that is there.
FolderForest ==
    /\ \A f \in Folders : IsFolder(f) => folder[f] = Root \/ IsFolder(folder[f])
    /\ \A f \in Folders : \A p \in ParentOf(f) : f \notin Ancestors(p)
    /\ \A s \in Projects : placed[s] # NoFolder => s \in projects /\ IsFolder(placed[s])

Everything == [kind |-> "all"]

\* The progress that sum gives along s, and to the members of T, added up.
AddUp(sum, s) == LET acc[n \in 0..Len(s)] ==
                       IF n = 0 THEN Progress({}) ELSE Plus(acc[n - 1], sum[s[n]])
                 IN  acc[Len(s)]
SumUp(sum, T) == AddUp(sum, SetToSeq(T))

\* The reports tell one story: folders and unfiled projects add up to the totals; ready work
\* is what `mb ready` offers (report.rs:407); a folder's rollup is its dashboard; no card of
\* ready work shows a blocker; the burndown ends where the progress bar stands; and /metrics
\* counts the same closes.
ReportsAgree ==
    LET S      == AllIssues
        totals == Totals(projects, S, Window)
        roll   == [f \in Folders |-> FolderRollup(f, projects, S, Window)]
        loose  == [s \in Unfiled(projects) |-> Rollup(s, S, Window)]
        burn   == Burndown(Work(S), Window)
    IN  /\ totals.progress =
             Plus(SumUp([f \in Folders |-> roll[f].progress], {f \in Folders : IsFolder(f)}),
                  SumUp([s \in DOMAIN loose |-> loose[s].progress], DOMAIN loose))
        /\ totals.ready = Cardinality({i \in Work(S) : StoreReady(i)})
        /\ \A f \in Folders : IsFolder(f) =>
             LET d == Dashboard([kind |-> "folder", slug |-> f], Window, DefaultEstimate)
             IN  /\ d.progress = roll[f].progress /\ d.ready = roll[f].ready
                 /\ d.burndown.burned = roll[f].burned
                 /\ d.totals.progress = d.progress
        /\ \A i \in S : ReportReady(i) => BlockedBy(i) = 0
        /\ burn.done = Count(Work(S), "closed")
        /\ burn.points[Window].remaining = burn.remaining
        /\ \A d \in 1..Window : burn.points[d - 1].scope <= burn.points[d].scope
        /\ \A s \in Projects :
             /\ CycleTime(s).n = Count(InProject(s), "closed")
             /\ ReviewTime(s).n <= CycleTime(s).n /\ ReviewTime(s).sum <= CycleTime(s).sum
             /\ Stats(s).total = Progress(InProject(s)).total
             /\ QueueAge(s) <= SqlQueueAge(s)
             /\ ActiveClaims(s)["agent"] + ActiveClaims(s)["human"] + totals.ready
                    <= Cardinality(S)
             /\ ClaimLatency(s).sum <= now * ClaimLatency(s).n
        /\ \A g \in S : fact[g].type = "goal" =>
             GoalProgress(g).total = Cardinality({i \in S : g \in Descendants(g) /\ i # g
                                                         /\ i \in Descendants(g)})

\* "A node is offered only when every dependency is `closed`" (README.md:231): the
\* dependencies of its spec.
\* Refuted (README.md of this directory, Disagreements).
OfferedInOrder ==
    \A i \in Frontier(PlanNodes) : \A e \in SpecEdges(spec) :
        e[1] = fact[i].key =>
            \E j \in PlanNodes : fact[j].key = e[2] /\ issue[j].status = "closed"

\* "Edges to beads outside the export are skipped" (import.rs:74): when an array import
\* answers, with nobody else at work, the edges inside the export are there.
\* Refuted (README.md of this directory, Disagreements).
EdgesOfExportLand ==
    \A c \in Clients : Offered("array") /\ Answers(c) =>
        \A n, m \in DOMAIN file :
            file[m].id \in file[n].deps => <<file[n].id, file[m].id>> \in dep

\* "Age of the oldest currently ready issue" (db.rs:1586): an issue somebody holds is not
\* ready (db.rs:968), so it does not age the queue.
\* Refuted (README.md of this directory, Disagreements).
QueueAgeIsReady == \A s \in Projects : SqlQueueAge(s) = QueueAge(s)

----------------------------------------------------------------------------
(* The invariants PlanningProofs rests on *)

Steps ==
    [op : {"node"}, node : SpecNode] \cup [op : {"wire"}, child : Keys, parent : Keys]
    \cup [op : {"row", "insert", "patch", "settle", "except"}, row : ExportRow]
    \cup [op : {"edge"}, child : Issues, parent : Issues] \cup [op : {"round"}]

JobType == [busy : BOOLEAN, resumable : BOOLEAN, todo : Seq(Steps), ids : [Keys -> Issues \cup {0}],
            at : Nat, failed : Seq(ExportRow), progressed : BOOLEAN]

\* Type correctness: the steps a job has left and what it knows, the columns of the readers
\* and the folder rows have the types their tables and specs give them.
TypeOK ==
    /\ RowsTypeOK
    /\ fact \in [Issues -> Fact]
    /\ folder \in [Folders -> Folders \cup {Root, NoFolder}]
    /\ placed \in [Projects -> Folders \cup {NoFolder}]
    /\ scene \in Cases /\ spec \in scene.specs /\ file \in scene.files
    /\ job \in [Clients -> JobType]

Left(j, op) == {a \in DOMAIN j.todo : j.todo[a].op = op}
LeftFor(j, op, r) == \E a \in Left(j, op) : j.todo[a].row = r

\* By the time an edge of a plan is drawn both its nodes have ids.
WiresReady(j) ==
    \A a \in Left(j, "wire") : \A k \in {j.todo[a].child, j.todo[a].parent} :
        j.ids[k] \in Issues \/ \E b \in Left(j, "node") : b < a /\ j.todo[b].node.key = k

\* No key is still to be created twice, nor is there already.
KeysFree(j) ==
    \A a \in Left(j, "node") :
        /\ \A b \in Left(j, "node") : j.todo[a].node.key = j.todo[b].node.key => a = b
        /\ \A i \in PlanNodes : fact[i].key # j.todo[a].node.key

Settled(r) ==
    /\ Exists(r.id)
    /\ r.status # "open" => issue[r.id].status # "open"
    /\ r.status = "closed" => issue[r.id].status = "closed"

\* The rows of the export, then the edges, then a round of statuses.
Shape(j) ==
    /\ \A a \in DOMAIN j.todo : j.todo[a].op \in {"row", "edge", "settle", "round", "except"}
    /\ \A a \in Left(j, "row") : /\ 1..a \subseteq Left(j, "row")
                                /\ \E n \in DOMAIN file : j.todo[a].row = file[n]
    /\ \A a \in Left(j, "round") : a = Len(j.todo)
    /\ Left(j, "settle") # {} => Left(j, "round") # {}

\* What an import has not landed yet is still to be done.
RowLands(j, r) == Exists(r.id) \/ LeftFor(j, "row", r)

EdgeLands(j, r, d) ==
    \/ <<r.id, d>> \in dep
    \/ \E a \in Left(j, "edge") : j.todo[a].child = r.id /\ j.todo[a].parent = d
    \/ ~Exists(d) /\ Left(j, "row") = {}

StatusLands(j, r) ==
    \/ Settled(r) \/ LeftFor(j, "settle", r) \/ LeftFor(j, "except", r)
    \/ Left(j, "round") # {} /\ \E m \in DOMAIN j.failed : j.failed[m] = r

Landing(j) ==
    /\ Offered("import") /\ Shape(j)
    /\ \A n \in DOMAIN file :
          /\ RowLands(j, file[n]) /\ StatusLands(j, file[n])
          /\ \A d \in file[n].deps \ {file[n].id} : EdgeLands(j, file[n], d)

\* While an import runs, whatever else runs is an import.
ImportsAlone == \A c, d \in Clients : job[c].resumable /\ job[d].busy => job[d].resumable

\* A row an import settles was imported, and not made by somebody else meanwhile.
ImportsOwn ==
    \A c \in Clients :
        (Turn(c, "settle") \/ Turn(c, "except")) /\ Exists(Step(c).row.id)
            => fact[Step(c).row.id].imported

\* One client at a time draws up the plan.
OneAuthor ==
    \A c, d \in Clients : Left(job[c], "node") # {} /\ Left(job[d], "node") # {} => c = d

PlanInv == PlanUnique /\ \A c \in Clients : KeysFree(job[c])
ImportInv == \A c \in Clients : job[c].resumable => job[c].busy /\ Landing(job[c])
JobsOK == \A c \in Clients : (~job[c].busy => job[c] = NoJob) /\ WiresReady(job[c])
==============================================================================
