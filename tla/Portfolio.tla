------------------------------ MODULE Portfolio ------------------------------
(****************************************************************************)
(* Folders, and the read-only reports of src/src/report.rs and the metrics  *)
(* of the stores, as operators over the issue rows: rollups of projects and *)
(* folders, goals, burndown, the scrum board, the dashboard.                *)
(*                                                                          *)
(* A day lasts one second of the model's clock.  Percentages, rates per day *)
(* and the ages that need updated_at (stale work, waiting reviews) are left *)
(* out; a rate is the number of closes in its window.                       *)
(****************************************************************************)
EXTENDS WorkGraph


CONSTANTS
    Folders,            \* folder slugs
    NoFolder            \* no row; no parent; no assignment

VARIABLES
    folder,     \* rows of folder: per slug its parent, Root, or NoFolder without a row
    placed      \* rows of project_folder: per project its folder

Root == "root"

ASSUME FoldersAssumption == {Root, NoFolder} \cap Folders = {} /\ Root # NoFolder

\* All projects of the model are in the table from the start.
ASSUME ProjectsAssumption == IsFiniteSet(Projects)

----------------------------------------------------------------------------
(* The folder tree *)

IsFolder(f) == folder[f] # NoFolder
ParentOf(f) == IF folder[f] \in Folders THEN {folder[f]} ELSE {}

\* The rows the recursive walk returns: the least set with f and every parent of its own.
Ancestors(f) ==
    {g \in Folders : \A S \in SUBSET Folders :
        (f \in S /\ \A h \in S : ParentOf(h) \subseteq S) => g \in S}

\* Mutant: only a folder that is its own parent is refused.
CanParent_NotItself(f, p) == p # f /\ IsFolder(p)

\* The parent exists and f is not among its ancestors.
CanParent(f, p) == p # f /\ IsFolder(p) /\ f \notin Ancestors(p)

----------------------------------------------------------------------------
(* Progress *)

Work(S) == {i \in S : fact[i].type # "goal"}
InProject(s) == {i \in Issues : Exists(i) /\ ProjectOf[i] = s}
AllIssues == {i \in Issues : Exists(i)}

Count(S, st) == Cardinality({i \in S : issue[i].status = st})

Progress(S) ==
    [total  |-> Cardinality(S),
     status |-> [st \in Statuses |-> Count(S, st)],
     epics  |-> Cardinality({i \in S : fact[i].type = "epic"}),
     tasks  |-> Cardinality({i \in S : fact[i].type = "task"})]

Plus(a, b) ==
    [total  |-> a.total + b.total,
     status |-> [st \in Statuses |-> a.status[st] + b.status[st]],
     epics  |-> a.epics + b.epics,
     tasks  |-> a.tasks + b.tasks]

\* The root and every transitive child through parent.
Descendants(r) ==
    LET down[k \in 0..Cardinality(AllIssues)] ==
          IF k = 0 THEN {r}
          ELSE down[k - 1] \cup {i \in AllIssues : fact[i].parent \in down[k - 1]}
    IN  down[Cardinality(AllIssues)]

\* The root is the container: only its descendants count.
GoalProgress(r) == Progress(Descendants(r) \ {r})

OpenGoals(s) == {i \in InProject(s) : fact[i].type = "goal" /\ issue[i].status # "closed"}

----------------------------------------------------------------------------
(* Burndown over the last `days` days *)

DoneBy(S, t) == {i \in S : fact[i].ended # Never /\ fact[i].ended <= t}

Point(S, t) ==
    LET scope == {i \in S : fact[i].born <= t}
        done  == DoneBy(scope, t)
    IN  [scope     |-> Cardinality(scope),
         done      |-> Cardinality(done),
         remaining |-> Greater(Cardinality(scope) - Cardinality(done), 0)]

Burndown(S, days) ==
    LET start == now - days
        done  == Cardinality(DoneBy(S, now))
    IN  [scope     |-> Cardinality(S),
         done      |-> done,
         remaining |-> Greater(Cardinality(S) - done, 0),
         burned    |-> done - Cardinality(DoneBy(S, start)),
         points    |-> [d \in 0..days |-> Point(S, Lesser(start + d, now))]]

----------------------------------------------------------------------------
(* Rollups *)

\* What f gives the members of T, added up.
SumOver(f, T) == Sum(f, SetToSeq(T))

\* is_ready of a report: as the store's ready, but goals are never work.
ReportReady(i) ==
    /\ fact[i].type # "goal"
    /\ issue[i].status = "open"
    /\ issue[i].available <= now
    /\ ~Held(i, now)
    /\ \A b \in Blockers(i) : issue[b].status \in {"none", "closed"}

ReadyOf(S) == {i \in S : ReportReady(i)}

Rollup(s, S, days) ==
    LET mine == {i \in S : ProjectOf[i] = s}
    IN  [progress |-> Progress(Work(mine)),
         ready    |-> Cardinality(ReadyOf(mine)),
         burned   |-> Burndown(Work(mine), days).burned,
         oldest   |-> Top([i \in Issues |-> Greater(now - fact[i].born, 0)], ReadyOf(mine)),
         goals    |-> [g \in OpenGoals(s) |-> GoalProgress(g)]]

\* A folder without projects is not shown.
FolderRollup(f, projs, S, days) ==
    LET ins  == {s \in projs : placed[s] = f}
        work == Work({i \in S : ProjectOf[i] \in ins})
    IN  [shown    |-> ins # {},
         progress |-> Progress(work),
         ready    |-> SumOver([s \in ins |-> Rollup(s, S, days).ready], ins),
         burned   |-> Burndown(work, days).burned]

Unfiled(projs) == {s \in projs : placed[s] = NoFolder \/ ~IsFolder(placed[s])}

Totals(projs, S, days) ==
    [projects |-> Cardinality(projs),
     progress |-> Progress(Work(S)),
     ready    |-> SumOver([s \in projs |-> Rollup(s, S, days).ready], projs),
     burned   |-> Burndown(Work(S), days).burned]

----------------------------------------------------------------------------
(* Scoped views *)

\* The filter of a view: nothing, one project, one folder or the plan.
Scopes == [kind : {"all", "plan"}] \cup [kind : {"project"}, slug : Projects]
            \cup [kind : {"folder"}, slug : Folders]

InScope(sc) ==
    {i \in AllIssues :
        CASE sc.kind = "all"     -> TRUE
          [] sc.kind = "plan"    -> i \in PlanNodes
          [] sc.kind = "project" -> ProjectOf[i] = sc.slug
          [] sc.kind = "folder"  -> placed[ProjectOf[i]] = sc.slug}

SelectedProjects(sc) ==
    {s \in projects :
        CASE sc.kind = "all"     -> TRUE
          [] sc.kind = "plan"    -> \E i \in InScope(sc) : ProjectOf[i] = s
          [] sc.kind = "project" -> s = sc.slug
          [] sc.kind = "folder"  -> placed[s] = sc.slug}

\* Unlike the ready rule, a dependency whose row is missing still blocks.
BlockedBy(i) == Cardinality({b \in Blockers(i) : issue[b].status # "closed"})

Card(i) == [id |-> i, project |-> ProjectOf[i], assignee |-> issue[i].assignee,
            epic |-> fact[i].parent, blocked_by |-> BlockedBy(i),
             age |-> Greater(now - fact[i].born, 0),
            plan |-> fact[i].key # NoKey]

Columns(S) ==
    [st \in Statuses |->
        LET cards == Sorted({i \in S : issue[i].status = st}, Before)
        IN  [k \in DOMAIN cards |-> Card(cards[k])]]

Scrum(S) ==
    [columns   |-> Columns(Work(S)),
     swimlanes |-> [s \in {ProjectOf[i] : i \in Work(S)} |->
                       Columns(Work({i \in S : ProjectOf[i] = s}))]]

Dashboard(sc, days, estimate) ==
    LET S == InScope(sc)
        G == GanttScope(S, FALSE)
    IN  [progress |-> Progress(Work(S)),
         ready    |-> Cardinality(ReadyOf(Work(S))),
         burndown |-> Burndown(Work(S), days),
         totals   |-> Totals(SelectedProjects(sc), S, days),
         scrum    |-> Scrum(S),
         gantt    |-> Gantt(G, [i \in G |-> Minutes(i, estimate)])]

----------------------------------------------------------------------------
(* Statistics and /metrics *)

Stats(s) == [status |-> [st \in Statuses |-> Count(InProject(s), st)],
             total  |-> Cardinality(InProject(s))]

\* A summary: how many were measured, and the sum of what they took.
Summary(S, took) == [n |-> Cardinality(S), sum |-> SumOver(took, S)]

Age(i) == Greater(now - fact[i].born, 0)
QueueAge(s) == Top([i \in Issues |-> Age(i)], {i \in InProject(s) : StoreReady(i)})

\* The SQLite store's query does not look at claims.
SqlReady(i) == issue[i].status = "open" /\ issue[i].available <= now /\ OpenBlockers(i) = {}
SqlQueueAge(s) == Top([i \in Issues |-> Age(i)], {i \in InProject(s) : SqlReady(i)})

ActiveClaims(s) ==
    [k \in Kinds |-> Cardinality({i \in InProject(s) : Held(i, now) /\ issue[i].kind = k})]

ClaimLatency(s) ==
    LET took == [i \in Issues |-> fact[i].claimed - fact[i].born]
    IN  Summary({i \in InProject(s) : fact[i].claimed # Never /\ took[i] >= 0}, took)

CycleTime(s) ==
    LET took == [i \in Issues |-> fact[i].ended - fact[i].born]
    IN  Summary({i \in InProject(s) : fact[i].ended # Never /\ took[i] >= 0}, took)

\* From the first move to review to the close.
ReviewTime(s) ==
    LET took == [i \in Issues |-> fact[i].ended - fact[i].reviewed]
    IN  Summary({i \in InProject(s) : fact[i].ended # Never /\ fact[i].reviewed # Never
                                        /\ took[i] >= 0}, took)
==============================================================================
