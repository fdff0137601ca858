------------------------------ MODULE WorkGraph ------------------------------
(****************************************************************************)
(* What readers compute over the issue rows: the store's `ready`, and the   *)
(* plan graph of src/src/plan.rs with its topological order, its Gantt chart*)
(* and its parallel frontier.  Nothing here writes.                         *)
(*                                                                          *)
(* fact[i] holds the columns no transaction's guard reads.  Priorities are  *)
(* all equal; ids are numbers, in the order the stores sort them.           *)
(****************************************************************************)
EXTENDS IssueRows, SequencesExt

CONSTANTS
    Keys,               \* node keys of a plan spec, numbers in the order keys sort
    Groups, NoGroup,    \* conflict groups; none
    Estimates,          \* minutes a spec may give a node
    DefaultEstimate     \* DEFAULT_ESTIMATE_MINUTES

\* Ids and keys are numbers because they sort; 0 is none of them.  A default estimate is any
\* number of minutes: what is below one is raised to it.
ASSUME NumbersAssumption ==
    /\ Issues \cup Keys \subseteq Nat \ {0}
    /\ Estimates \subseteq Nat /\ DefaultEstimate \in Int

VARIABLE fact       \* per issue: metadata, type, parent and timestamps

NoKey == 0
Never == -1
NoFact == [key |-> NoKey, group |-> NoGroup, estimate |-> 0, type |-> "task", parent |-> 0,
           born |-> Never, ended |-> Never, claimed |-> Never, reviewed |-> Never,
           imported |-> FALSE]

\* The types a reader tells apart; any text may stand in the column.
Types == {"task", "epic", "goal", "other"}

Times == Nat \cup {Never}
Fact == [key : Keys \cup {NoKey}, group : Groups \cup {NoGroup}, estimate : Estimates \cup {0},
         type : Types, parent : Issues \cup {0}, born : Times, ended : Times,
         claimed : Times, reviewed : Times, imported : BOOLEAN]

----------------------------------------------------------------------------
(* Scopes and order *)

\* The issues carrying metadata.plan = the plan's name, closed ones included.
PlanNodes == {i \in Issues : Exists(i) /\ fact[i].key # NoKey}

SortKey(i) == IF fact[i].key = NoKey THEN i ELSE fact[i].key

\* priority, created_at, key, id
Before(i, j) ==
    \/ fact[i].born < fact[j].born
    \/ fact[i].born = fact[j].born /\ SortKey(i) < SortKey(j)
    \/ fact[i].born = fact[j].born /\ SortKey(i) = SortKey(j) /\ i < j

\* The elements of S in the strict order Lt.
Sorted(S, Lt(_, _)) ==
    LET sort[k \in 0..Cardinality(S)] ==
          IF k = 0 THEN <<>>
          ELSE LET T == S \ Range(sort[k - 1])
               IN  Append(sort[k - 1], CHOOSE x \in T : \A y \in T : ~Lt(y, x))
    IN  sort[Cardinality(S)]

First(S) == CHOOSE i \in S : \A j \in S : i = j \/ Before(i, j)

\* An edge whose target is outside the scope is external.
Internal(S, i) == Blockers(i) \cap S

Free(S, done) == {i \in S \ done : Internal(S, i) \subseteq done}

\* Kahn's walk: shorter than S when the scope has a cycle.
Topo(S) ==
    LET walk[k \in 0..Cardinality(S)] ==
          IF k = 0 THEN <<>>
          ELSE LET done == Range(walk[k - 1])
                   free == Free(S, done)
               IN  IF free = {} THEN walk[k - 1] ELSE Append(walk[k - 1], First(free))
    IN  walk[Cardinality(S)]

Loads(S) == S # {} /\ Len(Topo(S)) = Cardinality(S)

\* Minutes, never zero.
Minutes(i, default) == IF fact[i].estimate > 0 THEN fact[i].estimate ELSE Greater(default, 1)

----------------------------------------------------------------------------
(* The Gantt chart of a scope with the durations D *)

Top(f, T) == IF T = {} THEN 0 ELSE LET S == {f[t] : t \in T} IN CHOOSE m \in S : \A n \in S : n <= m

\* The forward pass along the order t: a node starts when the last of its dependencies
\* finishes.
FinishesAlong(S, D, t) ==
    LET pass[k \in 0..Len(t)] ==
            IF k = 0 THEN [i \in S |-> 0]
            ELSE [pass[k - 1] EXCEPT ![t[k]] = Top(pass[k - 1], Internal(S, t[k])) + D[t[k]]]
    IN  pass[Len(t)]

Finishes(S, D) == FinishesAlong(S, D, Topo(S))

Total(S, D) == Top(Finishes(S, D), S)

\* The backward pass along t: a node must finish before its tightest dependent must start.
LatestAlong(S, D, t, total) ==
    LET pass[k \in 0..Len(t)] ==
            IF k = 0 THEN [i \in S |-> total]
            ELSE LET f == pass[k - 1]
                     i == t[Len(t) + 1 - k]
                 IN  [p \in S |-> IF p \in Internal(S, i) THEN Lesser(f[p], f[i] - D[i]) ELSE f[p]]
    IN  pass[Len(t)]

LatestFinishes(S, D) == LatestAlong(S, D, Topo(S), Total(S, D))

\* Mutant: the slack of the start against the makespan.
Slack_ToTheEnd(S, D) == LET f == Finishes(S, D) IN [i \in S |-> Top(f, S) - f[i]]

Slack(S, D) ==
    LET f == Finishes(S, D)
        l == LatestFinishes(S, D)
    IN  [i \in S |-> Greater(l[i] - f[i], 0)]

\* max_by_key keeps the last of equals.
Latest(f, T) ==
    CHOOSE i \in T : \A j \in T : f[j] < f[i] \/ (f[j] = f[i] /\ (i = j \/ Before(j, i)))

\* From a zero-slack sink back along the zero-slack dependency that finishes last.
ChainBack(S, f, tight) ==
    LET chain[k \in 0..Cardinality(S)] ==
            IF k = 0 THEN <<Latest(f, tight)>>
            ELSE LET q  == chain[k - 1]
                     up == Internal(S, q[1]) \cap tight
                 IN  IF up = {} THEN q ELSE <<Latest(f, up)>> \o q
    IN  IF tight = {} THEN <<>> ELSE chain[Cardinality(S)]

CriticalChain(S, D) ==
    LET slack == Slack(S, D)
    IN  ChainBack(S, Finishes(S, D), {i \in S : slack[i] = 0})

Sum(D, s) ==
    LET sum[k \in 0..Len(s)] == IF k = 0 THEN 0 ELSE sum[k - 1] + D[s[k]]
    IN  sum[Len(s)]

\* The order of the interval events: by time, ends before starts.
Sweeps(a, b) == a[1] < b[1] \/ (a[1] = b[1] /\ a[2] < b[2])

\* The events of the intervals: where they start and where they end.
IntervalEvents(S, D, f) == {<<f[i] - D[i], 1, i>> : i \in S} \cup {<<f[i], -1, i>> : i \in S}

\* The highest number open at once along the events o.
PeakAlong(o) ==
    LET count[k \in 0..Len(o)] ==
            IF k = 0 THEN [run |-> 0, peak |-> 0]
            ELSE LET run == count[k - 1].run + o[k][2]
                 IN  [run |-> run, peak |-> Greater(count[k - 1].peak, run)]
    IN  count[Len(o)].peak

\* The highest number of scheduled intervals open at once.
Peak(S, D) == PeakAlong(Sorted(IntervalEvents(S, D, Finishes(S, D)), Sweeps))

\* Nodes in progress, unclaimed or under a live claim.
RunningNow(S) ==
    {i \in S : issue[i].status = "in_progress" /\ (issue[i].assignee = NoOne \/ Held(i, now))}

Gantt(S, D) == [finish  |-> Finishes(S, D),
                slack   |-> Slack(S, D),
                path    |-> CriticalChain(S, D),
                minutes |-> Total(S, D),
                running |-> Cardinality(RunningNow(S)),
                peak    |-> Peak(S, D)]

\* The scope of views.gantt: goals never, closed work only on request.
GanttScope(S, closedToo) ==
    {i \in S : Exists(i) /\ fact[i].type # "goal" /\ (closedToo \/ issue[i].status # "closed")}

----------------------------------------------------------------------------
(* Ready *)

\* Db::ready: open, past its grace, no open blocker, not under a live claim.
StoreReady(i) ==
    /\ issue[i].status = "open"
    /\ issue[i].available <= now
    /\ OpenBlockers(i) = {}
    /\ ~Held(i, now)

\* A dependency with no row counts as open.
DependenciesClosed(i) == \A b \in Blockers(i) : issue[b].status = "closed"

\* Mutant: the grace of a new or edited node is not looked at.
Eligible_NoGrace(S) ==
    {i \in S : issue[i].status = "open" /\ ~Held(i, now) /\ DependenciesClosed(i)}

Eligible(S) ==
    {i \in S : /\ issue[i].status = "open"
               /\ ~Held(i, now)
               /\ issue[i].available <= now
               /\ DependenciesClosed(i)}

\* Groups with a node in progress.
BusyGroups(S) == {fact[i].group : i \in {j \in S : issue[j].status = "in_progress"}} \ {NoGroup}

\* The frontier an executor consumes: at most one node of a group, the first.
Frontier(S) ==
    {i \in Eligible(S) :
        fact[i].group # NoGroup =>
            /\ fact[i].group \notin BusyGroups(S)
            /\ \A j \in Eligible(S) : fact[j].group = fact[i].group => i = j \/ Before(i, j)}
==============================================================================
