------------------------------ MODULE MCPlanning ------------------------------
(* Small instances of Planning for TLC. *)
EXTENDS Planning, TLC

CONSTANTS p1, p2, grp

TwoProjects == 1 :> p1 @@ 2 :> p1 @@ 3 :> p1 @@ 4 :> p2

Node(k, deps, group, estimate, p) ==
    [key |-> k, deps |-> deps, group |-> group, estimate |-> estimate, project |-> p]

\* A diamond across two projects.
Diamond == <<Node(1, {}, NoGroup, 1, p1), Node(2, {1}, grp, 1, p1), Node(3, {1}, grp, 0, p1),
             Node(4, {2, 3}, NoGroup, 1, p2)>>

\* A conflict group over two keys that do not depend on each other.
Grouped == <<Node(2, {}, grp, 1, p1), Node(1, {}, grp, 2, p1), Node(3, {2}, grp, 1, p2)>>

Pair == <<Node(1, {}, grp, 1, p1), Node(2, {}, grp, 1, p2)>>

\* Specs that are refused: a cycle, a key given twice, an unknown dependency.
Refused ==
    {<<Node(1, {2}, NoGroup, 1, p1), Node(2, {1}, NoGroup, 1, p1)>>,
     <<Node(1, {}, NoGroup, 1, p1), Node(1, {}, NoGroup, 1, p1)>>,
     <<Node(1, {3}, NoGroup, 1, p1)>>}

Line(i, deps, st, parent) == [id |-> i, deps |-> deps, status |-> st, parent |-> parent]

\* Edges that point forward, a row closed before its blocker, a child before its parent,
\* an edge out of the export, a cycle.
Exports ==
    {<<Line(1, {2}, "closed", 0), Line(2, {4}, "closed", 1), Line(3, {1}, "review", 0)>>,
     <<Line(1, {2}, "closed", 0), Line(2, {}, "open", 0)>>,
     <<Line(2, {}, "in_progress", 1), Line(1, {}, "open", 0)>>,
     <<Line(1, {2}, "open", 0), Line(2, {1}, "open", 0)>>}

Quiet == [ops |-> {}, specs |-> {<<>>}, files |-> {<<>>}, patches |-> {}, types |-> {"task"},
          made |-> {}]

Scenes ==
    {\* a plan drawn up in several attempts, with edges added by hand, and its chart
     [Quiet EXCEPT !.ops = {"plan", "dep"}, !.specs = {Diamond}],
     \* a plan being executed
     [Quiet EXCEPT !.ops = {"plan", "status", "close"}, !.specs = Refused \cup {Grouped},
                   !.patches = {"open", "in_progress"}],
     \* and under claims that lapse
     [Quiet EXCEPT !.ops = {"plan", "claim", "status", "close", "time"}, !.specs = {Pair},
                   !.patches = {"open", "in_progress"}],
     \* imports cut short and run again
     [Quiet EXCEPT !.ops = {"import", "array", "claim", "close", "dep"}, !.files = Exports],
     \* projects moving through folders
     [Quiet EXCEPT !.ops = {"create", "close", "drop", "folder", "move"}, !.made = {1, 4}],
     \* a board over time
     [Quiet EXCEPT !.ops = {"create", "dep", "undep", "status", "close", "time"},
                   !.made = {1, 2}, !.types = {"task", "goal"}, !.patches = {"open", "review"}]}

OnePlan == {[Quiet EXCEPT !.ops = {"plan", "claim", "close"}, !.specs = {Diamond}]}

\* Two rows, the first of which depends on the second.
OneArray == {[Quiet EXCEPT !.ops = {"array"},
                           !.files = {<<Line(1, {2}, "open", 0), Line(2, {}, "open", 0)>>}]}

OneIssue == {[Quiet EXCEPT !.ops = {"create", "claim", "time"}, !.made = {1}]}
==============================================================================
