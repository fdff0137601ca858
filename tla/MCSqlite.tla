------------------------------ MODULE MCSqlite ------------------------------
(* Small instances of SqliteStore for TLC. *)
EXTENDS SqliteStore, TLC

CONSTANTS i1, i2, i3, p1, p2, h1, a1, a2, t1, t2

OneProject == [i \in Issues |-> p1]
\* The last issue lives in a project of its own, the others share p1.
TwoProjects == [i \in Issues |-> IF i = i3 THEN p2 ELSE p1]

GraphSymmetry == Permutations({i1, i2})
==============================================================================
