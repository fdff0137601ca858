------------------------------ MODULE MCRecords ------------------------------
(* Small instances of RecordStore for TLC. *)
EXTENDS RecordStore, TLC

CONSTANTS i1, i2, p1, p2, m1, m2

TwoProjects == [i \in Issues |-> IF i = i2 THEN p2 ELSE p1]
TwoProcesses == Permutations({m1, m2})
BothIssues == <<i1, i2>>
==============================================================================
