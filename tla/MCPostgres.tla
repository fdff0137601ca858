------------------------------ MODULE MCPostgres ------------------------------
(* Small instances of PostgresStore for TLC: a blue and a green server. *)
EXTENDS PostgresStore, TLC

CONSTANTS i1, i2, p1, a1, a2, t1, t2, blue, green

OneProject == [i \in Issues |-> p1]
BlueGreen == [t \in Threads |-> IF t = t1 THEN blue ELSE green]

Symmetry == Permutations(Issues)
==============================================================================
