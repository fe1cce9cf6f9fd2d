----------------------------- MODULE MCDatabase -----------------------------
(* Database.tla for TLC: the processes are interchangeable.                *)
EXTENDS Database, TLC

ConnSymmetry == Permutations(Conn)

\* SELECT without WHERE.
NoFilters == {<<NoFilter, NoFilter>>}
=============================================================================
