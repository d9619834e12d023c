------------------------------ MODULE MCSqlxCalls -----------------------------
(***************************************************************************)
(* SqlxCalls on small instances: the queries, the goroutines and the       *)
(* handles other than the database are interchangeable.                    *)
(***************************************************************************)
EXTENDS SqlxCalls, TLC

Symmetry == Permutations(Handle \ {DB}) \cup Permutations(Query) \cup Permutations(Thread)
===============================================================================
