---------------------------- MODULE MCComparisons ----------------------------
(* Comparisons on small instances. *)
EXTENDS Comparisons, TLC

CONSTANTS c1, t1, t2, a1, a2, i1, i2

Alike == UNION {Permutations(S) : S \in {Clients, Tasks, Attempts, Ids}}
=============================================================================
