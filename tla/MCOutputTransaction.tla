------------------------ MODULE MCOutputTransaction ------------------------
(* Instances of OutputTransaction for TLC.                                      *)
EXTENDS OutputTransaction, TLC

CONSTANTS w1, w2, f1, f2, o1, o2

\* Both builds replace one output ...
SameTarget == [w \in Writers |-> o1]

\* ... or each its own, beside the other.
OwnTargets == w1 :> o1 @@ w2 :> o2

\* Builds are alike, and so are the directories of other programs.
Alike == Permutations(Writers) \cup Permutations(Foreign)
=============================================================================
