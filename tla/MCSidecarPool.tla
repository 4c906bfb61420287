--------------------------- MODULE MCSidecarPool ---------------------------
(* Instances of SidecarPool for TLC. *)
EXTENDS SidecarPoolLeases, TLC

CONSTANTS t1, t2, c1, c2, p1, p2, p3, p4, rA, rB

FirstRoot == [c \in Contexts |-> rA]

Symmetry == Permutations(Callers) \cup Permutations(Pids)
=============================================================================
