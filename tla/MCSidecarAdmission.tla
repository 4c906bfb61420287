------------------------ MODULE MCSidecarAdmission -------------------------
(* Instances of SidecarAdmission for TLC. *)
EXTENDS SidecarAdmission

CONSTANTS c1, c2, b1, b2, b3, a1, a2

\* b1 and b2 belong to the first attempt, b3 to the second.
Attempt == [b \in Base |-> IF b = b3 THEN a2 ELSE a1]
=============================================================================
