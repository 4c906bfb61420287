----------------------------- MODULE MCWorkers -----------------------------
(* Instances of Workers: model values for calls and pages.                     *)
EXTENDS Workers

CONSTANTS d1, d2, d3, b1, b2, j1, j2, j3, p1, p2

OnePage == [j \in Previews |-> p1]
TwoPages == [j \in Previews |-> IF j = j3 THEN p2 ELSE p1]
=============================================================================
