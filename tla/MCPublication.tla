--------------------------- MODULE MCPublication ---------------------------
(* Instances of Publication: model values for routes and refs.                 *)
EXTENDS Publication

CONSTANTS r1, r2, one, two
=============================================================================
