--------------------------- MODULE MCGenerations ---------------------------
(* Instances of Generations for TLC. *)
EXTENDS Generations, TLC

CONSTANTS g1, g2, g3, s1, s2, js1, js2, d1, d2, m1, m2

Symmetry == Permutations(Graphs) \cup Permutations(Slots) \cup Permutations(Codes)
            \cup Permutations(Listings) \cup Permutations(Css)
=============================================================================
