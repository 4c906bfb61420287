---------------------------- MODULE MCBaseCache ----------------------------
(* Instances of BaseCache: entries that fill the cache or do not fit at all.    *)
EXTENDS BaseCache

CONSTANTS p1, p2, k1, k2, n1, n2, n3

UnitSize == [k \in Keys |-> 1]
=============================================================================
