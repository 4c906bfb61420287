-------------------------- MODULE ForegroundFirst --------------------------
(* What admission to the sidecars promises: at most Limit requests are inside, *)
(* and a base request gets in only while no foreground lease is held.  How     *)
(* requests wait, wake up and give up is not part of the promise.              *)
EXTENDS Integers, FiniteSets

CONSTANTS Current, Base, Pages, Limit

VARIABLES inside, holding

Init == inside = {} /\ holding = {}

Hold(h) ==
    /\ h \in (Current \cup Pages) \ holding
    /\ holding' = holding \cup {h}
    /\ UNCHANGED inside

\* A lease outlasts the request it was taken for.
Release(h) ==
    /\ h \in holding \ inside
    /\ holding' = holding \ {h}
    /\ UNCHANGED inside

Admit(t) ==
    /\ t \in (Current \cup Base) \ inside
    /\ Cardinality(inside) < Limit
    /\ t \in Current => t \in holding
    /\ t \in Base => holding = {}
    /\ inside' = inside \cup {t}
    /\ UNCHANGED holding

Leave(t) ==
    /\ t \in inside
    /\ inside' = inside \ {t}
    /\ UNCHANGED holding

Next ==
    \/ \E h \in Current \cup Pages : Hold(h) \/ Release(h)
    \/ \E t \in Current \cup Base : Admit(t) \/ Leave(t)

Spec == Init /\ [][Next]_<<inside, holding>>
=============================================================================
