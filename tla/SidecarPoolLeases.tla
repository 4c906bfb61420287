------------------------- MODULE SidecarPoolLeases -------------------------
(* The sidecar pool implements SlotLeases: who owns each slot. *)
EXTENDS SidecarPool

CONSTANTS Free, Closed, ReleaseThread

ASSUME OwnersAssumption ==
    /\ ReleaseThread \notin Callers /\ Free \notin Callers /\ Closed \notin Callers
    /\ Free # Closed /\ Free # ReleaseThread /\ Closed # ReleaseThread

Owners == Callers \cup {ReleaseThread}

OwnerOf(i) ==
    IF i \in available THEN Free
    ELSE IF i \in cleanerTodo THEN ReleaseThread
    ELSE IF \E t \in Callers : held[t] = i THEN CHOOSE t \in Callers : held[t] = i
    ELSE Closed

Leases == INSTANCE SlotLeases WITH owner <- [i \in Slots |-> OwnerOf(i)]

\* Slots are handed from owner to owner only through the pool, are opened in
\* order and never lost, in every interleaving of acquire, release, clean_idle
\* and the stop calls.
LeasesSpec == Leases!Spec
=============================================================================
