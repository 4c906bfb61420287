--------------------------- MODULE LeasedEntries ---------------------------
(* What the base cache promises: any number of callers lease an entry, which    *)
(* nobody else takes away while one of them does; one caller at a time builds a missing *)
(* entry, and nobody leases it before it is complete.  A caller may vanish at   *)
(* any moment; losing power ends every lease and may cost entries.              *)
CONSTANTS Callers, Keys, None

VARIABLES complete, lease, builder

vars == <<complete, lease, builder>>

Leased(k) == \E p \in Callers : lease[p] = k

Init ==
    /\ complete \in SUBSET Keys
    /\ lease = [p \in Callers |-> None]
    /\ builder = [k \in Keys |-> None]

Lease(p, k) ==
    /\ k \in complete /\ lease[p] = None
    /\ lease' = [lease EXCEPT ![p] = k]
    /\ UNCHANGED <<complete, builder>>

Return(p) ==
    /\ lease' = [lease EXCEPT ![p] = None]
    /\ UNCHANGED <<complete, builder>>

Begin(p, k) ==
    /\ k \notin complete /\ ~Leased(k)
    /\ builder[k] = None /\ lease[p] = None
    /\ builder' = [builder EXCEPT ![k] = p]
    /\ UNCHANGED <<complete, lease>>

Finish(k) ==
    /\ builder[k] # None
    /\ complete' = complete \cup {k}
    /\ builder' = [builder EXCEPT ![k] = None]
    /\ UNCHANGED lease

Abandon(k) ==
    /\ builder' = [builder EXCEPT ![k] = None]
    /\ UNCHANGED <<complete, lease>>

Evict(k) ==
    /\ ~Leased(k)
    /\ complete' = complete \ {k}
    /\ UNCHANGED <<lease, builder>>

\* Who leases an entry may write into it until it is no longer valid.
Spoil(k) ==
    /\ Leased(k)
    /\ complete' = complete \ {k}
    /\ UNCHANGED <<lease, builder>>

LosePower ==
    /\ complete' \subseteq complete
    /\ lease' = [p \in Callers |-> None]
    /\ builder' = [k \in Keys |-> None]

Next ==
    \/ \E p \in Callers : Return(p) \/ (\E k \in Keys : Lease(p, k) \/ Begin(p, k))
    \/ \E k \in Keys : Finish(k) \/ Abandon(k) \/ Evict(k) \/ Spoil(k)
    \/ LosePower

Spec == Init /\ [][Next]_vars
=============================================================================
