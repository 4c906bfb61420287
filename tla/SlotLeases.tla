----------------------------- MODULE SlotLeases -----------------------------
(***************************************************************************)
(* What the sidecar pool promises about its slots, without saying how it   *)
(* queues, starts, retries or stops: slots open one after the other and    *)
(* are never closed; an owner that has none may lease some, of those that  *)
(* are free, or a new one; each leased slot goes back to the pool before   *)
(* anybody else gets it.                                                   *)
(***************************************************************************)
EXTENDS Naturals

CONSTANTS Owners, Limit, Free, Closed

VARIABLE owner     \* of each slot: an owner, Free or Closed

Slots == 1..Limit

Init == owner = [i \in Slots |-> Closed]

HasNone(o) == \A i \in Slots : owner[i] # o

Open(o) ==
    /\ HasNone(o)
    /\ \E i \in Slots : /\ owner[i] = Closed
                        /\ \A j \in Slots : owner[j] = Closed => i <= j
                        /\ owner' = [owner EXCEPT ![i] = o]

Lease(o) ==
    /\ HasNone(o)
    /\ \E S \in SUBSET {i \in Slots : owner[i] = Free} :
         owner' = [i \in Slots |-> IF i \in S THEN o ELSE owner[i]]

Give(o) ==
    \E i \in Slots : owner[i] = o /\ owner' = [owner EXCEPT ![i] = Free]

Next == \E o \in Owners : Open(o) \/ Lease(o) \/ Give(o)

Spec == Init /\ [][Next]_owner
=============================================================================
