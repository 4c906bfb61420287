-------------------------- MODULE KeptPublication --------------------------
(* What publishing one revision promises: the receiver keeps the first build    *)
(* that completes and never another; a command that says it published was the   *)
(* one, and a command that says the revision was published already says so of a *)
(* publication that exists.  A command that failed or was cancelled may have    *)
(* been heard all the same, then or later.                                      *)
CONSTANTS Commands, None

VARIABLES kept, told

vars == <<kept, told>>

Init == kept = None /\ told = [c \in Commands |-> "idle"]

Begin(c) ==
    /\ told[c] = "idle" /\ told' = [told EXCEPT ![c] = "running"]
    /\ UNCHANGED kept

\* The first Complete that the receiver handles, whether or not it is answered.
Keep(c) ==
    /\ kept = None /\ told[c] # "idle" /\ kept' = c
    /\ told' \in {told, [told EXCEPT ![c] = "published"]}
    /\ told' # told => told[c] = "running"

Say(c, outcome) ==
    /\ told[c] = "running"
    /\ outcome = "published" => kept = c
    /\ outcome = "kept" => kept # None
    /\ told' = [told EXCEPT ![c] = outcome]
    /\ UNCHANGED kept

Next ==
    \E c \in Commands :
        \/ Begin(c) \/ Keep(c)
        \/ \E outcome \in {"published", "kept", "failed", "cancelled"} : Say(c, outcome)

Spec == Init /\ [][Next]_vars
=============================================================================
