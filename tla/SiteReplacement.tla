-------------------------- MODULE SiteReplacement --------------------------
(* What the output transaction promises: whatever is read at an output stays    *)
(* there until a build replaces exactly the directory it found when it began,   *)
(* in one step, by a complete site.  Of a directory that was replaced only the  *)
(* files its inventory lists are deleted.  What other programs do to an output  *)
(* is counted, so that no step of a build passes for theirs.                    *)
EXTENDS Naturals

CONSTANTS Writers, Outputs, Target, Dirs, Site, None

VARIABLES
    current,     \* the directory a reader of the output is served from
    base,        \* what each build found
    content,     \* the entries of each directory
    replaced,    \* directories a build has replaced
    foreign      \* changes that other programs made

vars == <<current, base, content, replaced, foreign>>

Served(d) == \E o \in Outputs : current[o] = d

Init ==
    /\ current \in [Outputs -> Dirs \cup {None}]
    /\ base = [w \in Writers |-> None]
    /\ replaced = {} /\ foreign = 0

Observe(w) ==
    /\ base' = [base EXCEPT ![w] = current[Target[w]]]
    /\ UNCHANGED <<current, content, replaced, foreign>>

\* While an earlier site is set aside, another build may find nothing.
Overlook(w) ==
    /\ base' = [base EXCEPT ![w] = None]
    /\ UNCHANGED <<current, content, replaced, foreign>>

Stage(w, files) ==
    /\ ~Served(w) /\ w \notin replaced
    /\ files \subseteq Site
    /\ content' = [content EXCEPT ![w] = files]
    /\ UNCHANGED <<current, base, replaced, foreign>>

Publish(w) ==
    /\ current[Target[w]] = base[w]
    /\ content[w] = Site
    /\ current' = [current EXCEPT ![Target[w]] = w]
    /\ replaced' = (replaced \cup {base[w]}) \ {None}
    /\ UNCHANGED <<base, content, foreign>>

Retire(d, entry) ==
    /\ d \in replaced /\ ~Served(d)
    /\ entry \in Site
    /\ content' = [content EXCEPT ![d] = @ \ {entry}]
    /\ UNCHANGED <<current, base, replaced, foreign>>

Others ==
    /\ foreign' = foreign + 1
    /\ current' \in [Outputs -> Dirs \cup {None}]
    /\ UNCHANGED <<base, replaced>>

Next ==
    \/ \E w \in Writers :
         \/ Observe(w)
         \/ Overlook(w) \/ Publish(w)
         \/ \E files \in SUBSET Site : Stage(w, files)
    \/ \E d \in Dirs, entry \in Site : Retire(d, entry)
    \/ Others

Spec == Init /\ [][Next]_vars
=============================================================================
