------------------------ MODULE PublishedRevisions -------------------------
(* What `mokly serve` promises its readers: a register of one revision after   *)
(* the other.  A revision shows one head; heads only move forward, and while   *)
(* a head stays nothing that was completed for it is forgotten.  Live work is  *)
(* admitted under the newest revision alone, and under none once the register  *)
(* is closed, which is for good.                                               *)
EXTENDS Integers

CONSTANT Routes

VARIABLES revision, documents, completed, admitted, closed

vars == <<revision, documents, completed, admitted, closed>>

Init ==
    /\ revision = 1 /\ documents = 1
    /\ completed = {}
    /\ admitted = {1}
    /\ closed = FALSE

\* A new head: a graph built from newer sources.
Replace ==
    /\ ~closed
    /\ revision' = revision + 1
    /\ documents' \in Nat /\ documents' > documents
    /\ completed' \subseteq Routes
    /\ admitted' = {revision'}
    /\ UNCHANGED closed

\* More is known about the same head.
Enrich ==
    /\ ~closed
    /\ revision' = revision + 1
    /\ completed \subseteq completed' /\ completed' \subseteq Routes
    /\ admitted' = {revision'}
    /\ UNCHANGED <<documents, closed>>

\* A completion that changes nothing a reader sees.
Record ==
    /\ ~closed
    /\ completed \subseteq completed' /\ completed' \subseteq Routes
    /\ UNCHANGED <<revision, documents, admitted, closed>>

Close ==
    /\ closed' = TRUE
    /\ admitted' = {}
    /\ UNCHANGED <<revision, documents, completed>>

Next == Replace \/ Enrich \/ Record \/ Close

Spec == Init /\ [][Next]_vars
=============================================================================
