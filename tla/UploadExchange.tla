-------------------------- MODULE UploadExchange ---------------------------
(***************************************************************************)
(* The upload exchange of `mokly publish` (crates/mokly-publish,           *)
(* exchange.rs, retry.rs, completion.rs): Plan, the Blobs the receiver     *)
(* lacks, Complete, with retries, expiry, cancellation and one re-plan for *)
(* a command; and of the receiver what                                     *)
(* docs/protocol/mokly-upload-exchange.md says of Complete.  The commands  *)
(* upload builds of one revision and configuration.                        *)
(*                                                                         *)
(* A Complete that was sent may arrive at any later time, when nobody      *)
(* waits for it, more than once if it was sent more than once, or never.   *)
(* A Plan or Blob that nobody waits for changes nothing that matters here: *)
(* which contents the receiver has is left open.  An answer arrives at     *)
(* once or never: what happens while it is under way could as well have    *)
(* happened before the request arrived.  An upload expires, for either     *)
(* side's clock, when somebody would notice; a cancellation is requested   *)
(* when it is seen.  The digests of the Plan archive, which are always     *)
(* counted, are left out.                                                  *)
(*                                                                         *)
(* The names differ from those of OutputTransaction, which puts the build  *)
(* in place that a command uploads, so that a module may extend both.      *)
(***************************************************************************)
EXTENDS Naturals, FiniteSets

CONSTANTS
    Commands,     \* runs of the command
    Digests,      \* of file contents
    Files,        \* the digests of each command's build
    Concurrency,  \* Blob requests at a time
    Tries,        \* attempts of a request, 5 in the code
    Whole,        \* the key of a Plan and of a Complete; a Blob's is its digest
    Nil

ASSUME ExchangeAssumption ==
    /\ Files \in [Commands -> SUBSET Digests]
    /\ Concurrency \in Nat \ {0} /\ Tries \in Nat \ {0}
    /\ Whole \notin Digests

Keys == Digests \cup {Whole}

\* A round uses one upload at most, whatever other Plans of it arrived.
Upload == Commands \X (0..1)

ASSUME NilAssumption == Nil \notin Commands \cup Upload \cup {200, 201}

VARIABLES
    phase,      \* of each command: the step of the round, or how it ended
    round,      \* 0, or 1 after the re-plan
    at, tries,  \* of each request of the step: its place in `send`, attempts made
    uploaded,   \* digests that the rounds before attempted
    sent,       \* history: digests sent through a PUT attempt
    asked,      \* uploads with a Complete that was sent
    expired,    \* uploads that the receiver has refused as expired
    answer,     \* the receiver's answer to the Complete of an upload
    publication \* the upload that created the publication

receiver == <<expired, answer, publication>>
exchange == <<phase, round, at, tries, uploaded, sent, asked, receiver>>

Running == {"plan", "blobs", "complete"}
NotSent == [k \in Keys |-> 0]
Queued(ks) == [k \in Keys |-> IF k \in ks THEN "queued" ELSE "none"]

ExchangeInit ==
    /\ phase = [c \in Commands |-> "idle"]
    /\ round = [c \in Commands |-> 0]
    /\ at = [c \in Commands |-> Queued({})]
    /\ tries = [c \in Commands |-> NotSent]
    /\ uploaded = [c \in Commands |-> {}] /\ sent = [c \in Commands |-> {}]
    /\ asked = {} /\ expired = {}
    /\ answer = [u \in Upload |-> Nil] /\ publication = Nil
-----------------------------------------------------------------------------
(* The command *)

UploadOf(c) == <<c, round[c]>>
Attempted(c) == {d \in Digests : phase[c] = "blobs" /\ tries[c][d] > 0}

\* The next step, with the requests it makes; those of the step before are dropped.
Goes(c, step, ks) ==
    /\ phase' = [phase EXCEPT ![c] = step]
    /\ at' = [at EXCEPT ![c] = Queued(ks)]
    /\ tries' = [tries EXCEPT ![c] = NotSent]
    /\ uploaded' = [uploaded EXCEPT ![c] = @ \cup Attempted(c)]
    /\ UNCHANGED sent

Ends(c, outcome) == Goes(c, outcome, {}) /\ UNCHANGED round

\* Mutant: the digests of a round that is planned again are not added up.
ReplansUncounted(c) ==
    /\ phase' = [phase EXCEPT ![c] = IF round[c] = 0 THEN "plan" ELSE "failed"]
    /\ at' = [at EXCEPT ![c] = Queued(IF round[c] = 0 THEN {Whole} ELSE {})]
    /\ tries' = [tries EXCEPT ![c] = NotSent]
    /\ round' = [round EXCEPT ![c] = 1]
    /\ UNCHANGED <<uploaded, sent>>

\* One fresh Plan for the whole command; a second one is a failure.
Replans(c) ==
    /\ Goes(c, IF round[c] = 0 THEN "plan" ELSE "failed", IF round[c] = 0 THEN {Whole} ELSE {})
    /\ round' = [round EXCEPT ![c] = 1]

Begin(c) ==
    /\ phase[c] = "idle" /\ Goes(c, "plan", {Whole})
    /\ UNCHANGED <<round, asked, receiver>>

\* The head of the loop in `send`; of the Blobs, as many as fit are there.
Jobs(c) == {k \in Keys : at[c][k] \in {"flying", "backoff"}}
Due(c, k) ==
    /\ phase[c] \in Running
    /\ at[c][k] = "backoff" \/ (at[c][k] = "queued" /\ Cardinality(Jobs(c)) < Concurrency)

Send(c, k) ==
    /\ Due(c, k)
    /\ at' = [at EXCEPT ![c][k] = "flying"]
    /\ tries' = [tries EXCEPT ![c][k] = @ + 1]
    /\ sent' = IF phase[c] = "blobs" THEN [sent EXCEPT ![c] = @ \cup {k}] ELSE sent
    /\ asked' = IF phase[c] = "complete" THEN asked \cup {UploadOf(c)} ELSE asked
    /\ UNCHANGED <<phase, round, uploaded, receiver>>

\* No attempt is made at or after the expiry of the upload.
TooLate(c, k) ==
    /\ Due(c, k) /\ phase[c] # "plan" /\ Replans(c)
    /\ UNCHANGED <<asked, receiver>>

Waits(c, k) == phase[c] \in Running /\ at[c][k] = "flying"

\* Mutant: every wait gives the request its attempts back.
BackoffAnew(c, k) ==
    /\ Waits(c, k) /\ tries[c][k] < Tries
    /\ at' = [at EXCEPT ![c][k] = "backoff"] /\ tries' = [tries EXCEPT ![c][k] = 0]
    /\ UNCHANGED <<phase, round, uploaded, sent, asked, receiver>>

\* An attempt fails or times out, its answer is lost or asks for another attempt.
Backoff(c, k) ==
    /\ Waits(c, k) /\ tries[c][k] < Tries
    /\ at' = [at EXCEPT ![c][k] = "backoff"]
    /\ UNCHANGED <<phase, round, tries, uploaded, sent, asked, receiver>>

Exhausted(c, k) ==
    /\ Waits(c, k) /\ tries[c][k] = Tries /\ Ends(c, "failed")
    /\ UNCHANGED <<asked, receiver>>

\* The attempt ended with the upload, or the wait would.
OutOfTime(c, k) ==
    /\ Waits(c, k) /\ phase[c] # "plan" /\ Replans(c)
    /\ UNCHANGED <<asked, receiver>>

\* Every check, request and wait sees a cancellation.
Cancel(c) ==
    /\ phase[c] \in Running /\ Ends(c, "cancelled")
    /\ UNCHANGED <<asked, receiver>>

\* The file of a digest cannot be sent: its URL, bytes or encoding fail.
Spoiled(c, d) ==
    /\ Due(c, d) /\ at[c][d] = "queued" /\ phase[c] = "blobs" /\ Ends(c, "failed")
    /\ UNCHANGED <<asked, receiver>>
-----------------------------------------------------------------------------
(* Answers of the receiver *)

\* What it lacks; nothing if the revision is published.
Planned(c) ==
    /\ phase[c] = "plan" /\ Waits(c, Whole)
    /\ \E missing \in SUBSET Files[c] :
        /\ publication # Nil => missing = {}
        /\ Goes(c, IF missing = {} THEN "complete" ELSE "blobs",
                IF missing = {} THEN {Whole} ELSE missing)
    /\ UNCHANGED <<round, asked, receiver>>

\* The last Blob ends the step.
LastOf(c, d) == \A k \in Digests \ {d} : at[c][k] \in {"none", "stored"}
Stored(c, d) ==
    /\ phase[c] = "blobs" /\ Waits(c, d) /\ UploadOf(c) \notin expired
    /\ IF LastOf(c, d)
       THEN Goes(c, "complete", {Whole})
       ELSE at' = [at EXCEPT ![c][d] = "stored"] /\ UNCHANGED <<phase, tries, uploaded, sent>>
    /\ UNCHANGED <<round, asked, receiver>>

\* The answer the upload has; or the first, which creates the publication unless there is
\* one.
Status(u) ==
    IF answer[u] # Nil THEN answer[u] ELSE IF publication = Nil THEN 201 ELSE 200

\* Mutant: both statuses read as the first publication.
OutcomeAlike(status) == "published"

\* How `publish` reads it.
Outcome(status) == IF status = 201 THEN "published" ELSE "kept"

\* A Complete arrives, and whoever still waits may hear the answer.
Completed(u) ==
    /\ u \in asked /\ (u \notin expired \/ answer[u] # Nil)
    /\ answer' = [answer EXCEPT ![u] = Status(u)]
    /\ publication' = IF publication = Nil THEN u ELSE publication
    /\ \/ UNCHANGED <<phase, round, at, tries, uploaded, sent>>
       \/ \E c \in Commands :
            /\ phase[c] = "complete" /\ UploadOf(c) = u /\ Waits(c, Whole)
            /\ Ends(c, Outcome(Status(u)))
    /\ UNCHANGED <<asked, expired>>

\* 410: the upload has expired.
Gone(c, k) ==
    /\ Waits(c, k) /\ phase[c] # "plan" /\ answer[UploadOf(c)] = Nil
    /\ Replans(c) /\ expired' = expired \cup {UploadOf(c)}
    /\ UNCHANGED <<asked, answer, publication>>

\* 409 of a Complete: the receiver lacks a digest; it looks first whether the revision is
\* published.
Lacking(c) ==
    /\ phase[c] = "complete" /\ Waits(c, Whole) /\ answer[UploadOf(c)] = Nil /\ publication = Nil
    /\ Replans(c)
    /\ UNCHANGED <<asked, receiver>>

\* Any other answer.
Rejected(c, k) ==
    /\ Waits(c, k) /\ Ends(c, "failed")
    /\ UNCHANGED <<asked, receiver>>
-----------------------------------------------------------------------------
Attempting(c) ==
    \/ \E k \in Keys : Send(c, k) \/ TooLate(c, k) \/ Backoff(c, k) \/ Exhausted(c, k) \/ OutOfTime(c, k)
    \/ \E d \in Digests : Spoiled(c, d)

Answer(c) ==
    \/ Planned(c) \/ Lacking(c)
    \/ \E d \in Digests : Stored(c, d)
    \/ \E k \in Keys : Gone(c, k) \/ Rejected(c, k)

ExchangeNext ==
    \/ \E c \in Commands : Begin(c) \/ Attempting(c) \/ Cancel(c) \/ Answer(c)
    \/ \E u \in asked : Completed(u)

ExchangeSpec == ExchangeInit /\ [][ExchangeNext]_exchange

\* An attempt times out after 120 seconds, a wait ends after 60 or less; no receiver
\* has to answer and nobody has to cancel.
FairSpec == ExchangeSpec /\ \A c \in Commands : WF_exchange(Attempting(c))
-----------------------------------------------------------------------------
ExchangeTypeOK ==
    /\ phase \in [Commands -> Running \cup {"idle", "published", "kept", "failed", "cancelled"}]
    /\ round \in [Commands -> 0..1]
    /\ at \in [Commands -> [Keys -> {"none", "queued", "flying", "backoff", "stored"}]]
    /\ tries \in [Commands -> [Keys -> 0..Tries]]
    /\ uploaded \in [Commands -> SUBSET Digests] /\ sent \in [Commands -> SUBSET Digests]
    /\ asked \subseteq Upload /\ expired \subseteq Upload
    /\ answer \in [Upload -> {Nil, 200, 201}] /\ publication \in Upload \cup {Nil}

\* The receipt counts exactly the digests that were sent through at least one attempt,
\* in either round, answered or not (exchange.rs, publish and round).
AttemptsCounted ==
    \A c \in Commands : phase[c] \in {"published", "kept"} => uploaded[c] = sent[c]

Kept == INSTANCE KeptPublication WITH
    None <- Nil,
    kept <- IF publication = Nil THEN Nil ELSE publication[1],
    told <- [c \in Commands |-> IF phase[c] \in Running THEN "running" ELSE phase[c]]

\* Whatever is lost, late or repeated, the first build that completes is the one that is
\* kept, and commands say what is true of it (completion.rs, Outcome).
KeptSpec == Kept!Spec

\* A command ends, whatever the receiver does (retry.rs, send; exchange.rs, publish).
CommandsEnd == \A c \in Commands : phase[c] \in Running ~> phase[c] \notin Running
=============================================================================
