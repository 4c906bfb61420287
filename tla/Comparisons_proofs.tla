-------------------------- MODULE Comparisons_proofs --------------------------
(***************************************************************************)
(* Theorems about Comparisons, for any numbers of readers, captures and    *)
(* classifications.                                                        *)
(***************************************************************************)
EXTENDS Comparisons, FiniteSetTheorems, TLAPS

\* Whoever runs a capture has the permit.
PermitHeld == \A t \in Tasks : t \in Running <=> permit = t

\* Captures are pending from their start until they are forgotten.
PendingKept == \A t \in Tasks : t \in pending <=> task[t].pc # "none"

\* Every classification that is named anywhere has a generation, and what a generation
\* says of its classification is true.
Named ==
    /\ current # None => id[current] \in Ids
    /\ \A x \in Procs : of[x] # None => id[of[x]] \in Ids
    /\ \A x \in Procs : seen[x] # None => id[seen[x]] \in Ids
    /\ \A t \in Tasks : task[t].of # None => id[task[t].of] \in Ids
    /\ \A g \in Generations : bundles[g] # None /\ bundles[g].of # None =>
           id[bundles[g].of] = g

\* What those who are at some step have with them.
Steps ==
    /\ \A c \in Clients :
           /\ pc[c] \in {"idle", "read", "begin", "sweep", "look", "wait", "serve"}
           /\ pc[c] \in {"read", "begin", "wait", "serve"} => of[c] # None
           /\ pc[c] \in {"sweep", "look"} => gen[c] # None
           /\ op[c] = "removed" => gen[c] # None
           /\ pc[c] = "wait" => waits[c] # None
           /\ pc[c] = "serve" => op[c] = "removed"
    /\ pc[Pass] \in {"idle", "install", "clean", "put", "swap"}
    /\ pc[Pass] # "idle" => of[Pass] # None /\ current = None
    /\ \A t \in Tasks :
           /\ task[t].pc # "none" => task[t].of # None
           /\ task[t].pc = "draining" => task[t].outcome = "refused"
           /\ task[t].outcome = "ok" => task[t].pc \in {"none", "ended"}

\* A capture is of what those who wait for it want.
Awaited ==
    \A c \in Clients : pc[c] = "wait" /\ task[waits[c]].pc # "none" =>
        task[waits[c]].of = of[c] /\ task[waits[c]].historical = historical(c)

Stopped ==
    stopper = "done" =>
        /\ \A g \in Generations : bundles[g] = None
        /\ \A t \in Tasks : task[t].pc = "none"

Basic == TypeOK /\ PermitHeld /\ PendingKept /\ Named /\ Steps /\ Awaited /\ Stopped

\* What the store keeps fits.
Snapped == {g \in Kept : bundles[g].snap}
Bounded == Cardinality(Kept) + Cardinality(Snapped) <= MaxTotal

\* A generation that was touched since x has begun.
Near(g, x) == bundles[g] # None /\ bundles[g].age <= (IF x \in late THEN 1 ELSE 0)

\* What a reader who waits for a document has restored was just touched, and the
\* documents are there once the capture has said so.
Restoring ==
    \A c \in Clients :
        op[c] = "removed" /\ pc[c] \in {"read", "begin", "wait", "serve"} /\ ~closed =>
            /\ id[of[c]] = gen[c] /\ Near(gen[c], c)
            /\ pc[c] = "serve" \/ (pc[c] = "wait" /\ task[waits[c]].outcome = "ok") =>
                   bundles[gen[c]].snap

Committed ==
    \A t \in Tasks :
        task[t].pc = "ended" /\ task[t].outcome = "ok" /\ task[t].historical /\ ~closed =>
            Near(id[task[t].of], t) /\ bundles[id[task[t].of]].snap

\* What the pass installs is not older than the pass, unless it was there before.
Installed ==
    ~closed /\ ~IdsReturn =>
        /\ pc[Pass] = "swap" => Near(id[of[Pass]], Pass)
        /\ pc[Pass] \in {"install", "clean", "put"} =>
               bundles[id[of[Pass]]] = None \/ Near(id[of[Pass]], Pass)

\* Who is about to collect with another publication than the current one has begun before
\* this one was published.
Stale(x) ==
    /\ pc[x] \in {"sweep", "clean", "begin"}
    /\ seen[x] = None \/ id[seen[x]] # id[current]
Advertised ==
    current # None /\ ~closed /\ ~IdsReturn =>
        /\ bundles[id[current]] # None
        /\ \A x \in Procs : Stale(x) =>
               bundles[id[current]].age <= (IF x \in late THEN 2 ELSE 1)

Timely == Restoring /\ Committed /\ Installed /\ Advertised
IInv == Basic /\ Bounded /\ Timely

-----------------------------------------------------------------------------
\* Types of what is collected, and what a collection leaves.
LEMMA LeftFacts ==
    ASSUME TypeOK, NEW cur \in Attempts \cup {None}
    PROVE  /\ Left(cur) \in [Generations -> Bundle \cup {None}]
           /\ \A g \in Generations :
                  /\ bundles[g] = None => Left(cur)[g] = None
                  /\ bundles[g] # None /\ bundles[g].age < Retention => Left(cur)[g] = bundles[g]
                  /\ bundles[g] # None /\ cur # None /\ id[cur] = g => Left(cur)[g] # None
                  /\ Left(cur)[g] # None =>
                         /\ Left(cur)[g].of = bundles[g].of
                         /\ Left(cur)[g].age = bundles[g].age
                         /\ Left(cur)[g].snap => bundles[g].snap
<1> DEFINE Trimmed(g) == [bundles[g] EXCEPT !.snap = FALSE]
<1>1. ASSUME NEW g \in Generations, bundles[g] # None
      PROVE  /\ bundles[g] \in Bundle /\ Trimmed(g) \in Bundle /\ Trimmed(g) # None
             /\ Trimmed(g).of = bundles[g].of /\ Trimmed(g).age = bundles[g].age
             /\ ~Trimmed(g).snap
  <2>1. bundles[g] \in Bundle
    BY <1>1 DEF TypeOK
  <2>2. Trimmed(g) \in Bundle /\ Trimmed(g).of = bundles[g].of
        /\ Trimmed(g).age = bundles[g].age /\ ~Trimmed(g).snap
    BY <2>1 DEF Bundle
  <2> QED
    BY <2>1, <2>2, SomeAssumption
<1>2. Left(cur) = [g \in Generations |->
          IF bundles[g] = None \/ bundles[g].age < Retention THEN bundles[g]
          ELSE IF cur # None /\ id[cur] = g THEN Trimmed(g) ELSE None]
  BY DEF Left
<1>3. \A g \in Generations : bundles[g] \in Bundle \cup {None}
  BY DEF TypeOK
<1> HIDE DEF Trimmed
<1> QED
  BY <1>1, <1>2, <1>3

LEMMA ChosenType ==
    ASSUME TypeOK, NEW cur \in Attempts \cup {None}
    PROVE  Chosen(cur) \in [Attempts -> Tasks \cup {None}]
BY DEF Chosen, TypeOK

\* A token that is cancelled changes nothing else of a capture.
LEMMA ToldFacts ==
    ASSUME TypeOK, NEW ts
    PROVE  /\ Told(ts) \in [Tasks -> Capture]
           /\ \A t \in Tasks :
                  /\ Told(ts)[t].pc = task[t].pc /\ Told(ts)[t].of = task[t].of
                  /\ Told(ts)[t].historical = task[t].historical
                  /\ Told(ts)[t].outcome = task[t].outcome
<1>1. \A t \in Tasks : task[t] \in Capture /\ [task[t] EXCEPT !.cancel = TRUE] \in Capture
  <2>1. \A t \in Tasks : task[t] \in Capture
    BY DEF TypeOK
  <2>2. \A k \in Capture : [k EXCEPT !.cancel = TRUE] \in Capture
    BY DEF Capture
  <2> QED
    BY <2>1, <2>2
<1>2. \A t \in Tasks : Told(ts)[t] \in {task[t], [task[t] EXCEPT !.cancel = TRUE]}
  BY DEF Told
<1>3. \A t \in Tasks :
          LET k == [task[t] EXCEPT !.cancel = TRUE] IN
          /\ k.pc = task[t].pc /\ k.of = task[t].of
          /\ k.historical = task[t].historical /\ k.outcome = task[t].outcome
  BY <1>1 DEF Capture
<1>4. Told(ts) \in [Tasks -> Capture]
  BY <1>1 DEF Told
<1> QED
  BY <1>2, <1>3, <1>4

\* The parts of what a step may collect: the same, or less.
Collected ==
    /\ bundles' \in [Generations -> Bundle \cup {None}]
    /\ \A g \in Generations :
           /\ bundles[g] = None => bundles'[g] = None
           /\ bundles[g] # None /\ bundles[g].age < Retention => bundles'[g] = bundles[g]
           /\ bundles'[g] # None =>
                  /\ bundles'[g].of = bundles[g].of
                  /\ bundles'[g].age = bundles[g].age
                  /\ bundles'[g].snap => bundles[g].snap
SameCaptures ==
    /\ task' \in [Tasks -> Capture]
    /\ \A t \in Tasks :
           /\ task'[t].pc = task[t].pc /\ task'[t].of = task[t].of
           /\ task'[t].historical = task[t].historical
           /\ task'[t].outcome = task[t].outcome
LEMMA CollectFacts ==
    ASSUME TypeOK, NEW cur \in Attempts \cup {None}, Collect(cur)
    PROVE  Collected /\ SameCaptures /\ selections' \in [Attempts -> Tasks \cup {None}]
<1> USE DEF Collect
<1> HIDE DEF Left, Chosen, Told
<1>1. Collected
  BY LeftFacts DEF Collected
<1>2. SameCaptures
  BY ToldFacts DEF SameCaptures
<1> QED
  BY <1>1, <1>2, ChosenType

\* What a capture becomes as it goes on.
LEMMA GoesOn ==
    ASSUME TypeOK, NEW t \in Tasks, NEW p \in {"capturing", "draining", "ended"},
           NEW o \in {"ok", "refused"}
    PROVE  /\ [task EXCEPT ![t].pc = p] \in [Tasks -> Capture]
           /\ [task EXCEPT ![t].pc = p, ![t].outcome = o] \in [Tasks -> Capture]
           /\ Ended(t, o) \in [Tasks -> Capture]
<1>1. task \in [Tasks -> Capture] /\ task[t] \in Capture
  BY DEF TypeOK
<1>2. \A k \in Capture :
          /\ [k EXCEPT !.pc = p] \in Capture
          /\ [k EXCEPT !.pc = p, !.outcome = o] \in Capture
          /\ [k EXCEPT !.pc = "ended", !.cancel = FALSE, !.outcome = o] \in Capture
  BY DEF Capture
<1>3. /\ [task EXCEPT ![t] = [@ EXCEPT !.pc = p]] \in [Tasks -> Capture]
      /\ [task EXCEPT ![t] = [@ EXCEPT !.pc = p, !.outcome = o]] \in [Tasks -> Capture]
      /\ [task EXCEPT ![t] = [@ EXCEPT !.pc = "ended", !.cancel = FALSE, !.outcome = o]]
             \in [Tasks -> Capture]
  BY <1>1, <1>2
<1>4. [task EXCEPT ![t].pc = p] = [task EXCEPT ![t] = [@ EXCEPT !.pc = p]]
  BY <1>1
<1>5. [task EXCEPT ![t].pc = p, ![t].outcome = o]
          = [task EXCEPT ![t] = [@ EXCEPT !.pc = p, !.outcome = o]]
  BY <1>1
<1>6. Ended(t, o) = [task EXCEPT ![t] =
          [@ EXCEPT !.pc = "ended", !.cancel = FALSE, !.outcome = o]]
  BY <1>1 DEF Ended
<1> QED
  BY <1>3, <1>4, <1>5, <1>6

\* Whoever finds a generation renews it and nothing else.
Renewed(g) ==
    /\ bundles' \in [Generations -> Bundle \cup {None}]
    /\ \A h \in Generations :
           /\ bundles'[h] = None <=> bundles[h] = None
           /\ h # g => bundles'[h] = bundles[h]
    /\ bundles'[g].of = bundles[g].of /\ bundles'[g].snap = bundles[g].snap
    /\ bundles'[g].age = 0
LEMMA TouchFacts ==
    ASSUME TypeOK, NEW g \in Generations, bundles[g] # None, Touch(g)
    PROVE  Renewed(g)
<1>1. bundles[g] \in Bundle
  BY DEF TypeOK
<1> DEFINE b == [bundles[g] EXCEPT !.age = 0]
<1>2. b \in Bundle /\ b # None /\ b.of = bundles[g].of /\ b.snap = bundles[g].snap /\ b.age = 0
  <2>1. b \in Bundle /\ b.of = bundles[g].of /\ b.snap = bundles[g].snap /\ b.age = 0
    BY <1>1 DEF Bundle, Retention
  <2> QED
    BY <2>1, SomeAssumption
<1>3. bundles' = [bundles EXCEPT ![g] = b]
  BY DEF Touch, TypeOK
<1> HIDE DEF b
<1> QED
  BY <1>2, <1>3 DEF TypeOK, Renewed

\* What an installation and the clock do to the generations.
LEMMA InstallFacts ==
    ASSUME TypeOK, NEW a \in Attempts, NEW g \in Generations,
           bundles' = IF bundles[g] = None
                      THEN [bundles EXCEPT ![g] = [snap |-> FALSE, of |-> a, age |-> 0]]
                      ELSE [bundles EXCEPT ![g].of = a]
    PROVE  /\ bundles' \in [Generations -> Bundle \cup {None}]
           /\ bundles'[g] # None /\ bundles'[g].of = a
           /\ \A h \in Generations : h # g => bundles'[h] = bundles[h]
           /\ bundles[g] = None => ~bundles'[g].snap /\ bundles'[g].age = 0
           /\ bundles[g] # None =>
                  bundles'[g].snap = bundles[g].snap /\ bundles'[g].age = bundles[g].age
<1>1. CASE bundles[g] = None
  <2>1. [snap |-> FALSE, of |-> a, age |-> 0] \in Bundle
    BY DEF Bundle, Retention
  <2> QED
    BY <1>1, <2>1, SomeAssumption DEF TypeOK
<1>2. CASE bundles[g] # None
  <2> DEFINE b == [bundles[g] EXCEPT !.of = a]
  <2>1. bundles[g] \in Bundle
    BY <1>2 DEF TypeOK
  <2>2. b \in Bundle /\ b.of = a /\ b.snap = bundles[g].snap /\ b.age = bundles[g].age
    BY <2>1 DEF Bundle
  <2>3. bundles' = [bundles EXCEPT ![g] = b]
    BY <1>2 DEF TypeOK
  <2> HIDE DEF b
  <2> QED
    BY <1>2, <2>2, <2>3, SomeAssumption DEF TypeOK
<1> QED
  BY <1>1, <1>2

LEMMA AgingFacts ==
    ASSUME TypeOK, Third
    PROVE  /\ bundles' \in [Generations -> Bundle \cup {None}]
           /\ \A g \in Generations :
                  /\ bundles'[g] = None <=> bundles[g] = None
                  /\ bundles[g] # None =>
                         /\ bundles'[g].of = bundles[g].of /\ bundles'[g].snap = bundles[g].snap
                         /\ bundles'[g].age <= bundles[g].age + 1
<1> DEFINE b(g) == IF bundles[g] # None /\ bundles[g].age < Retention
                   THEN [bundles[g] EXCEPT !.age = @ + 1] ELSE bundles[g]
<1>1. ASSUME NEW g \in Generations, bundles[g] # None
      PROVE  /\ b(g) \in Bundle /\ b(g) # None /\ b(g).of = bundles[g].of
             /\ b(g).snap = bundles[g].snap /\ b(g).age <= bundles[g].age + 1
  <2>1. bundles[g] \in Bundle
    BY <1>1 DEF TypeOK
  <2>2. /\ b(g) \in Bundle /\ b(g).of = bundles[g].of
        /\ b(g).snap = bundles[g].snap /\ b(g).age <= bundles[g].age + 1
    BY <1>1, <2>1 DEF Bundle, Retention
  <2> QED
    BY <2>1, <2>2, SomeAssumption
<1>2. bundles' = [g \in Generations |-> b(g)]
  BY DEF Third
<1>3. \A g \in Generations : bundles[g] = None => b(g) = None
  OBVIOUS
<1> HIDE DEF b
<1> QED
  BY <1>1, <1>2, <1>3

\* What a capture that has ended adds: documents, or a generation of its own.
LEMMA DocumentFacts ==
    ASSUME TypeOK, NEW g \in Generations, bundles[g] # None,
           bundles' = [bundles EXCEPT ![g] = [snap |-> TRUE, of |-> @.of, age |-> 0]]
    PROVE  /\ bundles' \in [Generations -> Bundle \cup {None}]
           /\ bundles'[g] # None /\ bundles'[g].of = bundles[g].of
           /\ bundles'[g].snap /\ bundles'[g].age = 0
           /\ \A h \in Generations : h # g => bundles'[h] = bundles[h]
<1> DEFINE b == [snap |-> TRUE, of |-> bundles[g].of, age |-> 0]
<1>1. bundles[g] \in Bundle
  BY DEF TypeOK
<1>2. b \in Bundle /\ b # None
  <2>1. \A k \in Bundle : k.of \in Attempts \cup {None}
    BY DEF Bundle
  <2>2. \A a \in Attempts \cup {None} : [snap |-> TRUE, of |-> a, age |-> 0] \in Bundle
    BY DEF Bundle, Retention
  <2> QED
    BY <1>1, <2>1, <2>2, SomeAssumption
<1>3. bundles' = [bundles EXCEPT ![g] = b]
  OBVIOUS
<1>4. bundles'[g] = b
  BY <1>3 DEF TypeOK
<1>5. \A h \in Generations : h # g => bundles'[h] = bundles[h]
  BY <1>3 DEF TypeOK
<1>6. bundles' \in [Generations -> Bundle \cup {None}]
  <2> HIDE DEF b
  <2> QED
    BY <1>2, <1>3 DEF TypeOK
<1> QED
  BY <1>2, <1>4, <1>5, <1>6

LEMMA CommitFacts ==
    ASSUME Basic, NEW t \in Tasks, Commit(t)
    PROVE  LET g == id[task[t].of] IN
           /\ task[t].of \in Attempts
           /\ bundles' \in [Generations -> Bundle \cup {None}]
           /\ \A h \in Generations : bundles[h] # None => bundles'[h] # None
           /\ task[t].historical =>
                  /\ g \in Ids /\ bundles[g] # None /\ bundles'[g].of = bundles[g].of
                  /\ bundles'[g].snap /\ bundles'[g].age = 0
                  /\ \A h \in Generations : h # g => bundles'[h] = bundles[h]
           /\ ~task[t].historical =>
                  /\ bundles'[t] = [snap |-> FALSE, of |-> None, age |-> 0]
                  /\ \A h \in Generations : h # t => bundles'[h] = bundles[h]
                  /\ current = task[t].of
<1> DEFINE g == id[task[t].of]
<1>1. task[t].of \in Attempts /\ g \in Ids \cup {None} /\ (task[t].of # None => g \in Ids)
  BY DEF Basic, Commit, TypeOK, Capture, Steps, Named
<1>2. g \in Ids /\ g \in Generations /\ task[t].of # None
  BY <1>1, ComparisonsAssumption DEF Generations
<1>3. CASE task[t].historical
  <2>1. bundles[g] # None /\ bundles' = [bundles EXCEPT ![g] = [snap |-> TRUE, of |-> @.of, age |-> 0]]
    BY <1>3 DEF Commit, Retains
  <2> HIDE DEF g
  <2>2. /\ bundles' \in [Generations -> Bundle \cup {None}]
        /\ bundles'[g] # None /\ bundles'[g].of = bundles[g].of
        /\ bundles'[g].snap /\ bundles'[g].age = 0
        /\ \A h \in Generations : h # g => bundles'[h] = bundles[h]
    BY <1>2, <2>1, DocumentFacts DEF Basic
  <2> QED
    BY <1>1, <1>2, <1>3, <2>1, <2>2 DEF g
<1>4. CASE ~task[t].historical
  <2>1. [snap |-> FALSE, of |-> None, age |-> 0] \in Bundle
    BY DEF Bundle, Retention
  <2>2. /\ bundles' = [bundles EXCEPT ![t] = [snap |-> FALSE, of |-> None, age |-> 0]]
        /\ current = task[t].of
    BY <1>4 DEF Commit, Retains
  <2>3. bundles \in [Generations -> Bundle \cup {None}] /\ t \in Generations
    BY DEF Basic, TypeOK, Generations
  <2> QED
    BY <1>1, <1>4, <2>1, <2>2, <2>3, SomeAssumption
<1> QED
  BY <1>3, <1>4

LEMMA AgesAreNat ==
    ASSUME TypeOK
    PROVE  \A g \in Generations : bundles[g] # None => bundles[g].age \in Nat
BY DEF TypeOK, Bundle, Retention

-----------------------------------------------------------------------------
\* The basic invariant, action by action.
LEMMA ReadBasic == ASSUME Basic, NEW x \in Procs, Read(x) PROVE Basic'
<1> USE ComparisonsAssumption, SomeAssumption DEF Basic, Read, Goes, Drops, Forgets, Leaves, Quits, Touch, index, store, asked, vars, closed
<1>1. TypeOK'
  BY DEF TypeOK, Procs, Capture, Idle, Bundle, Ended, Retention
<1>2. PermitHeld' /\ PendingKept' /\ Stopped'
  BY DEF TypeOK, Capture, Idle, Ended, PermitHeld, PendingKept, Stopped, Running
<1>3. Named'
  BY DEF TypeOK, Procs, Capture, Idle, Bundle, Ended, Named, Steps
<1>4. Steps'
  BY DEF TypeOK, Procs, Capture, Idle, Ended, Steps, Named
<1>5. Awaited'
  BY DEF TypeOK, Procs, Capture, Idle, Ended, Steps, Awaited, PendingKept, historical
<1> QED
  BY <1>1, <1>2, <1>3, <1>4, <1>5

LEMMA SweepBasic == ASSUME Basic, NEW x \in Procs, Sweep(x) PROVE Basic'
<1> USE ComparisonsAssumption, SomeAssumption DEF Basic, Sweep, Goes, Drops, Forgets, Leaves, Quits, Touch, index, store, asked, vars, closed
<1>0. Collected /\ SameCaptures /\ selections' \in [Attempts -> Tasks \cup {None}]
  <2>1. seen[x] \in Attempts \cup {None} /\ Collect(seen[x])
    BY DEF TypeOK, Procs
  <2> QED
    BY <2>1, CollectFacts
<1>1. TypeOK'
  BY <1>0 DEF TypeOK, Procs, Capture, Idle, Bundle, Ended, Retention, Collected, SameCaptures
<1>2. PermitHeld' /\ PendingKept' /\ Stopped'
  BY <1>0 DEF TypeOK, Capture, Idle, Ended, PermitHeld, PendingKept, Stopped, Running, Collected, SameCaptures
<1>3. Named'
  BY <1>0 DEF TypeOK, Procs, Capture, Idle, Bundle, Ended, Named, Steps, Collected, SameCaptures
<1>4. Steps'
  BY <1>0 DEF TypeOK, Procs, Capture, Idle, Ended, Steps, Named, Collected, SameCaptures
<1>5. Awaited'
  BY <1>0 DEF TypeOK, Procs, Capture, Idle, Ended, Steps, Awaited, PendingKept, historical, Collected, SameCaptures
<1> QED
  BY <1>1, <1>2, <1>3, <1>4, <1>5

LEMMA PollBasic == ASSUME Basic, Poll PROVE Basic'
<1> USE ComparisonsAssumption, SomeAssumption DEF Basic, Poll, Goes, Drops, Forgets, Leaves, Quits, Touch, index, store, asked, vars, closed
<1>0. Collected /\ SameCaptures /\ selections' \in [Attempts -> Tasks \cup {None}]
  <2>1. current \in Attempts \cup {None} /\ Collect(current)
    BY DEF TypeOK, Procs
  <2> QED
    BY <2>1, CollectFacts
<1>1. TypeOK'
  BY <1>0 DEF TypeOK, Procs, Capture, Idle, Bundle, Ended, Retention, Collected, SameCaptures
<1>2. PermitHeld' /\ PendingKept' /\ Stopped'
  BY <1>0 DEF TypeOK, Capture, Idle, Ended, PermitHeld, PendingKept, Stopped, Running, Collected, SameCaptures
<1>3. Named'
  BY <1>0 DEF TypeOK, Procs, Capture, Idle, Bundle, Ended, Named, Steps, Collected, SameCaptures
<1>4. Steps'
  BY <1>0 DEF TypeOK, Procs, Capture, Idle, Ended, Steps, Named, Collected, SameCaptures
<1>5. Awaited'
  BY <1>0 DEF TypeOK, Procs, Capture, Idle, Ended, Steps, Awaited, PendingKept, historical, Collected, SameCaptures
<1> QED
  BY <1>1, <1>2, <1>3, <1>4, <1>5

LEMMA SelectBasic == ASSUME Basic, NEW c \in Clients, Select(c) PROVE Basic'
<1> USE ComparisonsAssumption, SomeAssumption DEF Basic, Select, Goes, Drops, Forgets, Leaves, Quits, Touch, index, store, asked, vars, closed
<1>1. TypeOK'
  BY DEF TypeOK, Procs, Capture, Idle, Bundle, Ended, Retention
<1>2. PermitHeld' /\ PendingKept' /\ Stopped'
  BY DEF TypeOK, Capture, Idle, Ended, PermitHeld, PendingKept, Stopped, Running
<1>3. Named'
  BY DEF TypeOK, Procs, Capture, Idle, Bundle, Ended, Named, Steps
<1>4. Steps'
  BY DEF TypeOK, Procs, Capture, Idle, Ended, Steps, Named
<1>5. Awaited'
  BY DEF TypeOK, Procs, Capture, Idle, Ended, Steps, Awaited, PendingKept, historical
<1> QED
  BY <1>1, <1>2, <1>3, <1>4, <1>5

LEMMA AskBasic == ASSUME Basic, NEW c \in Clients, Ask(c) PROVE Basic'
<1> USE ComparisonsAssumption, SomeAssumption DEF Basic, Ask, Goes, Drops, Forgets, Leaves, Quits, Touch, index, store, asked, vars, closed
<1>1. TypeOK'
  BY DEF TypeOK, Procs, Kept
<1>2. PermitHeld' /\ PendingKept' /\ Stopped'
  BY DEF TypeOK, Capture, Idle, Ended, PermitHeld, PendingKept, Stopped, Running
<1>3. Named'
  BY DEF TypeOK, Procs, Capture, Idle, Bundle, Ended, Named, Steps
<1>4. Steps'
  <2>1. PICK g \in Generations : gen' = [gen EXCEPT ![c] = g]
    BY DEF Kept
  <2>2. g # None
    BY DEF Generations
  <2> QED
    BY <2>1, <2>2 DEF TypeOK, Procs, Steps
<1>5. Awaited'
  BY DEF TypeOK, Procs, Capture, Idle, Ended, Steps, Awaited, PendingKept, historical
<1> QED
  BY <1>1, <1>2, <1>3, <1>4, <1>5

LEMMA RefuseBasic == ASSUME Basic, NEW c \in Clients, Refuse(c) PROVE Basic'
<1> USE ComparisonsAssumption, SomeAssumption DEF Basic, Refuse, Goes, Drops, Forgets, Leaves, Quits, Touch, index, store, asked, vars, closed
<1>0. Collected /\ SameCaptures /\ selections' \in [Attempts -> Tasks \cup {None}]
  <2>1. seen[c] \in Attempts \cup {None} /\ Collect(seen[c])
    BY DEF TypeOK, Procs
  <2> QED
    BY <2>1, CollectFacts
<1>1. TypeOK'
  BY <1>0 DEF TypeOK, Procs, Capture, Idle, Bundle, Ended, Retention, Collected, SameCaptures
<1>2. PermitHeld' /\ PendingKept' /\ Stopped'
  BY <1>0 DEF TypeOK, Capture, Idle, Ended, PermitHeld, PendingKept, Stopped, Running, Collected, SameCaptures
<1>3. Named'
  BY <1>0 DEF TypeOK, Procs, Capture, Idle, Bundle, Ended, Named, Steps, Collected, SameCaptures
<1>4. Steps'
  BY <1>0 DEF TypeOK, Procs, Capture, Idle, Ended, Steps, Named, Collected, SameCaptures
<1>5. Awaited'
  BY <1>0 DEF TypeOK, Procs, Capture, Idle, Ended, Steps, Awaited, PendingKept, historical, Collected, SameCaptures
<1> QED
  BY <1>1, <1>2, <1>3, <1>4, <1>5

LEMMA JoinBasic == ASSUME Basic, NEW c \in Clients, Join(c) PROVE Basic'
<1> USE ComparisonsAssumption, SomeAssumption DEF Basic, Goes, Forgets, index, asked
<1>1. PICK t \in Same(c) : waits' = [waits EXCEPT ![c] = t]
  BY DEF Join
<1>2. /\ t \in Tasks /\ t \in pending /\ task[t].of = of[c]
      /\ task[t].historical = historical(c)
  BY DEF Same, TypeOK
<1>3. Collected /\ SameCaptures /\ selections' \in [Attempts -> Tasks \cup {None}]
  BY CollectFacts DEF Join, TypeOK, Procs
<1>4. /\ pc[c] = "begin" /\ pc' = [pc EXCEPT ![c] = "wait"]
      /\ seen' = [seen EXCEPT ![c] = None]
      /\ UNCHANGED <<current, id, void, stopper, pending, permit, of, op, gen, late>>
  BY DEF Join
<1>5. TypeOK'
  BY <1>1, <1>2, <1>3, <1>4 DEF TypeOK, Procs, Collected, SameCaptures
<1>6. PermitHeld' /\ PendingKept' /\ Stopped'
  BY <1>3, <1>4 DEF TypeOK, PermitHeld, PendingKept, Stopped, Running, Collected, SameCaptures
<1>7. Named'
  BY <1>3, <1>4 DEF TypeOK, Procs, Named, Collected, SameCaptures
<1>8. Steps'
  BY <1>1, <1>2, <1>3, <1>4 DEF TypeOK, Procs, Steps, SameCaptures
<1>9. Awaited'
  <2>1. \A d \in Clients : pc'[d] = "wait" =>
            \/ d = c /\ waits'[d] = t
            \/ d # c /\ pc[d] = "wait" /\ waits'[d] = waits[d] /\ waits[d] \in Tasks
    BY <1>1, <1>4 DEF TypeOK, Procs, Steps
  <2> QED
    BY <1>2, <1>3, <1>4, <2>1 DEF Awaited, SameCaptures, historical
<1> QED
  BY <1>5, <1>6, <1>7, <1>8, <1>9

LEMMA SpawnBasic == ASSUME Basic, NEW c \in Clients, Spawn(c) PROVE Basic'
<1> USE ComparisonsAssumption, SomeAssumption DEF Basic, Goes, Forgets, index, asked
<1> DEFINE told == Told(Replaced(seen[c]))
<1>1. PICK t \in Tasks :
          /\ Fresh(t)
          /\ task' = [told EXCEPT ![t] =
                 [pc |-> "queued", of |-> of[c], historical |-> historical(c),
                  cancel |-> FALSE, outcome |-> "none"]]
          /\ pending' = pending \cup {t}
          /\ waits' = [waits EXCEPT ![c] = t]
  BY DEF Spawn
<1>2. /\ pc[c] = "begin" /\ pc' = [pc EXCEPT ![c] = "wait"] /\ ~closed
      /\ seen' = [seen EXCEPT ![c] = None]
      /\ UNCHANGED <<current, id, void, stopper, permit, of, op, gen, late>>
  BY DEF Spawn, Admitted
<1>3. Collected /\ selections' \in [Attempts -> Tasks \cup {None}]
  <2>1. seen[c] \in Attempts \cup {None}
    BY DEF TypeOK, Procs
  <2> QED
    BY <2>1, LeftFacts, ChosenType DEF Spawn, Collected
<1>4. /\ told \in [Tasks -> Capture]
      /\ \A s \in Tasks :
             /\ told[s].pc = task[s].pc /\ told[s].of = task[s].of
             /\ told[s].historical = task[s].historical
             /\ told[s].outcome = task[s].outcome
  BY ToldFacts
<1>5. /\ task' \in [Tasks -> Capture]
      /\ task'[t].pc = "queued" /\ task'[t].of = of[c]
      /\ task'[t].historical = historical(c) /\ task'[t].outcome = "none"
      /\ \A s \in Tasks \ {t} :
             /\ task'[s].pc = task[s].pc /\ task'[s].of = task[s].of
             /\ task'[s].historical = task[s].historical
             /\ task'[s].outcome = task[s].outcome
  <2>1. [pc |-> "queued", of |-> of[c], historical |-> historical(c),
         cancel |-> FALSE, outcome |-> "none"] \in Capture
    BY DEF TypeOK, Procs, Capture, historical
  <2> HIDE DEF told
  <2> QED
    BY <1>1, <1>4, <2>1
<1>6. task[t].pc = "none" /\ \A d \in Clients : waits[d] # t
  BY <1>1 DEF Fresh
<1> HIDE DEF told
<1>7. TypeOK'
  BY <1>1, <1>2, <1>3, <1>5 DEF TypeOK, Procs, Collected
<1>8. PermitHeld' /\ PendingKept' /\ Stopped'
  <2>1. PermitHeld' /\ PendingKept'
    BY <1>1, <1>2, <1>5, <1>6 DEF TypeOK, PermitHeld, PendingKept, Running
  <2>2. Stopped'
    BY <1>2 DEF Stopped, closed
  <2> QED
    BY <2>1, <2>2
<1>9. Named'
  BY <1>2, <1>3, <1>5 DEF TypeOK, Procs, Named, Collected
<1>10. Steps'
  BY <1>1, <1>2, <1>5 DEF TypeOK, Procs, Steps
<1>11. Awaited'
  BY <1>1, <1>2, <1>5, <1>6 DEF TypeOK, Procs, Awaited, Steps, historical
<1> QED
  BY <1>7, <1>8, <1>9, <1>10, <1>11

LEMMA NotFoundBasic == ASSUME Basic, NEW c \in Clients, NotFound(c) PROVE Basic'
<1> USE ComparisonsAssumption, SomeAssumption DEF Basic, NotFound, Goes, Drops, Forgets, Leaves, Quits, Touch, index, store, asked, vars, closed
<1>1. TypeOK'
  BY DEF TypeOK, Procs, Capture, Idle, Bundle, Ended, Retention
<1>2. PermitHeld' /\ PendingKept' /\ Stopped'
  BY DEF TypeOK, Capture, Idle, Ended, PermitHeld, PendingKept, Stopped, Running
<1>3. Named'
  BY DEF TypeOK, Procs, Capture, Idle, Bundle, Ended, Named, Steps
<1>4. Steps'
  BY DEF TypeOK, Procs, Capture, Idle, Ended, Steps, Named
<1>5. Awaited'
  BY DEF TypeOK, Procs, Capture, Idle, Ended, Steps, Awaited, PendingKept, historical
<1> QED
  BY <1>1, <1>2, <1>3, <1>4, <1>5

LEMMA FoundBasic == ASSUME Basic, NEW c \in Clients, Found(c) PROVE Basic'
<1> USE ComparisonsAssumption, SomeAssumption DEF Basic, Goes, Drops, index, asked
<1>1. gen[c] \in Generations /\ bundles[gen[c]] # None
  BY DEF Found, Missing, TypeOK, Steps
<1>2. Renewed(gen[c])
  BY <1>1, TouchFacts DEF Found
<1>3. pc[c] = "look" /\ Leaves(c)
      /\ UNCHANGED <<current, id, void, stopper, selections, pending, task, permit, seen>>
  BY DEF Found, Leaves
<1>4. TypeOK'
  BY <1>1, <1>2, <1>3 DEF TypeOK, Procs, Renewed, Leaves
<1>5. PermitHeld' /\ PendingKept' /\ Stopped'
  BY <1>1, <1>2, <1>3 DEF TypeOK, PermitHeld, PendingKept, Stopped, Running, Renewed
<1>6. Named'
  BY <1>1, <1>2, <1>3 DEF TypeOK, Procs, Named, Renewed, Leaves
<1>7. Steps'
  BY <1>1, <1>2, <1>3 DEF TypeOK, Procs, Steps, Leaves
<1>8. Awaited'
  BY <1>1, <1>2, <1>3 DEF TypeOK, Procs, Awaited, Leaves, historical
<1> QED
  BY <1>4, <1>5, <1>6, <1>7, <1>8

LEMMA RestoreBasic == ASSUME Basic, NEW c \in Clients, Restore(c) PROVE Basic'
<1> USE ComparisonsAssumption, SomeAssumption DEF Basic, Goes, Drops, index, asked
<1>1. gen[c] \in Generations /\ bundles[gen[c]] # None
  BY DEF Restore, Missing, TypeOK, Steps
<1>2. Renewed(gen[c])
  BY <1>1, TouchFacts DEF Restore
<1>3. /\ pc[c] = "look" /\ pc' = [pc EXCEPT ![c] = "read"]
      /\ of' = [of EXCEPT ![c] = bundles[gen[c]].of] /\ bundles[gen[c]].of # None
      /\ op[c] = "removed" /\ ~bundles[gen[c]].snap
      /\ UNCHANGED <<current, id, void, stopper, selections, pending, task, permit, seen,
                     op, gen, waits, late>>
  BY <1>1 DEF Restore, Restores, Missing
<1>9. bundles[gen[c]].of \in Attempts
  <2>1. bundles[gen[c]] \in Bundle
    BY <1>1 DEF TypeOK
  <2> QED
    BY <1>3, <2>1 DEF Bundle
<1>4. TypeOK'
  BY <1>1, <1>2, <1>3, <1>9 DEF TypeOK, Procs, Renewed
<1>5. PermitHeld' /\ PendingKept' /\ Stopped'
  BY <1>1, <1>2, <1>3 DEF TypeOK, PermitHeld, PendingKept, Stopped, Running, Renewed
<1>6. Named'
  BY <1>1, <1>2, <1>3, <1>9 DEF TypeOK, Procs, Named, Renewed, Steps
<1>7. Steps'
  BY <1>1, <1>2, <1>3, <1>9 DEF TypeOK, Procs, Steps, Leaves
<1>8. Awaited'
  BY <1>1, <1>2, <1>3 DEF TypeOK, Procs, Awaited, Leaves, historical
<1> QED
  BY <1>4, <1>5, <1>6, <1>7, <1>8

LEMMA ReceiveBasic == ASSUME Basic, NEW c \in Clients, Receive(c) PROVE Basic'
<1> USE ComparisonsAssumption, SomeAssumption DEF Basic, Receive, Goes, Drops, Forgets, Leaves, Quits, Touch, index, store, asked, vars, closed
<1>1. TypeOK'
  BY DEF TypeOK, Procs, Capture, Idle, Bundle, Ended, Retention
<1>2. PermitHeld' /\ PendingKept' /\ Stopped'
  BY DEF TypeOK, Capture, Idle, Ended, PermitHeld, PendingKept, Stopped, Running
<1>3. Named'
  BY DEF TypeOK, Procs, Capture, Idle, Bundle, Ended, Named, Steps
<1>4. Steps'
  BY DEF TypeOK, Procs, Capture, Idle, Steps, historical
<1>5. Awaited'
  <2>1. \A t \in Tasks : task'[t] = task[t] \/ (task[t].pc = "none" /\ task'[t] = Idle)
    BY DEF TypeOK, Steps
  <2>2. \A d \in Clients : pc'[d] = "wait" =>
            /\ pc[d] = "wait" /\ of'[d] = of[d] /\ op'[d] = op[d] /\ waits'[d] = waits[d]
            /\ waits[d] \in Tasks
    BY DEF TypeOK, Procs, Steps
  <2> HIDE DEF Receive, Leaves
  <2>3. ASSUME NEW d \in Clients, pc'[d] = "wait", task'[waits'[d]].pc # "none"
        PROVE  /\ task'[waits'[d]].of = of'[d]
               /\ task'[waits'[d]].historical = (op'[d] = "removed")
    <3>1. task'[waits[d]] = task[waits[d]]
      BY <2>1, <2>2, <2>3 DEF Idle
    <3> QED
      BY <2>2, <2>3, <3>1 DEF Awaited, historical
  <2> QED
    BY <2>3 DEF Awaited, historical
<1> QED
  BY <1>1, <1>2, <1>3, <1>4, <1>5

LEMMA DisconnectBasic == ASSUME Basic, NEW c \in Clients, Disconnect(c) PROVE Basic'
<1> USE ComparisonsAssumption, SomeAssumption DEF Basic, Disconnect, Goes, Drops, Forgets, Leaves, Quits, Touch, index, store, asked, vars, closed
<1>1. TypeOK'
  BY DEF TypeOK, Procs, Capture, Idle, Bundle, Ended, Retention
<1>2. PermitHeld' /\ PendingKept' /\ Stopped'
  BY DEF TypeOK, Capture, Idle, Ended, PermitHeld, PendingKept, Stopped, Running
<1>3. Named'
  BY DEF TypeOK, Procs, Capture, Idle, Bundle, Ended, Named, Steps
<1>4. Steps'
  BY DEF TypeOK, Procs, Capture, Idle, Ended, Steps, Named
<1>5. Awaited'
  <2>1. \A t \in Tasks : task'[t] = task[t] \/ (task[t].pc = "none" /\ task'[t] = Idle)
    BY DEF TypeOK, Steps
  <2>2. \A d \in Clients : pc'[d] = "wait" =>
            /\ pc[d] = "wait" /\ of'[d] = of[d] /\ op'[d] = op[d] /\ waits'[d] = waits[d]
            /\ waits[d] \in Tasks
    BY DEF TypeOK, Procs, Steps
  <2> HIDE DEF Disconnect, Leaves
  <2>3. ASSUME NEW d \in Clients, pc'[d] = "wait", task'[waits'[d]].pc # "none"
        PROVE  /\ task'[waits'[d]].of = of'[d]
               /\ task'[waits'[d]].historical = (op'[d] = "removed")
    <3>1. task'[waits[d]] = task[waits[d]]
      BY <2>1, <2>2, <2>3 DEF Idle
    <3> QED
      BY <2>2, <2>3, <3>1 DEF Awaited, historical
  <2> QED
    BY <2>3 DEF Awaited, historical
<1> QED
  BY <1>1, <1>2, <1>3, <1>4, <1>5

LEMMA ServeBasic == ASSUME Basic, NEW c \in Clients, Serve(c) PROVE Basic'
<1> USE ComparisonsAssumption, SomeAssumption DEF Basic, Serve, Goes, Drops, Forgets, Leaves, Quits, Touch, index, store, asked, vars, closed
<1>1. TypeOK'
  BY DEF TypeOK, Procs, Capture, Idle, Bundle, Ended, Retention
<1>2. PermitHeld' /\ PendingKept' /\ Stopped'
  BY DEF TypeOK, Capture, Idle, Ended, PermitHeld, PendingKept, Stopped, Running
<1>3. Named'
  BY DEF TypeOK, Procs, Capture, Idle, Bundle, Ended, Named, Steps
<1>4. Steps'
  BY DEF TypeOK, Procs, Capture, Idle, Ended, Steps, Named
<1>5. Awaited'
  BY DEF TypeOK, Procs, Capture, Idle, Ended, Steps, Awaited, PendingKept, historical
<1> QED
  BY <1>1, <1>2, <1>3, <1>4, <1>5

LEMMA AcquireBasic == ASSUME Basic, NEW t \in Tasks, Acquire(t) PROVE Basic'
<1> USE ComparisonsAssumption, SomeAssumption DEF Basic, Acquire, Goes, Drops, Forgets, Leaves, Quits, Touch, index, store, asked, vars, closed
<1>1. TypeOK'
  <2>1. task' \in [Tasks -> Capture]
    BY GoesOn
  <2> QED
    BY <2>1 DEF TypeOK
<1>2. PermitHeld' /\ PendingKept' /\ Stopped'
  BY DEF TypeOK, Capture, Idle, Ended, PermitHeld, PendingKept, Stopped, Running
<1>3. Named'
  BY DEF TypeOK, Procs, Capture, Idle, Bundle, Ended, Named, Steps
<1>4. Steps'
  BY DEF TypeOK, Procs, Capture, Idle, Ended, Steps, Named
<1>5. Awaited'
  BY DEF TypeOK, Procs, Capture, Idle, Ended, Steps, Awaited, PendingKept, historical
<1> QED
  BY <1>1, <1>2, <1>3, <1>4, <1>5

LEMMA GiveUpBasic == ASSUME Basic, NEW t \in Tasks, GiveUp(t) PROVE Basic'
<1> USE ComparisonsAssumption, SomeAssumption DEF Basic, GiveUp, Goes, Drops, Forgets, Leaves, Quits, Touch, index, store, asked, vars, closed
<1>1. TypeOK'
  <2>1. task' \in [Tasks -> Capture]
    BY GoesOn
  <2> QED
    BY <2>1 DEF TypeOK
<1>2. PermitHeld' /\ PendingKept' /\ Stopped'
  BY DEF TypeOK, Capture, Idle, Ended, PermitHeld, PendingKept, Stopped, Running
<1>3. Named'
  BY DEF TypeOK, Procs, Capture, Idle, Bundle, Ended, Named, Steps
<1>4. Steps'
  BY DEF TypeOK, Procs, Capture, Idle, Ended, Steps, Named
<1>5. Awaited'
  BY DEF TypeOK, Procs, Capture, Idle, Ended, Steps, Awaited, PendingKept, historical
<1> QED
  BY <1>1, <1>2, <1>3, <1>4, <1>5

LEMMA CommitBasic == ASSUME Basic, NEW t \in Tasks, Commit(t) PROVE Basic'
<1> USE ComparisonsAssumption, SomeAssumption DEF Basic, Commit, Goes, Drops, Forgets, Leaves, Quits, Touch, index, store, asked, vars, closed
<1>1. TypeOK'
  <2>1. task' \in [Tasks -> Capture]
    BY GoesOn
  <2>2. task[t].of \in Attempts /\ bundles' \in [Generations -> Bundle \cup {None}]
    BY CommitFacts
  <2>3. selections' \in [Attempts -> Tasks \cup {None}]
    BY <2>2 DEF TypeOK
  <2> QED
    BY <2>1, <2>2, <2>3 DEF TypeOK
<1>2. PermitHeld' /\ PendingKept' /\ Stopped'
  BY DEF TypeOK, Capture, Idle, Ended, PermitHeld, PendingKept, Stopped, Running
<1>3. Named'
  <2>1. \A s \in Tasks : task'[s].of = task[s].of
    BY DEF TypeOK, Capture, Ended
  <2>2. \A g \in Generations : bundles'[g] # None =>
            bundles'[g].of = None \/ (bundles[g] # None /\ bundles'[g].of = bundles[g].of)
    BY CommitFacts
  <2> QED
    BY <2>1, <2>2 DEF Named
<1>4. Steps'
  BY DEF TypeOK, Procs, Capture, Idle, Ended, Steps, Named
<1>5. Awaited'
  BY DEF TypeOK, Procs, Capture, Idle, Ended, Steps, Awaited, PendingKept, historical
<1> QED
  BY <1>1, <1>2, <1>3, <1>4, <1>5

LEMMA FailBasic == ASSUME Basic, NEW t \in Tasks, Fail(t) PROVE Basic'
<1> USE ComparisonsAssumption, SomeAssumption DEF Basic, Fail, Goes, Drops, Forgets, Leaves, Quits, Touch, index, store, asked, vars, closed
<1>1. TypeOK'
  <2>1. task' \in [Tasks -> Capture]
    BY GoesOn
  <2> QED
    BY <2>1 DEF TypeOK
<1>2. PermitHeld' /\ PendingKept' /\ Stopped'
  BY DEF TypeOK, Capture, Idle, Ended, PermitHeld, PendingKept, Stopped, Running
<1>3. Named'
  BY DEF TypeOK, Procs, Capture, Idle, Bundle, Ended, Named, Steps
<1>4. Steps'
  BY DEF TypeOK, Procs, Capture, Idle, Ended, Steps, Named
<1>5. Awaited'
  BY DEF TypeOK, Procs, Capture, Idle, Ended, Steps, Awaited, PendingKept, historical
<1> QED
  BY <1>1, <1>2, <1>3, <1>4, <1>5

LEMMA InterruptBasic == ASSUME Basic, NEW t \in Tasks, Interrupt(t) PROVE Basic'
<1> USE ComparisonsAssumption, SomeAssumption DEF Basic, Interrupt, Goes, Drops, Forgets, Leaves, Quits, Touch, index, store, asked, vars, closed
<1>1. TypeOK'
  <2>1. task' \in [Tasks -> Capture]
    BY GoesOn
  <2> QED
    BY <2>1 DEF TypeOK
<1>2. PermitHeld' /\ PendingKept' /\ Stopped'
  BY DEF TypeOK, Capture, Idle, Ended, PermitHeld, PendingKept, Stopped, Running
<1>3. Named'
  BY DEF TypeOK, Procs, Capture, Idle, Bundle, Ended, Named, Steps
<1>4. Steps'
  BY DEF TypeOK, Procs, Capture, Idle, Ended, Steps, Named
<1>5. Awaited'
  BY DEF TypeOK, Procs, Capture, Idle, Ended, Steps, Awaited, PendingKept, historical
<1> QED
  BY <1>1, <1>2, <1>3, <1>4, <1>5

LEMMA DrainedBasic == ASSUME Basic, NEW t \in Tasks, Drained(t) PROVE Basic'
<1> USE ComparisonsAssumption, SomeAssumption DEF Basic, Drained, Goes, Drops, Forgets, Leaves, Quits, Touch, index, store, asked, vars, closed
<1>1. TypeOK'
  BY DEF TypeOK, Procs, Capture, Idle, Bundle, Ended, Retention
<1>2. PermitHeld' /\ PendingKept' /\ Stopped'
  BY DEF TypeOK, Capture, Idle, Ended, PermitHeld, PendingKept, Stopped, Running
<1>3. Named'
  BY DEF TypeOK, Procs, Capture, Idle, Bundle, Ended, Named, Steps
<1>4. Steps'
  BY DEF TypeOK, Procs, Capture, Idle, Ended, Steps, Named
<1>5. Awaited'
  BY DEF TypeOK, Procs, Capture, Idle, Ended, Steps, Awaited, PendingKept, historical
<1> QED
  BY <1>1, <1>2, <1>3, <1>4, <1>5

LEMMA ForgetBasic == ASSUME Basic, NEW t \in Tasks, Forget(t) PROVE Basic'
<1> USE ComparisonsAssumption, SomeAssumption DEF Basic, Forget, Goes, Drops, Forgets, Leaves, Quits, Touch, index, store, asked, vars, closed
<1>1. TypeOK'
  BY DEF TypeOK, Procs, Capture, Idle, Bundle, Ended, Retention
<1>2. PermitHeld' /\ PendingKept' /\ Stopped'
  BY DEF TypeOK, Capture, Idle, Ended, PermitHeld, PendingKept, Stopped, Running
<1>3. Named'
  BY DEF TypeOK, Procs, Capture, Idle, Bundle, Ended, Named, Steps
<1>4. Steps'
  BY DEF TypeOK, Procs, Capture, Idle, Ended, Steps, Named
<1>5. Awaited'
  <2>1. \A s \in Tasks : task'[s] = task[s] \/ task'[s].pc = "none"
    BY DEF TypeOK, Idle
  <2>2. \A d \in Clients : pc[d] = "wait" => waits[d] \in Tasks
    BY DEF TypeOK, Steps
  <2>3. UNCHANGED <<pc, of, op, waits>>
    OBVIOUS
  <2> HIDE DEF Forget
  <2> QED
    BY <2>1, <2>2, <2>3 DEF Awaited, historical
<1> QED
  BY <1>1, <1>2, <1>3, <1>4, <1>5

LEMMA ClassifyBasic == ASSUME Basic, Classify PROVE Basic'
<1> USE ComparisonsAssumption, SomeAssumption DEF Basic, Classify, Goes, Drops, Forgets, Leaves, Quits, Touch, index, store, asked, vars, closed
<1>1. TypeOK'
  BY DEF TypeOK, Procs, Capture, Idle, Bundle, Ended, Retention
<1>2. PermitHeld' /\ PendingKept' /\ Stopped'
  BY DEF TypeOK, Capture, Idle, Ended, PermitHeld, PendingKept, Stopped, Running
<1>3. Named'
  <2>1. PICK a \in Attempts, i \in Ids :
            /\ Vacant(a) /\ id' = [id EXCEPT ![a] = i] /\ of' = [of EXCEPT ![Pass] = a]
    BY DEF Classify
  <2>2. \A b \in Attempts : id'[b] = id[b] \/ id'[b] \in Ids
    BY <2>1 DEF TypeOK
  <2>3. \A g \in Generations : bundles[g] # None => bundles[g].of # a
    BY <2>1 DEF Vacant
  <2>4. \A g \in Generations : bundles[g] # None => bundles[g].of \in Attempts \cup {None}
    BY DEF TypeOK, Bundle
  <2>5. \A t \in Tasks : task[t].of \in Attempts \cup {None}
    BY DEF TypeOK, Capture
  <2> QED
    BY <2>1, <2>2, <2>3, <2>4, <2>5 DEF Named, TypeOK, Procs
<1>4. Steps'
  BY DEF TypeOK, Procs, Capture, Idle, Ended, Steps, Named
<1>5. Awaited'
  BY DEF TypeOK, Procs, Capture, Idle, Ended, Steps, Awaited, PendingKept, historical
<1> QED
  BY <1>1, <1>2, <1>3, <1>4, <1>5

LEMMA QuitBasic == ASSUME Basic, Quit PROVE Basic'
<1> USE ComparisonsAssumption, SomeAssumption DEF Basic, Quit, Goes, Drops, Forgets, Leaves, Quits, Touch, index, store, asked, vars, closed
<1>1. TypeOK'
  BY DEF TypeOK, Procs, Capture, Idle, Bundle, Ended, Retention
<1>2. PermitHeld' /\ PendingKept' /\ Stopped'
  BY DEF TypeOK, Capture, Idle, Ended, PermitHeld, PendingKept, Stopped, Running
<1>3. Named'
  BY DEF TypeOK, Procs, Capture, Idle, Bundle, Ended, Named, Steps
<1>4. Steps'
  BY DEF TypeOK, Procs, Capture, Idle, Ended, Steps, Named
<1>5. Awaited'
  BY DEF TypeOK, Procs, Capture, Idle, Ended, Steps, Awaited, PendingKept, historical
<1> QED
  BY <1>1, <1>2, <1>3, <1>4, <1>5

LEMMA WaitBasic == ASSUME Basic, Wait PROVE Basic'
<1> USE ComparisonsAssumption, SomeAssumption DEF Basic, Wait, Goes, Drops, Forgets, Leaves, Quits, Touch, index, store, asked, vars, closed
<1>1. TypeOK'
  BY DEF TypeOK, Procs, Capture, Idle, Bundle, Ended, Retention
<1>2. PermitHeld' /\ PendingKept' /\ Stopped'
  BY DEF TypeOK, Capture, Idle, Ended, PermitHeld, PendingKept, Stopped, Running
<1>3. Named'
  BY DEF TypeOK, Procs, Capture, Idle, Bundle, Ended, Named, Steps
<1>4. Steps'
  BY DEF TypeOK, Procs, Capture, Idle, Ended, Steps, Named
<1>5. Awaited'
  BY DEF TypeOK, Procs, Capture, Idle, Ended, Steps, Awaited, PendingKept, historical
<1> QED
  BY <1>1, <1>2, <1>3, <1>4, <1>5

LEMMA InstallBasic == ASSUME Basic, Install PROVE Basic'
<1> USE ComparisonsAssumption, SomeAssumption DEF Basic, Goes, index, asked
<1> DEFINE a == of[Pass]
           g == id[a]
<1>1. /\ pc[Pass] = "put" /\ pc' = [pc EXCEPT ![Pass] = "swap"] /\ ~closed
      /\ UNCHANGED <<current, id, void, stopper, selections, pending, task, permit, of,
                     seen, op, gen, waits, late>>
  BY DEF Install, Over
<1>2. a \in Attempts /\ g \in Ids /\ g \in Generations
  BY <1>1 DEF TypeOK, Steps, Named, Procs, Generations
<1>3. /\ bundles' \in [Generations -> Bundle \cup {None}]
      /\ bundles'[g] # None /\ bundles'[g].of = a
      /\ \A h \in Generations : h # g => bundles'[h] = bundles[h]
      /\ bundles[g] = None => ~bundles'[g].snap /\ bundles'[g].age = 0
      /\ bundles[g] # None =>
             bundles'[g].snap = bundles[g].snap /\ bundles'[g].age = bundles[g].age
  BY <1>2, InstallFacts DEF Install
<1> HIDE DEF g
<1>4. TypeOK'
  BY <1>1, <1>3 DEF TypeOK, Procs
<1>5. PermitHeld' /\ PendingKept' /\ Stopped'
  BY <1>1 DEF PermitHeld, PendingKept, Stopped, Running, closed
<1>6. Named'
  BY <1>1, <1>2, <1>3 DEF Named, g
<1>7. Steps' /\ Awaited'
  BY <1>1 DEF TypeOK, Procs, Steps, Awaited, historical
<1> QED
  BY <1>4, <1>5, <1>6, <1>7

LEMMA AgainBasic == ASSUME Basic, Again PROVE Basic'
<1> USE ComparisonsAssumption, SomeAssumption DEF Basic, Again, Goes, Drops, Forgets, Leaves, Quits, Touch, index, store, asked, vars, closed
<1>1. TypeOK'
  BY DEF TypeOK, Procs, Capture, Idle, Bundle, Ended, Retention
<1>2. PermitHeld' /\ PendingKept' /\ Stopped'
  BY DEF TypeOK, Capture, Idle, Ended, PermitHeld, PendingKept, Stopped, Running
<1>3. Named'
  BY DEF TypeOK, Procs, Capture, Idle, Bundle, Ended, Named, Steps
<1>4. Steps'
  BY DEF TypeOK, Procs, Capture, Idle, Ended, Steps, Named
<1>5. Awaited'
  BY DEF TypeOK, Procs, Capture, Idle, Ended, Steps, Awaited, PendingKept, historical
<1> QED
  BY <1>1, <1>2, <1>3, <1>4, <1>5

LEMMA PublishBasic == ASSUME Basic, Publish PROVE Basic'
<1> USE ComparisonsAssumption, SomeAssumption DEF Basic, Publish, Goes, Drops, Forgets, Leaves, Quits, Touch, index, store, asked, vars, closed
<1>1. TypeOK'
  BY DEF TypeOK, Procs, Capture, Idle, Bundle, Ended, Retention
<1>2. PermitHeld' /\ PendingKept' /\ Stopped'
  BY DEF TypeOK, Capture, Idle, Ended, PermitHeld, PendingKept, Stopped, Running
<1>3. Named'
  BY DEF TypeOK, Procs, Capture, Idle, Bundle, Ended, Named, Steps
<1>4. Steps'
  BY DEF TypeOK, Procs, Capture, Idle, Ended, Steps, Named
<1>5. Awaited'
  BY DEF TypeOK, Procs, Capture, Idle, Ended, Steps, Awaited, PendingKept, historical
<1> QED
  BY <1>1, <1>2, <1>3, <1>4, <1>5

LEMMA ReplaceBasic == ASSUME Basic, Replace PROVE Basic'
<1> USE ComparisonsAssumption, SomeAssumption DEF Basic, Replace, Goes, Drops, Forgets, Leaves, Quits, Touch, index, store, asked, vars, closed
<1>1. TypeOK'
  BY DEF TypeOK, Procs, Capture, Idle, Bundle, Ended, Retention
<1>2. PermitHeld' /\ PendingKept' /\ Stopped'
  BY DEF TypeOK, Capture, Idle, Ended, PermitHeld, PendingKept, Stopped, Running
<1>3. Named'
  BY DEF TypeOK, Procs, Capture, Idle, Bundle, Ended, Named, Steps
<1>4. Steps'
  BY DEF TypeOK, Procs, Capture, Idle, Ended, Steps, Named
<1>5. Awaited'
  BY DEF TypeOK, Procs, Capture, Idle, Ended, Steps, Awaited, PendingKept, historical
<1> QED
  BY <1>1, <1>2, <1>3, <1>4, <1>5

LEMMA StopBasic == ASSUME Basic, Stop PROVE Basic'
<1> USE ComparisonsAssumption, SomeAssumption DEF Basic, Stop, Goes, Drops, Forgets, Leaves, Quits, Touch, index, store, asked, vars, closed
<1>1. TypeOK'
  BY DEF TypeOK, Procs, Capture, Idle, Bundle, Ended, Retention
<1>2. PermitHeld' /\ PendingKept' /\ Stopped'
  BY DEF TypeOK, Capture, Idle, Ended, PermitHeld, PendingKept, Stopped, Running
<1>3. Named'
  BY DEF TypeOK, Procs, Capture, Idle, Bundle, Ended, Named, Steps
<1>4. Steps'
  BY DEF TypeOK, Procs, Capture, Idle, Ended, Steps, Named
<1>5. Awaited'
  BY DEF TypeOK, Procs, Capture, Idle, Ended, Steps, Awaited, PendingKept, historical
<1> QED
  BY <1>1, <1>2, <1>3, <1>4, <1>5

LEMMA CancelAllBasic == ASSUME Basic, CancelAll PROVE Basic'
<1> USE ComparisonsAssumption, SomeAssumption DEF Basic, index, asked
<1>1. SameCaptures
  BY ToldFacts DEF CancelAll, SameCaptures
<1>2. /\ stopper = "closed" /\ stopper' = "waits"
      /\ UNCHANGED <<current, id, bundles, selections, pending, permit, pc, of, seen,
                     op, gen, waits, late>>
      /\ void' \in BOOLEAN
  BY DEF CancelAll, TypeOK
<1>3. TypeOK'
  BY <1>1, <1>2 DEF TypeOK, SameCaptures
<1>4. PermitHeld' /\ PendingKept' /\ Stopped'
  BY <1>1, <1>2 DEF TypeOK, PermitHeld, PendingKept, Stopped, Running, SameCaptures
<1>5. Named' /\ Steps' /\ Awaited'
  BY <1>1, <1>2 DEF TypeOK, Named, Steps, Awaited, historical, SameCaptures
<1> QED
  BY <1>3, <1>4, <1>5

LEMMA ClearBasic == ASSUME Basic, Clear PROVE Basic'
<1> USE ComparisonsAssumption, SomeAssumption DEF Basic, Clear, Goes, Drops, Forgets, Leaves, Quits, Touch, index, store, asked, vars, closed
<1>1. TypeOK'
  BY DEF TypeOK, Procs, Capture, Idle, Bundle, Ended, Retention
<1>2. PermitHeld' /\ PendingKept' /\ Stopped'
  BY DEF TypeOK, Capture, Idle, Ended, PermitHeld, PendingKept, Stopped, Running
<1>3. Named'
  BY DEF TypeOK, Procs, Capture, Idle, Bundle, Ended, Named, Steps
<1>4. Steps'
  BY DEF TypeOK, Procs, Capture, Idle, Ended, Steps, Named
<1>5. Awaited'
  BY DEF TypeOK, Procs, Capture, Idle, Ended, Steps, Awaited, PendingKept, historical
<1> QED
  BY <1>1, <1>2, <1>3, <1>4, <1>5

LEMMA ThirdBasic == ASSUME Basic, Third PROVE Basic'
<1> USE ComparisonsAssumption, SomeAssumption DEF Basic, Third, Goes, Drops, Forgets, Leaves, Quits, Touch, index, store, asked, vars, closed
<1>1. TypeOK'
  <2>1. bundles' \in [Generations -> Bundle \cup {None}]
    BY AgingFacts
  <2>2. late' \subseteq Procs \cup Tasks
    BY DEF Busy
  <2> QED
    BY <2>1, <2>2 DEF TypeOK
<1>2. PermitHeld' /\ PendingKept' /\ Stopped'
  BY DEF TypeOK, Capture, Idle, Ended, PermitHeld, PendingKept, Stopped, Running
<1>3. Named'
  BY DEF TypeOK, Procs, Capture, Idle, Bundle, Ended, Named, Steps
<1>4. Steps'
  BY DEF TypeOK, Procs, Capture, Idle, Ended, Steps, Named
<1>5. Awaited'
  BY DEF TypeOK, Procs, Capture, Idle, Ended, Steps, Awaited, PendingKept, historical
<1> QED
  BY <1>1, <1>2, <1>3, <1>4, <1>5


-----------------------------------------------------------------------------
\* Room and time.

\* What holds less fits as well.
LEMMA FewerBounded ==
    ASSUME TypeOK, Bounded, Kept' \subseteq Kept, Snapped' \subseteq Snapped
    PROVE  Bounded'
<1>1. IsFiniteSet(Kept) /\ IsFiniteSet(Snapped)
  BY FS_Subset, SomeAssumption DEF Kept, Snapped
<1>2. /\ IsFiniteSet(Kept') /\ Cardinality(Kept') <= Cardinality(Kept)
      /\ IsFiniteSet(Snapped') /\ Cardinality(Snapped') <= Cardinality(Snapped)
  BY <1>1, FS_Subset
<1>3. /\ Cardinality(Kept) \in Nat /\ Cardinality(Snapped) \in Nat
      /\ Cardinality(Kept') \in Nat /\ Cardinality(Snapped') \in Nat
  BY <1>1, <1>2, FS_CardinalityType
<1> QED
  BY <1>2, <1>3, ComparisonsAssumption DEF Bounded

LEMMA Counts ==
    ASSUME TypeOK
    PROVE  Cardinality(Kept) \in Nat /\ Cardinality(Snapped) \in Nat
<1>1. IsFiniteSet(Kept) /\ IsFiniteSet(Snapped)
  BY FS_Subset, SomeAssumption DEF Kept, Snapped
<1> QED
  BY <1>1, FS_CardinalityType

LEMMA LessBounded ==
    ASSUME TypeOK, Bounded,
           \A g \in Generations : bundles'[g] # None =>
               bundles[g] # None /\ (bundles'[g].snap => bundles[g].snap)
    PROVE  Bounded'
<1>1. Kept' \subseteq Kept /\ Snapped' \subseteq Snapped
  BY DEF Kept, Snapped
<1> QED
  BY <1>1, FewerBounded

\* One file more fits if it was admitted.
LEMMA MoreBounded ==
    ASSUME TypeOK, Bounded, NEW g \in Generations, NEW more \in {0, 1}, Admits(g, more),
           \A h \in Generations : h # g => bundles'[h] = bundles[h],
           \/ /\ bundles[g] = None /\ more = 1 /\ bundles'[g] # None /\ ~bundles'[g].snap
           \/ bundles[g] # None /\ bundles[g].snap = bundles'[g].snap
           \/ bundles[g] # None /\ bundles'[g] # None /\ ~bundles[g].snap /\ more = 1
    PROVE  Bounded'
<1>1. IsFiniteSet(Kept) /\ IsFiniteSet(Snapped)
  BY FS_Subset, SomeAssumption DEF Kept, Snapped
<1>2. Cardinality(Kept) \in Nat /\ Cardinality(Snapped) \in Nat
  BY <1>1, FS_CardinalityType
<1>3. Cardinality(Kept) + Cardinality(Snapped) + more <= MaxTotal
  BY DEF Admits, Snapped
<1>4. CASE bundles[g] = None /\ more = 1 /\ bundles'[g] # None /\ ~bundles'[g].snap
  <2>1. Kept' = Kept \cup {g} /\ g \notin Kept /\ Snapped' = Snapped
    BY <1>4 DEF Kept, Snapped
  <2>2. Cardinality(Kept') = Cardinality(Kept) + 1
    BY <1>1, <2>1, FS_AddElement
  <2> QED
    BY <1>2, <1>3, <1>4, <2>1, <2>2 DEF Bounded
<1>5. CASE bundles[g] # None /\ bundles[g].snap = bundles'[g].snap
  <2>1. \A h \in Generations : bundles'[h] # None =>
            bundles[h] # None /\ (bundles'[h].snap => bundles[h].snap)
    BY <1>5
  <2> QED
    BY <2>1, LessBounded
<1>6. CASE bundles[g] # None /\ bundles'[g] # None /\ ~bundles[g].snap /\ more = 1
  <2>1. Kept' = Kept /\ Snapped' \subseteq Snapped \cup {g} /\ g \notin Snapped
    BY <1>6 DEF Kept, Snapped
  <2>2. /\ IsFiniteSet(Snapped \cup {g})
        /\ Cardinality(Snapped \cup {g}) = Cardinality(Snapped) + 1
    BY <1>1, <2>1, FS_AddElement
  <2>3. IsFiniteSet(Snapped') /\ Cardinality(Snapped') <= Cardinality(Snapped) + 1
    BY <2>1, <2>2, FS_Subset
  <2>4. Cardinality(Snapped') \in Nat
    BY <2>3, FS_CardinalityType
  <2> QED
    BY <1>2, <1>3, <1>6, <2>1, <2>3, <2>4, ComparisonsAssumption DEF Bounded
<1> QED
  BY <1>4, <1>5, <1>6

\* A collection leaves what was touched a moment ago, and what the index names.
LEMMA NearKept ==
    ASSUME TypeOK, Collected, NEW x, NEW g \in Generations, Near(g, x)
    PROVE  bundles'[g] = bundles[g]
<1>1. bundles[g] # None /\ bundles[g].age \in 0 .. Retention
  BY DEF TypeOK, Near, Bundle
<1>2. bundles[g].age < Retention
  BY <1>1 DEF Near, Retention
<1> QED
  BY <1>1, <1>2 DEF Collected

LEMMA CurrentLeft ==
    ASSUME Basic, Advertised, current # None, ~closed, ~IdsReturn, NEW x \in Procs,
           pc[x] \in {"sweep", "clean", "begin"}, bundles' = Left(seen[x])
    PROVE  /\ bundles'[id[current]] # None
           /\ bundles'[id[current]].age = bundles[id[current]].age
<1> DEFINE g == id[current]
<1>1. g \in Generations /\ bundles[g] # None /\ bundles[g].age \in 0 .. Retention
  BY DEF Basic, Named, Generations, Advertised, TypeOK, Bundle
<1>2. seen[x] \in Attempts \cup {None}
  BY DEF Basic, TypeOK
<1>3. CASE Stale(x)
  <2>1. bundles[g].age <= 2
    BY <1>1, <1>3 DEF Advertised
  <2>2. bundles[g].age < Retention
    BY <1>1, <2>1 DEF Retention
  <2> QED
    BY <1>1, <1>2, <2>2, LeftFacts DEF Basic
<1>4. CASE ~Stale(x)
  <2>1. seen[x] # None /\ id[seen[x]] = g
    BY <1>4 DEF Stale
  <2> QED
    BY <1>1, <1>2, <2>1, LeftFacts DEF Basic
<1> QED
  BY <1>3, <1>4

\* What a step does that makes nothing older and takes nothing away.
Younger ==
    \A h \in Generations : bundles[h] # None =>
        /\ bundles'[h] # None /\ bundles'[h].age <= bundles[h].age
        /\ bundles[h].snap => bundles'[h].snap

\* What was touched a moment ago stays as it is.
NearStays ==
    \A g \in Generations, x \in Procs \cup Tasks :
        Near(g, x) /\ (x \in late => x \in late') =>
            Near(g, x)' /\ (bundles[g].snap => bundles'[g].snap)
LEMMA CollectedStays ==
    ASSUME TypeOK, Collected
    PROVE  NearStays
<1> SUFFICES ASSUME NEW g \in Generations, NEW x \in Procs \cup Tasks, Near(g, x),
                    x \in late => x \in late'
             PROVE  Near(g, x)' /\ (bundles[g].snap => bundles'[g].snap)
  BY DEF NearStays
<1>1. bundles'[g] = bundles[g]
  BY NearKept
<1>2. bundles[g] # None /\ bundles[g].age \in Int
  BY DEF Near, TypeOK, Bundle, Retention
<1> QED
  BY <1>1, <1>2 DEF Near

LEMMA YoungerStays ==
    ASSUME TypeOK, TypeOK', Younger
    PROVE  NearStays
<1> SUFFICES ASSUME NEW g \in Generations, NEW x \in Procs \cup Tasks, Near(g, x),
                    x \in late => x \in late'
             PROVE  Near(g, x)' /\ (bundles[g].snap => bundles'[g].snap)
  BY DEF NearStays
<1>1. /\ bundles[g] # None /\ bundles'[g] # None /\ bundles'[g].age <= bundles[g].age
      /\ bundles[g].snap => bundles'[g].snap
  BY DEF Near, Younger
<1>2. bundles[g].age \in Int /\ bundles'[g].age \in Int
  BY <1>1 DEF TypeOK, Bundle, Retention
<1> QED
  BY <1>1, <1>2 DEF Near

LEMMA StillAdvertised ==
    ASSUME Basic, Basic', Advertised, UNCHANGED <<current, id, stopper>>,
           current # None /\ ~closed /\ ~IdsReturn =>
               /\ bundles'[id[current]] # None
               /\ bundles'[id[current]].age <= bundles[id[current]].age,
           \A x \in Procs : Stale(x)' => Stale(x) /\ (x \in late => x \in late')
    PROVE  Advertised'
<1> SUFFICES ASSUME current # None, ~closed, ~IdsReturn
             PROVE  /\ bundles'[id[current]] # None
                    /\ \A x \in Procs : Stale(x)' =>
                           bundles'[id[current]].age <= (IF x \in late' THEN 2 ELSE 1)
  BY DEF Advertised, closed
<1>1. id[current] \in Generations
  BY DEF Basic, Named, Generations
<1>2. bundles[id[current]] # None /\ bundles[id[current]].age \in Int
  BY <1>1 DEF Advertised, Basic, TypeOK, Bundle, Retention
<1>3. bundles'[id[current]] # None /\ bundles'[id[current]].age \in Int
  BY <1>1 DEF Basic, TypeOK, Bundle, Retention
<1> QED
  BY <1>2, <1>3 DEF Advertised

LEMMA ReadTimely == ASSUME Basic, Bounded, Timely, NEW x \in Procs, Read(x) PROVE Bounded' /\ Timely'
<1> USE ComparisonsAssumption, SomeAssumption DEF Basic, Timely, Read, Goes, Drops, Forgets, Leaves, Quits, Touch, index, store, asked, vars, closed
<1>1. Bounded'
  BY DEF Bounded, Kept, Snapped
<1>2. Restoring'
  BY DEF TypeOK, Procs, Capture, Idle, Ended, Steps, Restoring, Near, Generations, Named
<1>3. Committed'
  BY DEF TypeOK, Procs, Capture, Idle, Ended, Steps, Committed, Near, Generations, Named
<1>4. Installed'
  BY DEF TypeOK, Procs, Steps, Installed, Near, Generations, Named
<1>5. Advertised'
  BY DEF TypeOK, Procs, Steps, Advertised, Stale, Named
<1> QED
  BY <1>1, <1>2, <1>3, <1>4, <1>5

LEMMA SweepTimely == ASSUME Basic, Bounded, Timely, NEW x \in Procs, Sweep(x) PROVE Bounded' /\ Timely'
<1> USE ComparisonsAssumption, SomeAssumption DEF Basic, Timely, Sweep, Goes, Drops, Forgets, Leaves, Quits, Touch, index, store, asked, vars, closed
<1>0. Collected /\ SameCaptures
  <2>1. seen[x] \in Attempts \cup {None} /\ Collect(seen[x])
    BY DEF TypeOK, Procs
  <2> QED
    BY <2>1, CollectFacts
<1>1. Bounded'
  BY <1>0, LessBounded DEF Collected
<1>2. Restoring'
  BY <1>0, NearKept DEF TypeOK, Procs, Capture, Idle, Ended, Steps, Restoring, Near, Generations, Named, Collected, SameCaptures
<1>3. Committed'
  BY <1>0, NearKept DEF TypeOK, Procs, Capture, Idle, Ended, Steps, Committed, Near, Generations, Named, Collected, SameCaptures
<1>4. Installed'
  BY <1>0, NearKept DEF TypeOK, Procs, Steps, Installed, Near, Generations, Named, Collected, SameCaptures
<1>5. Advertised'
  <2>1. Basic'
    BY SweepBasic
  <2>2. current # None /\ ~closed /\ ~IdsReturn =>
            /\ bundles'[id[current]] # None
            /\ bundles'[id[current]].age <= bundles[id[current]].age
    <3>1. ASSUME current # None, ~closed, ~IdsReturn
          PROVE  /\ bundles'[id[current]] # None
                 /\ bundles'[id[current]].age = bundles[id[current]].age
      BY <3>1, CurrentLeft DEF Collect, Procs
    <3>2. ASSUME current # None, ~closed, ~IdsReturn
          PROVE  bundles[id[current]].age \in Int
      BY <3>2 DEF Advertised, Named, Generations, TypeOK, Bundle, Retention
    <3> QED
      BY <3>1, <3>2
  <2>3. \A y \in Procs : Stale(y)' => Stale(y) /\ (y \in late => y \in late')
    BY DEF TypeOK, Procs, Stale
  <2>4. UNCHANGED <<current, id, stopper>>
    OBVIOUS
  <2> HIDE DEF Sweep, Basic
  <2> QED
    BY <2>1, <2>2, <2>3, <2>4, StillAdvertised
<1> QED
  BY <1>1, <1>2, <1>3, <1>4, <1>5

LEMMA PollTimely == ASSUME Basic, Bounded, Timely, Poll PROVE Bounded' /\ Timely'
<1> USE ComparisonsAssumption, SomeAssumption DEF Basic, Timely, Poll, Goes, Drops, Forgets, Leaves, Quits, Touch, index, store, asked, vars, closed
<1>0. Collected /\ SameCaptures
  <2>1. current \in Attempts \cup {None} /\ Collect(current)
    BY DEF TypeOK, Procs
  <2> QED
    BY <2>1, CollectFacts
<1>1. Bounded'
  BY <1>0, LessBounded DEF Collected
<1>2. Restoring'
  BY <1>0, NearKept DEF TypeOK, Procs, Capture, Idle, Ended, Steps, Restoring, Near, Generations, Named, Collected, SameCaptures
<1>3. Committed'
  <2>1. NearStays
    BY <1>0, CollectedStays
  <2>2. \A t \in Tasks : task[t].of # None => id[task[t].of] \in Generations
    BY DEF Named, Generations
  <2> HIDE DEF Poll
  <2>3. UNCHANGED <<id, stopper, late>>
    BY DEF Poll
  <2> QED
    BY <1>0, <2>1, <2>2, <2>3 DEF Committed, NearStays, SameCaptures, Steps
<1>4. Installed'
  BY <1>0, NearKept DEF TypeOK, Procs, Steps, Installed, Near, Generations, Named, Collected, SameCaptures
<1>5. Advertised'
  <2>1. Basic'
    BY PollBasic
  <2>2. current # None /\ ~closed /\ ~IdsReturn =>
            /\ bundles'[id[current]] # None
            /\ bundles'[id[current]].age <= bundles[id[current]].age
    <3>1. ASSUME current # None, ~closed, ~IdsReturn
          PROVE  /\ bundles'[id[current]] # None
                 /\ bundles'[id[current]].age = bundles[id[current]].age
      <4>1. id[current] \in Generations /\ bundles[id[current]] # None
        BY <3>1 DEF Advertised, Named, Generations
      <4> QED
        BY <3>1, <4>1, LeftFacts DEF Collect, TypeOK
    <3>2. ASSUME current # None, ~closed, ~IdsReturn
          PROVE  bundles[id[current]].age \in Int
      BY <3>2 DEF Advertised, Named, Generations, TypeOK, Bundle, Retention
    <3> QED
      BY <3>1, <3>2
  <2>3. \A y \in Procs : Stale(y)' => Stale(y) /\ (y \in late => y \in late')
    BY DEF TypeOK, Procs, Stale
  <2>4. UNCHANGED <<current, id, stopper>>
    OBVIOUS
  <2> HIDE DEF Poll, Basic
  <2> QED
    BY <2>1, <2>2, <2>3, <2>4, StillAdvertised
<1> QED
  BY <1>1, <1>2, <1>3, <1>4, <1>5

LEMMA SelectTimely == ASSUME Basic, Bounded, Timely, NEW c \in Clients, Select(c) PROVE Bounded' /\ Timely'
<1> USE ComparisonsAssumption, SomeAssumption DEF Basic, Timely, Select, Goes, Drops, Forgets, Leaves, Quits, Touch, index, store, asked, vars, closed
<1>1. Bounded'
  BY DEF Bounded, Kept, Snapped
<1>2. Restoring'
  BY DEF TypeOK, Procs, Capture, Idle, Ended, Steps, Restoring, Near, Generations, Named
<1>3. Committed'
  BY DEF TypeOK, Procs, Capture, Idle, Ended, Steps, Committed, Near, Generations, Named
<1>4. Installed'
  BY DEF TypeOK, Procs, Steps, Installed, Near, Generations, Named
<1>5. Advertised'
  BY DEF TypeOK, Procs, Steps, Advertised, Stale, Named
<1> QED
  BY <1>1, <1>2, <1>3, <1>4, <1>5

LEMMA AskTimely == ASSUME Basic, Bounded, Timely, NEW c \in Clients, Ask(c) PROVE Bounded' /\ Timely'
<1> USE ComparisonsAssumption, SomeAssumption DEF Basic, Timely, Ask, Goes, Drops, Forgets, Leaves, Quits, Touch, index, store, asked, vars, closed
<1>1. Bounded'
  BY DEF Bounded, Kept, Snapped
<1>2. Restoring'
  BY DEF TypeOK, Procs, Capture, Idle, Ended, Steps, Restoring, Near, Generations, Named
<1>3. Committed'
  BY DEF TypeOK, Procs, Capture, Idle, Ended, Steps, Committed, Near, Generations, Named
<1>4. Installed'
  BY DEF TypeOK, Procs, Steps, Installed, Near, Generations, Named
<1>5. Advertised'
  BY DEF TypeOK, Procs, Steps, Advertised, Stale, Named
<1> QED
  BY <1>1, <1>2, <1>3, <1>4, <1>5

LEMMA RefuseTimely == ASSUME Basic, Bounded, Timely, NEW c \in Clients, Refuse(c) PROVE Bounded' /\ Timely'
<1> USE ComparisonsAssumption, SomeAssumption DEF Basic, Timely, Refuse, Goes, Drops, Forgets, Leaves, Quits, Touch, index, store, asked, vars, closed
<1>0. Collected /\ SameCaptures
  <2>1. seen[c] \in Attempts \cup {None} /\ Collect(seen[c])
    BY DEF TypeOK, Procs
  <2> QED
    BY <2>1, CollectFacts
<1>1. Bounded'
  BY <1>0, LessBounded DEF Collected
<1>2. Restoring'
  <2>1. NearStays
    BY <1>0, CollectedStays
  <2>2. pc[c] = "begin" /\ Leaves(c) /\ UNCHANGED <<current, id, void, stopper>>
    OBVIOUS
  <2> HIDE DEF Refuse
  <2>3. ASSUME NEW d \in Clients, op'[d] = "removed"
        PROVE  /\ d # c /\ op[d] = "removed" /\ pc'[d] = pc[d] /\ of'[d] = of[d]
               /\ gen'[d] = gen[d] /\ waits'[d] = waits[d] /\ gen[d] \in Generations
               /\ (d \in late => d \in late')
    BY <2>2, <2>3 DEF TypeOK, Procs, Steps
  <2>4. \A d \in Clients : pc[d] = "wait" => waits[d] \in Tasks
    BY DEF TypeOK, Steps
  <2> HIDE DEF Leaves
  <2> QED
    BY <1>0, <2>1, <2>2, <2>3, <2>4 DEF Restoring, NearStays, SameCaptures, Procs
<1>3. Committed'
  <2>1. NearStays
    BY <1>0, CollectedStays
  <2>2. pc[c] = "begin" /\ Leaves(c) /\ UNCHANGED <<current, id, void, stopper>>
    OBVIOUS
  <2> HIDE DEF Refuse
  <2>3. \A t \in Tasks : t \in late => t \in late'
    BY <2>2
  <2>4. \A t \in Tasks : task[t].of # None => id[task[t].of] \in Generations
    BY DEF Named, Generations
  <2> HIDE DEF Leaves
  <2> QED
    BY <1>0, <2>1, <2>2, <2>3, <2>4 DEF Committed, NearStays, SameCaptures, Steps
<1>4. Installed'
  BY <1>0, NearKept DEF TypeOK, Procs, Steps, Installed, Near, Generations, Named, Collected, SameCaptures
<1>5. Advertised'
  <2>1. Basic'
    BY RefuseBasic
  <2>2. current # None /\ ~closed /\ ~IdsReturn =>
            /\ bundles'[id[current]] # None
            /\ bundles'[id[current]].age <= bundles[id[current]].age
    <3>1. ASSUME current # None, ~closed, ~IdsReturn
          PROVE  /\ bundles'[id[current]] # None
                 /\ bundles'[id[current]].age = bundles[id[current]].age
      BY <3>1, CurrentLeft DEF Collect, Procs
    <3>2. ASSUME current # None, ~closed, ~IdsReturn
          PROVE  bundles[id[current]].age \in Int
      BY <3>2 DEF Advertised, Named, Generations, TypeOK, Bundle, Retention
    <3> QED
      BY <3>1, <3>2
  <2>3. \A y \in Procs : Stale(y)' => Stale(y) /\ (y \in late => y \in late')
    BY DEF TypeOK, Procs, Stale
  <2>4. UNCHANGED <<current, id, stopper>>
    OBVIOUS
  <2> HIDE DEF Refuse, Basic
  <2> QED
    BY <2>1, <2>2, <2>3, <2>4, StillAdvertised
<1> QED
  BY <1>1, <1>2, <1>3, <1>4, <1>5

LEMMA JoinTimely == ASSUME Basic, Bounded, Timely, NEW c \in Clients, Join(c) PROVE Bounded' /\ Timely'
<1> USE ComparisonsAssumption, SomeAssumption DEF Basic, Timely, Goes, Forgets, index, asked, closed
<1>1. PICK t \in Same(c) : waits' = [waits EXCEPT ![c] = t]
  BY DEF Join
<1>2. /\ t \in Tasks /\ t \in pending /\ task[t].of = of[c]
      /\ task[t].historical = historical(c)
  BY DEF Same, TypeOK
<1>3. Collected /\ SameCaptures /\ bundles' = Left(seen[c])
  BY CollectFacts DEF Join, TypeOK, Procs, Collect
<1>4. /\ pc[c] = "begin" /\ pc' = [pc EXCEPT ![c] = "wait"] /\ ~closed
      /\ seen' = [seen EXCEPT ![c] = None]
      /\ UNCHANGED <<current, id, void, stopper, pending, permit, of, op, gen, late>>
  BY DEF Join, Admitted
<1>5. NearStays
  BY <1>3, CollectedStays
<1>6. /\ \A s \in Tasks : task[s].of # None => id[task[s].of] \in Generations
      /\ of[Pass] # None => id[of[Pass]] \in Generations
  BY DEF Named, Generations, Procs
<1>7. Bounded'
  BY <1>3, LessBounded DEF Collected
<1>8. Restoring'
  <2>1. ASSUME NEW d \in Clients, d # c, op[d] = "removed",
               pc[d] \in {"read", "begin", "wait", "serve"}
        PROVE  /\ id[of[d]] = gen[d] /\ Near(gen[d], d)'
               /\ pc[d] = "serve" \/ (pc[d] = "wait" /\ task'[waits[d]].outcome = "ok") =>
                      bundles'[gen[d]].snap
    <3>1. pc[d] = "wait" => waits[d] \in Tasks
      BY DEF TypeOK, Steps
    <3>2. gen[d] \in Generations
      BY <2>1 DEF Steps, TypeOK
    <3> QED
      BY <1>3, <1>4, <1>5, <2>1, <3>1, <3>2 DEF Restoring, NearStays, SameCaptures, Procs
  <2>2. ASSUME op[c] = "removed"
        PROVE  /\ id[of[c]] = gen[c] /\ Near(gen[c], c)'
               /\ task'[t].outcome = "ok" => bundles'[gen[c]].snap
    <3>1. gen[c] \in Generations /\ id[of[c]] = gen[c] /\ Near(gen[c], c)
      BY <1>4, <2>2 DEF Steps, TypeOK, Restoring
    <3>2. Near(gen[c], c)' /\ (bundles[gen[c]].snap => bundles'[gen[c]].snap)
      BY <1>4, <1>5, <3>1 DEF NearStays, Procs
    <3>3. task[t].outcome = "ok" => bundles[gen[c]].snap
      <4>1. task[t].historical /\ task[t].pc # "none"
        BY <1>2, <2>2 DEF historical, PendingKept
      <4>2. task[t].outcome = "ok" => task[t].pc = "ended"
        BY <1>2, <4>1 DEF Steps
      <4> QED
        BY <1>2, <1>4, <3>1, <4>1, <4>2 DEF Committed
    <3> QED
      BY <1>2, <1>3, <3>1, <3>2, <3>3 DEF SameCaptures
  <2> QED
    BY <1>1, <1>4, <2>1, <2>2 DEF Restoring, TypeOK, Procs
<1>9. Committed'
  BY <1>3, <1>4, <1>5, <1>6 DEF Committed, NearStays, SameCaptures, Steps
<1>10. Installed'
  BY <1>3, <1>4, <1>5, <1>6 DEF Installed, NearStays, Collected, TypeOK, Procs, Steps
<1>11. Advertised'
  <2>1. Basic'
    BY JoinBasic
  <2>2. current # None /\ ~closed /\ ~IdsReturn =>
            /\ bundles'[id[current]] # None
            /\ bundles'[id[current]].age <= bundles[id[current]].age
    <3>1. ASSUME current # None, ~closed, ~IdsReturn
          PROVE  /\ bundles'[id[current]] # None
                 /\ bundles'[id[current]].age = bundles[id[current]].age
      BY <1>3, <1>4, <3>1, CurrentLeft DEF Procs
    <3>2. ASSUME current # None, ~closed, ~IdsReturn
          PROVE  bundles[id[current]].age \in Int
      BY <3>2 DEF Advertised, Named, Generations, TypeOK, Bundle, Retention
    <3> QED
      BY <3>1, <3>2
  <2>3. \A y \in Procs : Stale(y)' => Stale(y) /\ (y \in late => y \in late')
    BY <1>4 DEF TypeOK, Procs, Stale
  <2>4. UNCHANGED <<current, id, stopper>>
    BY <1>4
  <2> HIDE DEF Join, Basic
  <2> QED
    BY <2>1, <2>2, <2>3, <2>4, StillAdvertised
<1> QED
  BY <1>7, <1>8, <1>9, <1>10, <1>11

LEMMA SpawnTimely == ASSUME Basic, Bounded, Timely, NEW c \in Clients, Spawn(c) PROVE Bounded' /\ Timely'
<1> USE ComparisonsAssumption, SomeAssumption DEF Basic, Timely, Goes, Forgets, index, asked, closed
<1>1. PICK t \in Tasks :
          /\ Fresh(t)
          /\ task' = [Told(Replaced(seen[c])) EXCEPT ![t] =
                 [pc |-> "queued", of |-> of[c], historical |-> historical(c),
                  cancel |-> FALSE, outcome |-> "none"]]
          /\ waits' = [waits EXCEPT ![c] = t]
  BY DEF Spawn
<1>2. task[t].pc = "none" /\ \A d \in Clients : waits[d] # t
  BY <1>1 DEF Fresh
<1>3. /\ task'[t].pc = "queued" /\ task'[t].outcome = "none"
      /\ \A s \in Tasks \ {t} :
             /\ task'[s].pc = task[s].pc /\ task'[s].of = task[s].of
             /\ task'[s].historical = task[s].historical
             /\ task'[s].outcome = task[s].outcome
  <2> DEFINE told == Told(Replaced(seen[c]))
  <2>1. /\ told \in [Tasks -> Capture]
        /\ \A s \in Tasks :
               /\ told[s].pc = task[s].pc /\ told[s].of = task[s].of
               /\ told[s].historical = task[s].historical
               /\ told[s].outcome = task[s].outcome
    BY ToldFacts
  <2> HIDE DEF told
  <2> QED
    BY <1>1, <2>1 DEF told
<1>4. /\ pc[c] = "begin" /\ pc' = [pc EXCEPT ![c] = "wait"] /\ ~closed
      /\ seen' = [seen EXCEPT ![c] = None] /\ bundles' = Left(seen[c])
      /\ UNCHANGED <<current, id, void, stopper, permit, of, op, gen, late>>
  BY DEF Spawn, Admitted
<1>5. Collected
  <2>1. seen[c] \in Attempts \cup {None}
    BY DEF TypeOK, Procs
  <2> QED
    BY <1>4, <2>1, LeftFacts DEF Collected
<1>6. NearStays
  BY <1>5, CollectedStays
<1>7. /\ \A s \in Tasks : task[s].of # None => id[task[s].of] \in Generations
      /\ of[Pass] # None => id[of[Pass]] \in Generations
  BY DEF Named, Generations, Procs
<1>8. Bounded'
  BY <1>5, LessBounded DEF Collected
<1>9. Restoring'
  <2>1. ASSUME NEW d \in Clients, op[d] = "removed",
               pc[d] \in {"read", "begin", "wait", "serve"}
        PROVE  /\ gen[d] \in Generations /\ id[of[d]] = gen[d] /\ Near(gen[d], d)'
               /\ bundles[gen[d]].snap => bundles'[gen[d]].snap
    <3>1. gen[d] \in Generations /\ id[of[d]] = gen[d] /\ Near(gen[d], d)
      BY <1>4, <2>1 DEF Steps, TypeOK, Restoring
    <3> QED
      BY <1>4, <1>6, <3>1 DEF NearStays, Procs
  <2>2. \A d \in Clients : d # c /\ pc[d] = "wait" =>
            waits[d] \in Tasks \ {t} /\ waits'[d] = waits[d]
    BY <1>1, <1>2 DEF TypeOK, Steps
  <2>3. \A d \in Clients : d # c => pc'[d] = pc[d]
    BY <1>4 DEF TypeOK, Procs
  <2>4. pc'[c] = "wait" /\ waits'[c] = t
    BY <1>1, <1>4 DEF TypeOK, Procs
  <2>5. ASSUME NEW d \in Clients, op'[d] = "removed",
               pc'[d] \in {"read", "begin", "wait", "serve"}, ~closed'
        PROVE  /\ id'[of'[d]] = gen'[d] /\ Near(gen[d], d)'
               /\ pc'[d] = "serve" \/ (pc'[d] = "wait" /\ task'[waits'[d]].outcome = "ok") =>
                      bundles'[gen'[d]].snap
    <3>1. CASE d = c
      BY <1>3, <1>4, <2>1, <2>4, <2>5, <3>1
    <3>2. CASE d # c
      BY <1>3, <1>4, <2>1, <2>2, <2>3, <2>5, <3>2 DEF Restoring
    <3> QED
      BY <3>1, <3>2
  <2> QED
    BY <1>4, <2>5 DEF Restoring
<1>10. Committed'
  BY <1>3, <1>4, <1>6, <1>7 DEF Committed, NearStays, Steps
<1>11. Installed'
  BY <1>4, <1>5, <1>6, <1>7 DEF Installed, NearStays, Collected, TypeOK, Procs, Steps
<1>12. Advertised'
  <2>1. Basic'
    BY SpawnBasic
  <2>2. current # None /\ ~closed /\ ~IdsReturn =>
            /\ bundles'[id[current]] # None
            /\ bundles'[id[current]].age <= bundles[id[current]].age
    <3>1. ASSUME current # None, ~closed, ~IdsReturn
          PROVE  /\ bundles'[id[current]] # None
                 /\ bundles'[id[current]].age = bundles[id[current]].age
      BY <1>4, <3>1, CurrentLeft DEF Procs
    <3>2. ASSUME current # None, ~closed, ~IdsReturn
          PROVE  bundles[id[current]].age \in Int
      BY <3>2 DEF Advertised, Named, Generations, TypeOK, Bundle, Retention
    <3> QED
      BY <3>1, <3>2
  <2>3. \A y \in Procs : Stale(y)' => Stale(y) /\ (y \in late => y \in late')
    BY <1>4 DEF TypeOK, Procs, Stale
  <2>4. UNCHANGED <<current, id, stopper>>
    BY <1>4
  <2> HIDE DEF Spawn, Basic
  <2> QED
    BY <2>1, <2>2, <2>3, <2>4, StillAdvertised
<1> QED
  BY <1>8, <1>9, <1>10, <1>11, <1>12

LEMMA NotFoundTimely == ASSUME Basic, Bounded, Timely, NEW c \in Clients, NotFound(c) PROVE Bounded' /\ Timely'
<1> USE ComparisonsAssumption, SomeAssumption DEF Basic, Timely, NotFound, Goes, Drops, Forgets, Leaves, Quits, Touch, index, store, asked, vars, closed
<1>1. Bounded'
  BY DEF Bounded, Kept, Snapped
<1>2. Restoring'
  BY DEF TypeOK, Procs, Capture, Idle, Ended, Steps, Restoring, Near, Generations, Named
<1>3. Committed'
  BY DEF TypeOK, Procs, Capture, Idle, Ended, Steps, Committed, Near, Generations, Named
<1>4. Installed'
  BY DEF TypeOK, Procs, Steps, Installed, Near, Generations, Named
<1>5. Advertised'
  BY DEF TypeOK, Procs, Steps, Advertised, Stale, Named
<1> QED
  BY <1>1, <1>2, <1>3, <1>4, <1>5

LEMMA FoundTimely == ASSUME Basic, Bounded, Timely, NEW c \in Clients, Found(c) PROVE Bounded' /\ Timely'
<1> USE ComparisonsAssumption, SomeAssumption DEF Basic, Timely, Goes, Drops, index, asked, closed
<1>1. gen[c] \in Generations /\ bundles[gen[c]] # None
  BY DEF Found, Missing, TypeOK, Steps
<1>2. Renewed(gen[c])
  BY <1>1, TouchFacts DEF Found
<1>3. pc[c] = "look" /\ Leaves(c)
      /\ UNCHANGED <<current, id, void, stopper, selections, pending, task, permit, seen>>
  BY DEF Found
<1>4. Younger
  BY <1>1, <1>2, AgesAreNat DEF Younger, Renewed
<1>5. Basic'
  BY FoundBasic
<1>6. NearStays
  BY <1>4, <1>5, YoungerStays
<1>7. /\ \A s \in Tasks : task[s].of # None => id[task[s].of] \in Generations
      /\ of[Pass] # None => id[of[Pass]] \in Generations
  BY DEF Named, Generations, Procs
<1>8. Bounded'
  BY <1>1, <1>2, LessBounded DEF Renewed
<1>9. Restoring'
  <2>1. ASSUME NEW d \in Clients, op'[d] = "removed"
        PROVE  /\ d # c /\ op[d] = "removed" /\ pc'[d] = pc[d] /\ of'[d] = of[d]
               /\ gen'[d] = gen[d] /\ waits'[d] = waits[d] /\ gen[d] \in Generations
               /\ (d \in late => d \in late')
    BY <1>3, <2>1 DEF Leaves, TypeOK, Procs, Steps
  <2> QED
    BY <1>3, <1>6, <2>1 DEF Restoring, NearStays, Procs
<1>10. Committed'
  BY <1>3, <1>6, <1>7 DEF Committed, NearStays, Steps, Leaves
<1>11. Installed'
  BY <1>2, <1>3, <1>6, <1>7 DEF Installed, NearStays, Renewed, TypeOK, Procs, Steps, Leaves
<1>12. Advertised'
  <2>1. \A y \in Procs : Stale(y)' => Stale(y) /\ (y \in late => y \in late')
    BY <1>3 DEF TypeOK, Procs, Stale, Leaves
  <2>2. current # None /\ ~closed /\ ~IdsReturn =>
            /\ bundles'[id[current]] # None
            /\ bundles'[id[current]].age <= bundles[id[current]].age
    BY <1>4 DEF Younger, Named, Generations, Advertised
  <2>3. UNCHANGED <<current, id, stopper>>
    BY <1>3
  <2> QED
    BY <1>5, <2>1, <2>2, <2>3, StillAdvertised
<1> QED
  BY <1>8, <1>9, <1>10, <1>11, <1>12

LEMMA RestoreTimely == ASSUME Basic, Bounded, Timely, NEW c \in Clients, Restore(c) PROVE Bounded' /\ Timely'
<1> USE ComparisonsAssumption, SomeAssumption DEF Basic, Timely, Goes, Drops, index, asked, closed
<1>1. gen[c] \in Generations /\ bundles[gen[c]] # None
  BY DEF Restore, Missing, TypeOK, Steps
<1>2. Renewed(gen[c])
  BY <1>1, TouchFacts DEF Restore
<1>3. /\ pc[c] = "look" /\ pc' = [pc EXCEPT ![c] = "read"]
      /\ of' = [of EXCEPT ![c] = bundles[gen[c]].of] /\ bundles[gen[c]].of # None
      /\ UNCHANGED <<current, id, void, stopper, selections, pending, task, permit, seen,
                     op, gen, waits, late>>
  BY <1>1 DEF Restore, Restores, Missing
<1>4. Younger
  BY <1>1, <1>2, AgesAreNat DEF Younger, Renewed
<1>5. Basic'
  BY RestoreBasic
<1>6. NearStays
  BY <1>4, <1>5, YoungerStays
<1>7. /\ \A s \in Tasks : task[s].of # None => id[task[s].of] \in Generations
      /\ of[Pass] # None => id[of[Pass]] \in Generations
  BY DEF Named, Generations, Procs
<1>8. Bounded'
  BY <1>1, <1>2, LessBounded DEF Renewed
<1>9. Restoring'
  <2>1. ASSUME NEW d \in Clients, d # c
        PROVE  pc'[d] = pc[d] /\ of'[d] = of[d]
    BY <1>3, <2>1 DEF TypeOK, Procs
  <2>2. ASSUME NEW d \in Clients, op[d] = "removed"
        PROVE  gen[d] \in Generations
    BY <2>2 DEF TypeOK, Steps
  <2>3. /\ pc'[c] = "read" /\ id[of'[c]] = gen[c] /\ Near(gen[c], c)'
    <3>1. of'[c] = bundles[gen[c]].of /\ pc'[c] = "read"
      BY <1>3 DEF TypeOK, Procs
    <3>2. bundles'[gen[c]] # None /\ bundles'[gen[c]].age = 0
      BY <1>1, <1>2 DEF Renewed
    <3> QED
      BY <1>1, <1>3, <3>1, <3>2 DEF Named, Near
  <2>4. ASSUME NEW d \in Clients, op[d] = "removed", ~closed,
               pc'[d] \in {"read", "begin", "wait", "serve"}
        PROVE  /\ id[of'[d]] = gen[d] /\ Near(gen[d], d)'
               /\ pc'[d] = "serve" \/ (pc'[d] = "wait" /\ task[waits[d]].outcome = "ok") =>
                      bundles'[gen[d]].snap
    <3>1. CASE d = c
      BY <2>3, <3>1
    <3>2. CASE d # c
      <4>1. /\ id[of[d]] = gen[d] /\ Near(gen[d], d)
            /\ pc[d] = "serve" \/ (pc[d] = "wait" /\ task[waits[d]].outcome = "ok") =>
                   bundles[gen[d]].snap
        BY <2>1, <2>4, <3>2 DEF Restoring
      <4>2. Near(gen[d], d)' /\ (bundles[gen[d]].snap => bundles'[gen[d]].snap)
        BY <1>3, <1>6, <2>2, <2>4, <4>1 DEF NearStays, Procs
      <4> QED
        BY <2>1, <3>2, <4>1, <4>2
    <3> QED
      BY <3>1, <3>2
  <2> QED
    BY <1>3, <2>4 DEF Restoring
<1>10. Committed'
  BY <1>3, <1>6, <1>7 DEF Committed, NearStays, Steps
<1>11. Installed'
  BY <1>2, <1>3, <1>6, <1>7 DEF Installed, NearStays, Renewed, TypeOK, Procs, Steps
<1>12. Advertised'
  <2>1. \A y \in Procs : Stale(y)' => Stale(y) /\ (y \in late => y \in late')
    BY <1>3 DEF TypeOK, Procs, Stale
  <2>2. current # None /\ ~closed /\ ~IdsReturn =>
            /\ bundles'[id[current]] # None
            /\ bundles'[id[current]].age <= bundles[id[current]].age
    BY <1>4 DEF Younger, Named, Generations, Advertised
  <2>3. UNCHANGED <<current, id, stopper>>
    BY <1>3
  <2> QED
    BY <1>5, <2>1, <2>2, <2>3, StillAdvertised
<1> QED
  BY <1>8, <1>9, <1>10, <1>11, <1>12

LEMMA ReceiveTimely == ASSUME Basic, Bounded, Timely, NEW c \in Clients, Receive(c) PROVE Bounded' /\ Timely'
<1> USE ComparisonsAssumption, SomeAssumption DEF Basic, Timely, Receive, Goes, Drops, Forgets, Leaves, Quits, Touch, index, store, asked, vars, closed
<1>1. Bounded'
  BY DEF Bounded, Kept, Snapped
<1>2. Restoring'
  BY DEF TypeOK, Procs, Capture, Idle, Ended, Steps, Restoring, Near, Generations, Named
<1>3. Committed'
  BY DEF TypeOK, Procs, Capture, Idle, Ended, Steps, Committed, Near, Generations, Named
<1>4. Installed'
  BY DEF TypeOK, Procs, Steps, Installed, Near, Generations, Named
<1>5. Advertised'
  BY DEF TypeOK, Procs, Steps, Advertised, Stale, Named
<1> QED
  BY <1>1, <1>2, <1>3, <1>4, <1>5

LEMMA DisconnectTimely == ASSUME Basic, Bounded, Timely, NEW c \in Clients, Disconnect(c) PROVE Bounded' /\ Timely'
<1> USE ComparisonsAssumption, SomeAssumption DEF Basic, Timely, Disconnect, Goes, Drops, Forgets, Leaves, Quits, Touch, index, store, asked, vars, closed
<1>1. Bounded'
  BY DEF Bounded, Kept, Snapped
<1>2. Restoring'
  BY DEF TypeOK, Procs, Capture, Idle, Ended, Steps, Restoring, Near, Generations, Named
<1>3. Committed'
  BY DEF TypeOK, Procs, Capture, Idle, Ended, Steps, Committed, Near, Generations, Named
<1>4. Installed'
  BY DEF TypeOK, Procs, Steps, Installed, Near, Generations, Named
<1>5. Advertised'
  BY DEF TypeOK, Procs, Steps, Advertised, Stale, Named
<1> QED
  BY <1>1, <1>2, <1>3, <1>4, <1>5

LEMMA ServeTimely == ASSUME Basic, Bounded, Timely, NEW c \in Clients, Serve(c) PROVE Bounded' /\ Timely'
<1> USE ComparisonsAssumption, SomeAssumption DEF Basic, Timely, Serve, Goes, Drops, Forgets, Leaves, Quits, Touch, index, store, asked, vars, closed
<1>1. Bounded'
  BY DEF Bounded, Kept, Snapped
<1>2. Restoring'
  BY DEF TypeOK, Procs, Capture, Idle, Ended, Steps, Restoring, Near, Generations, Named
<1>3. Committed'
  BY DEF TypeOK, Procs, Capture, Idle, Ended, Steps, Committed, Near, Generations, Named
<1>4. Installed'
  BY DEF TypeOK, Procs, Steps, Installed, Near, Generations, Named
<1>5. Advertised'
  BY DEF TypeOK, Procs, Steps, Advertised, Stale, Named
<1> QED
  BY <1>1, <1>2, <1>3, <1>4, <1>5

LEMMA AcquireTimely == ASSUME Basic, Bounded, Timely, NEW t \in Tasks, Acquire(t) PROVE Bounded' /\ Timely'
<1> USE ComparisonsAssumption, SomeAssumption DEF Basic, Timely, Acquire, Goes, Drops, Forgets, Leaves, Quits, Touch, index, store, asked, vars, closed
<1>1. Bounded'
  BY DEF Bounded, Kept, Snapped
<1>2. Restoring'
  BY DEF TypeOK, Procs, Capture, Idle, Ended, Steps, Restoring, Near, Generations, Named
<1>3. Committed'
  BY DEF TypeOK, Procs, Capture, Idle, Ended, Steps, Committed, Near, Generations, Named
<1>4. Installed'
  BY DEF TypeOK, Procs, Steps, Installed, Near, Generations, Named
<1>5. Advertised'
  BY DEF TypeOK, Procs, Steps, Advertised, Stale, Named
<1> QED
  BY <1>1, <1>2, <1>3, <1>4, <1>5

LEMMA GiveUpTimely == ASSUME Basic, Bounded, Timely, NEW t \in Tasks, GiveUp(t) PROVE Bounded' /\ Timely'
<1> USE ComparisonsAssumption, SomeAssumption DEF Basic, Timely, GiveUp, Goes, Drops, Forgets, Leaves, Quits, Touch, index, store, asked, vars, closed
<1>1. Bounded'
  BY DEF Bounded, Kept, Snapped
<1>2. Restoring'
  BY DEF TypeOK, Procs, Capture, Idle, Ended, Steps, Restoring, Near, Generations, Named
<1>3. Committed'
  BY DEF TypeOK, Procs, Capture, Idle, Ended, Steps, Committed, Near, Generations, Named
<1>4. Installed'
  BY DEF TypeOK, Procs, Steps, Installed, Near, Generations, Named
<1>5. Advertised'
  BY DEF TypeOK, Procs, Steps, Advertised, Stale, Named
<1> QED
  BY <1>1, <1>2, <1>3, <1>4, <1>5

LEMMA CommitTimely == ASSUME Basic, Bounded, Timely, NEW t \in Tasks, Commit(t) PROVE Bounded' /\ Timely'
<1> USE ComparisonsAssumption, SomeAssumption DEF Basic, Timely, index, asked, closed
<1> DEFINE g == id[task[t].of]
<1>1. /\ task[t].pc = "capturing" /\ Retains(t)
      /\ UNCHANGED <<current, id, void, stopper, pending, pc, of, seen, op, gen, waits, late>>
  BY DEF Commit
<1>2. /\ task'[t].outcome = "ok" /\ task'[t].of = task[t].of
      /\ task'[t].historical = task[t].historical
      /\ \A s \in Tasks \ {t} : task'[s] = task[s]
  BY DEF Commit, Ended, TypeOK, Capture
<1>3. /\ task[t].of \in Attempts
      /\ bundles' \in [Generations -> Bundle \cup {None}]
      /\ \A h \in Generations : bundles[h] # None => bundles'[h] # None
      /\ task[t].historical =>
             /\ g \in Ids /\ bundles[g] # None /\ bundles'[g].of = bundles[g].of
             /\ bundles'[g].snap /\ bundles'[g].age = 0
             /\ \A h \in Generations : h # g => bundles'[h] = bundles[h]
      /\ ~task[t].historical =>
             /\ bundles'[t] = [snap |-> FALSE, of |-> None, age |-> 0]
             /\ \A h \in Generations : h # t => bundles'[h] = bundles[h]
  BY CommitFacts
<1>4. \A h \in Ids : bundles[h] # None =>
          /\ bundles'[h] # None /\ bundles'[h].age <= bundles[h].age
          /\ bundles[h].snap => bundles'[h].snap
  <2>1. \A h \in Generations : bundles[h] # None => bundles[h].age \in Nat
    BY AgesAreNat
  <2> QED
    BY <1>3, <2>1 DEF Generations
<1>5. Basic'
  BY CommitBasic
<1>6. \A h \in Ids, x \in Procs \cup Tasks : Near(h, x) =>
          Near(h, x)' /\ (bundles[h].snap => bundles'[h].snap)
  <2> SUFFICES ASSUME NEW h \in Ids, NEW x \in Procs \cup Tasks, Near(h, x)
               PROVE  Near(h, x)' /\ (bundles[h].snap => bundles'[h].snap)
    OBVIOUS
  <2>1. bundles[h] # None /\ h \in Generations
    BY DEF Near, Generations
  <2>2. bundles[h].age \in Int /\ bundles'[h].age \in Int
    BY <1>4, <1>5, <2>1 DEF TypeOK, Bundle, Retention
  <2> QED
    BY <1>1, <1>4, <2>1, <2>2 DEF Near
<1> HIDE DEF g
<1>7. Bounded'
  <2>1. CASE task[t].historical
    <3>1. Admits(g, IF bundles[g].snap THEN 0 ELSE 1) /\ g \in Generations
      BY <1>1, <1>3, <2>1 DEF Retains, g, Generations
    <3>2. CASE bundles[g].snap
      BY <1>3, <2>1, <3>1, <3>2, LessBounded DEF Generations
    <3>3. CASE ~bundles[g].snap
      BY <1>3, <2>1, <3>1, <3>3, MoreBounded
    <3> QED
      BY <3>2, <3>3
  <2>2. CASE ~task[t].historical
    <3>1. Admits(t, 1) /\ t \in Generations
      BY <1>1, <2>2 DEF Retains, Generations
    <3>2. ~bundles'[t].snap /\ bundles'[t] # None
      <4>1. [snap |-> FALSE, of |-> None, age |-> 0] \in Bundle
        BY DEF Bundle, Retention
      <4> QED
        BY <1>3, <2>2, <4>1
    <3>3. CASE bundles[t] = None
      BY <1>3, <2>2, <3>1, <3>2, <3>3, MoreBounded
    <3>4. CASE bundles[t] # None
      BY <1>3, <2>2, <3>1, <3>2, <3>4, LessBounded
    <3> QED
      BY <3>3, <3>4
  <2> QED
    BY <2>1, <2>2
<1>8. Restoring'
  <2> SUFFICES ASSUME NEW c \in Clients, op[c] = "removed", ~closed,
                      pc[c] \in {"read", "begin", "wait", "serve"}
               PROVE  /\ id[of[c]] = gen[c] /\ Near(gen[c], c)'
                      /\ pc[c] = "serve" \/ (pc[c] = "wait" /\ task'[waits[c]].outcome = "ok") =>
                             bundles'[gen[c]].snap
    BY <1>1 DEF Restoring
  <2>1. id[of[c]] = gen[c] /\ Near(gen[c], c) /\ gen[c] \in Ids
    BY DEF Restoring, Steps, Named, Procs
  <2>2. Near(gen[c], c)' /\ (bundles[gen[c]].snap => bundles'[gen[c]].snap)
    BY <1>1, <1>6, <2>1 DEF Procs
  <2>3. CASE pc[c] = "wait" /\ waits[c] = t
    <3>1. task[t].of = of[c] /\ task[t].historical
      BY <1>1, <2>3 DEF Awaited, historical
    <3> QED
      BY <1>3, <2>1, <2>2, <2>3, <3>1 DEF g
  <2>4. CASE ~(pc[c] = "wait" /\ waits[c] = t)
    <3>1. pc[c] = "wait" => waits[c] \in Tasks \ {t}
      BY <2>4 DEF TypeOK, Steps
    <3> QED
      BY <1>2, <2>1, <2>2, <3>1 DEF Restoring
  <2> QED
    BY <2>3, <2>4
<1>9. Committed'
  <2> SUFFICES ASSUME NEW s \in Tasks, task'[s].pc = "ended", task'[s].outcome = "ok",
                      task'[s].historical, ~closed
               PROVE  Near(id[task[s].of], s)' /\ bundles'[id[task'[s].of]].snap
    BY <1>1 DEF Committed
  <2>1. CASE s = t
    <3>1. id'[task'[s].of] = g /\ task[t].historical
      BY <1>1, <1>2, <2>1 DEF g
    <3>2. bundles'[g] # None /\ bundles'[g].snap /\ bundles'[g].age = 0
      BY <1>3, <3>1 DEF Generations
    <3> QED
      BY <1>1, <3>1, <3>2 DEF Near
  <2>2. CASE s # t
    <3>1. task'[s] = task[s] /\ id[task[s].of] \in Ids
      BY <1>2, <2>2 DEF Steps, Named
    <3>2. Near(id[task[s].of], s) /\ bundles[id[task[s].of]].snap
      BY <3>1 DEF Committed
    <3> QED
      BY <1>1, <1>6, <3>1, <3>2
  <2> QED
    BY <2>1, <2>2
<1>10. Installed'
  <2>1. pc[Pass] # "idle" => id[of[Pass]] \in Ids
    BY DEF Steps, Named, Procs
  <2>2. \A h \in Ids : bundles[h] = None => bundles'[h] = None
    BY <1>3 DEF Generations
  <2> QED
    BY <1>1, <1>6, <2>1, <2>2 DEF Installed, Procs
<1>11. Advertised'
  <2>1. \A y \in Procs : Stale(y)' => Stale(y) /\ (y \in late => y \in late')
    BY <1>1 DEF Stale
  <2>2. current # None /\ ~closed /\ ~IdsReturn =>
            /\ bundles'[id[current]] # None
            /\ bundles'[id[current]].age <= bundles[id[current]].age
    BY <1>4 DEF Named, Advertised
  <2> QED
    BY <1>1, <1>5, <2>1, <2>2, StillAdvertised
<1> QED
  BY <1>7, <1>8, <1>9, <1>10, <1>11

LEMMA FailTimely == ASSUME Basic, Bounded, Timely, NEW t \in Tasks, Fail(t) PROVE Bounded' /\ Timely'
<1> USE ComparisonsAssumption, SomeAssumption DEF Basic, Timely, Fail, Goes, Drops, Forgets, Leaves, Quits, Touch, index, store, asked, vars, closed
<1>1. Bounded'
  BY DEF Bounded, Kept, Snapped
<1>2. Restoring'
  BY DEF TypeOK, Procs, Capture, Idle, Ended, Steps, Restoring, Near, Generations, Named
<1>3. Committed'
  BY DEF TypeOK, Procs, Capture, Idle, Ended, Steps, Committed, Near, Generations, Named
<1>4. Installed'
  BY DEF TypeOK, Procs, Steps, Installed, Near, Generations, Named
<1>5. Advertised'
  BY DEF TypeOK, Procs, Steps, Advertised, Stale, Named
<1> QED
  BY <1>1, <1>2, <1>3, <1>4, <1>5

LEMMA InterruptTimely == ASSUME Basic, Bounded, Timely, NEW t \in Tasks, Interrupt(t) PROVE Bounded' /\ Timely'
<1> USE ComparisonsAssumption, SomeAssumption DEF Basic, Timely, Interrupt, Goes, Drops, Forgets, Leaves, Quits, Touch, index, store, asked, vars, closed
<1>1. Bounded'
  BY DEF Bounded, Kept, Snapped
<1>2. Restoring'
  BY DEF TypeOK, Procs, Capture, Idle, Ended, Steps, Restoring, Near, Generations, Named
<1>3. Committed'
  BY DEF TypeOK, Procs, Capture, Idle, Ended, Steps, Committed, Near, Generations, Named
<1>4. Installed'
  BY DEF TypeOK, Procs, Steps, Installed, Near, Generations, Named
<1>5. Advertised'
  BY DEF TypeOK, Procs, Steps, Advertised, Stale, Named
<1> QED
  BY <1>1, <1>2, <1>3, <1>4, <1>5

LEMMA DrainedTimely == ASSUME Basic, Bounded, Timely, NEW t \in Tasks, Drained(t) PROVE Bounded' /\ Timely'
<1> USE ComparisonsAssumption, SomeAssumption DEF Basic, Timely, Drained, Goes, Drops, Forgets, Leaves, Quits, Touch, index, store, asked, vars, closed
<1>1. Bounded'
  BY DEF Bounded, Kept, Snapped
<1>2. Restoring'
  BY DEF TypeOK, Procs, Capture, Idle, Ended, Steps, Restoring, Near, Generations, Named
<1>3. Committed'
  BY DEF TypeOK, Procs, Capture, Idle, Ended, Steps, Committed, Near, Generations, Named
<1>4. Installed'
  BY DEF TypeOK, Procs, Steps, Installed, Near, Generations, Named
<1>5. Advertised'
  BY DEF TypeOK, Procs, Steps, Advertised, Stale, Named
<1> QED
  BY <1>1, <1>2, <1>3, <1>4, <1>5

LEMMA ForgetTimely == ASSUME Basic, Bounded, Timely, NEW t \in Tasks, Forget(t) PROVE Bounded' /\ Timely'
<1> USE ComparisonsAssumption, SomeAssumption DEF Basic, Timely, Forget, Goes, Drops, Forgets, Leaves, Quits, Touch, index, store, asked, vars, closed
<1>1. Bounded'
  BY DEF Bounded, Kept, Snapped
<1>2. Restoring'
  BY DEF TypeOK, Procs, Capture, Idle, Ended, Steps, Restoring, Near, Generations, Named
<1>3. Committed'
  BY DEF TypeOK, Procs, Capture, Idle, Ended, Steps, Committed, Near, Generations, Named
<1>4. Installed'
  BY DEF TypeOK, Procs, Steps, Installed, Near, Generations, Named
<1>5. Advertised'
  BY DEF TypeOK, Procs, Steps, Advertised, Stale, Named
<1> QED
  BY <1>1, <1>2, <1>3, <1>4, <1>5

LEMMA ClassifyTimely == ASSUME Basic, Bounded, Timely, Classify PROVE Bounded' /\ Timely'
<1> USE ComparisonsAssumption, SomeAssumption DEF Basic, Timely, Goes, index, store, asked, closed
<1>1. PICK a \in Attempts, i \in Ids :
          /\ Vacant(a) /\ (IdsReturn \/ bundles[i] = None)
          /\ id' = [id EXCEPT ![a] = i] /\ of' = [of EXCEPT ![Pass] = a]
  BY DEF Classify
<1>2. /\ pc[Pass] = "idle" /\ current = None /\ pc' = [pc EXCEPT ![Pass] = "install"]
      /\ UNCHANGED <<current, void, stopper, bundles, selections, pending, task, permit,
                     seen, op, gen, waits, late>>
  BY DEF Classify
<1>3. Bounded'
  BY <1>2 DEF Bounded, Kept, Snapped
<1>4. Restoring'
  <2>1. \A c \in Clients : of[c] # a
    BY <1>1 DEF Vacant, Held, Procs
  <2>2. \A c \in Clients : pc'[c] = pc[c] /\ of'[c] = of[c] /\ id'[of[c]] = id[of[c]]
    BY <1>1, <1>2, <2>1 DEF TypeOK, Procs
  <2> QED
    BY <1>2, <2>2 DEF Restoring, Near
<1>5. Committed'
  <2>1. \A t \in Tasks : task[t].pc # "none" => task[t].of # a
    BY <1>1 DEF Vacant, PendingKept
  <2>2. \A t \in Tasks : task[t].pc # "none" => id'[task[t].of] = id[task[t].of]
    BY <1>1, <2>1 DEF TypeOK, Capture, Steps
  <2> QED
    BY <1>2, <2>2 DEF Committed, Near
<1>6. Installed'
  <2>1. of'[Pass] = a /\ id'[a] = i /\ pc'[Pass] = "install"
    BY <1>1, <1>2 DEF TypeOK, Procs
  <2> QED
    BY <1>1, <1>2, <2>1 DEF Installed
<1>7. Advertised'
  BY <1>2 DEF Advertised
<1> QED
  BY <1>3, <1>4, <1>5, <1>6, <1>7

LEMMA QuitTimely == ASSUME Basic, Bounded, Timely, Quit PROVE Bounded' /\ Timely'
<1> USE ComparisonsAssumption, SomeAssumption DEF Basic, Timely, Quit, Goes, Drops, Forgets, Leaves, Quits, Touch, index, store, asked, vars, closed
<1>1. Bounded'
  BY DEF Bounded, Kept, Snapped
<1>2. Restoring'
  BY DEF TypeOK, Procs, Capture, Idle, Ended, Steps, Restoring, Near, Generations, Named
<1>3. Committed'
  BY DEF TypeOK, Procs, Capture, Idle, Ended, Steps, Committed, Near, Generations, Named
<1>4. Installed'
  BY DEF TypeOK, Procs, Steps, Installed, Near, Generations, Named
<1>5. Advertised'
  BY DEF TypeOK, Procs, Steps, Advertised, Stale, Named
<1> QED
  BY <1>1, <1>2, <1>3, <1>4, <1>5

LEMMA WaitTimely == ASSUME Basic, Bounded, Timely, Wait PROVE Bounded' /\ Timely'
<1> USE ComparisonsAssumption, SomeAssumption DEF Basic, Timely, Wait, Goes, Drops, Forgets, Leaves, Quits, Touch, index, store, asked, vars, closed
<1>1. Bounded'
  BY DEF Bounded, Kept, Snapped
<1>2. Restoring'
  BY DEF TypeOK, Procs, Capture, Idle, Ended, Steps, Restoring, Near, Generations, Named
<1>3. Committed'
  BY DEF TypeOK, Procs, Capture, Idle, Ended, Steps, Committed, Near, Generations, Named
<1>4. Installed'
  <2>1. bundles[id[of[Pass]]] = None
    <3>1. ASSUME bundles[id[of[Pass]]] # None PROVE Room
      BY <3>1, Counts DEF Room, Lacking, Admits, Bounded, Snapped
    <3> QED
      BY <3>1
  <2> QED
    BY <2>1 DEF Installed, TypeOK, Procs
<1>5. Advertised'
  BY DEF TypeOK, Procs, Steps, Advertised, Stale, Named
<1> QED
  BY <1>1, <1>2, <1>3, <1>4, <1>5

LEMMA InstallTimely == ASSUME Basic, Bounded, Timely, Install PROVE Bounded' /\ Timely'
<1> USE ComparisonsAssumption, SomeAssumption DEF Basic, Timely, Goes, index, asked, closed
<1> DEFINE a == of[Pass]
           g == id[a]
<1>1. /\ pc[Pass] = "put" /\ pc' = [pc EXCEPT ![Pass] = "swap"] /\ Room
      /\ UNCHANGED <<current, id, void, stopper, selections, pending, task, permit, of,
                     seen, op, gen, waits, late>>
  BY DEF Install
<1>2. a \in Attempts /\ g \in Ids /\ g \in Generations /\ current = None
  BY <1>1 DEF TypeOK, Steps, Named, Procs, Generations
<1>3. /\ bundles' \in [Generations -> Bundle \cup {None}]
      /\ bundles'[g] # None /\ bundles'[g].of = a
      /\ \A h \in Generations : h # g => bundles'[h] = bundles[h]
      /\ bundles[g] = None => ~bundles'[g].snap /\ bundles'[g].age = 0
      /\ bundles[g] # None =>
             bundles'[g].snap = bundles[g].snap /\ bundles'[g].age = bundles[g].age
  BY <1>2, InstallFacts DEF Install
<1>4. Admits(g, IF bundles[g] = None THEN 1 ELSE 0)
  BY <1>1 DEF Room, Lacking
<1> HIDE DEF g
<1>5. Basic'
  BY InstallBasic
<1>6. Younger
  <2>1. \A h \in Generations : bundles[h] # None => bundles[h].age \in Nat
    BY AgesAreNat
  <2> QED
    BY <1>2, <1>3, <2>1 DEF Younger
<1>7. NearStays
  BY <1>5, <1>6, YoungerStays
<1>8. Bounded'
  <2>1. CASE bundles[g] = None
    BY <1>2, <1>3, <1>4, <2>1, MoreBounded
  <2>2. CASE bundles[g] # None
    BY <1>2, <1>3, <2>2, LessBounded
  <2> QED
    BY <2>1, <2>2
<1>9. Restoring'
  <2>1. \A c \in Clients : pc'[c] = pc[c] /\ (op[c] = "removed" => gen[c] \in Generations)
    BY <1>1 DEF TypeOK, Procs, Steps
  <2> QED
    BY <1>1, <1>7, <2>1 DEF Restoring, NearStays, Procs
<1>10. Committed'
  <2>1. \A t \in Tasks : task[t].of # None => id[task[t].of] \in Generations
    BY DEF Named, Generations
  <2> QED
    BY <1>1, <1>7, <2>1 DEF Committed, NearStays, Steps
<1>11. Installed'
  <2>1. pc'[Pass] = "swap"
    BY <1>1 DEF TypeOK, Procs
  <2>2. ~closed /\ ~IdsReturn => Near(g, Pass)'
    <3>1. CASE bundles[g] = None
      BY <1>1, <1>3, <3>1 DEF Near, g
    <3>2. CASE bundles[g] # None
      BY <1>1, <1>2, <1>7, <3>2 DEF Installed, NearStays, Procs, g
    <3> QED
      BY <3>1, <3>2
  <2> QED
    BY <1>1, <2>1, <2>2 DEF Installed, g
<1>12. Advertised'
  BY <1>1, <1>2 DEF Advertised
<1> QED
  BY <1>8, <1>9, <1>10, <1>11, <1>12

LEMMA AgainTimely == ASSUME Basic, Bounded, Timely, Again PROVE Bounded' /\ Timely'
<1> USE ComparisonsAssumption, SomeAssumption DEF Basic, Timely, Again, Goes, Drops, Forgets, Leaves, Quits, Touch, index, store, asked, vars, closed
<1>1. Bounded'
  BY DEF Bounded, Kept, Snapped
<1>2. Restoring'
  BY DEF TypeOK, Procs, Capture, Idle, Ended, Steps, Restoring, Near, Generations, Named
<1>3. Committed'
  BY DEF TypeOK, Procs, Capture, Idle, Ended, Steps, Committed, Near, Generations, Named
<1>4. Installed'
  BY DEF TypeOK, Procs, Steps, Installed, Near, Generations, Named
<1>5. Advertised'
  BY DEF TypeOK, Procs, Steps, Advertised, Stale, Named
<1> QED
  BY <1>1, <1>2, <1>3, <1>4, <1>5

LEMMA PublishTimely == ASSUME Basic, Bounded, Timely, Publish PROVE Bounded' /\ Timely'
<1> USE ComparisonsAssumption, SomeAssumption DEF Basic, Timely, Publish, Goes, Drops, Forgets, Leaves, Quits, Touch, index, store, asked, vars, closed
<1>1. Bounded'
  BY DEF Bounded, Kept, Snapped
<1>2. Restoring'
  BY DEF TypeOK, Procs, Capture, Idle, Ended, Steps, Restoring, Near, Generations, Named
<1>3. Committed'
  BY DEF TypeOK, Procs, Capture, Idle, Ended, Steps, Committed, Near, Generations, Named
<1>4. Installed'
  BY DEF TypeOK, Procs, Steps, Installed, Near, Generations, Named
<1>5. Advertised'
  <2>1. /\ pc[Pass] = "swap" /\ current' = of[Pass] /\ of[Pass] # None
        /\ UNCHANGED <<id, bundles, stopper>> /\ late' = late \ {Pass}
    BY DEF Steps
  <2>2. id[of[Pass]] \in Generations
    BY <2>1 DEF Named, Procs, Generations
  <2>3. ~closed /\ ~IdsReturn =>
            /\ bundles[id[of[Pass]]] # None /\ bundles[id[of[Pass]]].age \in Int
            /\ bundles[id[of[Pass]]].age <= 1
    BY <2>1, <2>2 DEF Installed, Near, TypeOK, Bundle, Retention
  <2> HIDE DEF Publish, Quits
  <2> QED
    BY <2>1, <2>3 DEF Advertised
<1> QED
  BY <1>1, <1>2, <1>3, <1>4, <1>5

LEMMA ReplaceTimely == ASSUME Basic, Bounded, Timely, Replace PROVE Bounded' /\ Timely'
<1> USE ComparisonsAssumption, SomeAssumption DEF Basic, Timely, Replace, Goes, Drops, Forgets, Leaves, Quits, Touch, index, store, asked, vars, closed
<1>1. Bounded'
  BY DEF Bounded, Kept, Snapped
<1>2. Restoring'
  BY DEF TypeOK, Procs, Capture, Idle, Ended, Steps, Restoring, Near, Generations, Named
<1>3. Committed'
  BY DEF TypeOK, Procs, Capture, Idle, Ended, Steps, Committed, Near, Generations, Named
<1>4. Installed'
  BY DEF TypeOK, Procs, Steps, Installed, Near, Generations, Named
<1>5. Advertised'
  BY DEF TypeOK, Procs, Steps, Advertised, Stale, Named
<1> QED
  BY <1>1, <1>2, <1>3, <1>4, <1>5

LEMMA StopTimely == ASSUME Basic, Bounded, Timely, Stop PROVE Bounded' /\ Timely'
<1> USE ComparisonsAssumption, SomeAssumption DEF Basic, Timely, Stop, Goes, Drops, Forgets, Leaves, Quits, Touch, index, store, asked, vars, closed
<1>1. Bounded'
  BY DEF Bounded, Kept, Snapped
<1>2. Restoring'
  BY DEF TypeOK, Procs, Capture, Idle, Ended, Steps, Restoring, Near, Generations, Named
<1>3. Committed'
  BY DEF TypeOK, Procs, Capture, Idle, Ended, Steps, Committed, Near, Generations, Named
<1>4. Installed'
  BY DEF TypeOK, Procs, Steps, Installed, Near, Generations, Named
<1>5. Advertised'
  BY DEF TypeOK, Procs, Steps, Advertised, Stale, Named
<1> QED
  BY <1>1, <1>2, <1>3, <1>4, <1>5

LEMMA CancelAllTimely == ASSUME Basic, Bounded, Timely, CancelAll PROVE Bounded' /\ Timely'
<1> USE ComparisonsAssumption, SomeAssumption DEF Basic, Timely, CancelAll, Goes, Drops, Forgets, Leaves, Quits, Touch, index, store, asked, vars, closed
<1>1. Bounded'
  BY DEF Bounded, Kept, Snapped
<1>2. Restoring'
  BY DEF TypeOK, Procs, Capture, Idle, Ended, Steps, Restoring, Near, Generations, Named
<1>3. Committed'
  BY DEF TypeOK, Procs, Capture, Idle, Ended, Steps, Committed, Near, Generations, Named
<1>4. Installed'
  BY DEF TypeOK, Procs, Steps, Installed, Near, Generations, Named
<1>5. Advertised'
  BY DEF TypeOK, Procs, Steps, Advertised, Stale, Named
<1> QED
  BY <1>1, <1>2, <1>3, <1>4, <1>5

LEMMA ClearTimely == ASSUME Basic, Bounded, Timely, Clear PROVE Bounded' /\ Timely'
<1> USE ComparisonsAssumption, SomeAssumption DEF Basic, Timely, Clear, Goes, Drops, Forgets, Leaves, Quits, Touch, index, store, asked, vars, closed
<1>1. Bounded'
  BY LessBounded
<1>2. Restoring'
  BY DEF TypeOK, Procs, Capture, Idle, Ended, Steps, Restoring, Near, Generations, Named
<1>3. Committed'
  BY DEF TypeOK, Procs, Capture, Idle, Ended, Steps, Committed, Near, Generations, Named
<1>4. Installed'
  BY DEF TypeOK, Procs, Steps, Installed, Near, Generations, Named
<1>5. Advertised'
  BY DEF TypeOK, Procs, Steps, Advertised, Stale, Named
<1> QED
  BY <1>1, <1>2, <1>3, <1>4, <1>5

LEMMA ThirdTimely == ASSUME Basic, Bounded, Timely, Third PROVE Bounded' /\ Timely'
<1> USE ComparisonsAssumption, SomeAssumption DEF Basic, Timely, index, asked, closed
<1>1. /\ late = {} /\ late' = Busy
      /\ UNCHANGED <<current, id, void, stopper, selections, pending, task, permit, pc, of,
                     seen, op, gen, waits>>
  BY DEF Third
<1>2. \A g \in Generations :
          /\ bundles'[g] = None <=> bundles[g] = None
          /\ bundles[g] # None =>
                 /\ bundles'[g].of = bundles[g].of /\ bundles'[g].snap = bundles[g].snap
                 /\ bundles'[g].age <= bundles[g].age + 1
  BY AgingFacts
<1>3. Basic'
  BY ThirdBasic
<1>4. \A g \in Generations : bundles[g] # None =>
          bundles[g].age \in Int /\ bundles'[g].age \in Int
  BY <1>2, <1>3 DEF TypeOK, Bundle, Retention
<1>5. \A g \in Generations, x \in Busy : Near(g, x) =>
          Near(g, x)' /\ bundles'[g].snap = bundles[g].snap
  BY <1>1, <1>2, <1>4 DEF Near
<1>6. Bounded'
  BY <1>2, LessBounded
<1>7. Restoring'
  <2>1. \A c \in Clients : pc[c] # "idle" => c \in Busy
    BY DEF Busy, Procs
  <2>2. \A c \in Clients : op[c] = "removed" => gen[c] \in Generations
    BY DEF TypeOK, Steps
  <2> QED
    BY <1>1, <1>5, <2>1, <2>2 DEF Restoring
<1>8. Committed'
  <2>1. \A t \in Tasks : task[t].pc = "ended" => t \in Busy /\ id[task[t].of] \in Generations
    BY DEF Busy, Steps, Named, Generations
  <2> QED
    BY <1>1, <1>5, <2>1 DEF Committed
<1>9. Installed'
  <2>1. pc[Pass] # "idle" => Pass \in Busy /\ id[of[Pass]] \in Generations
    BY DEF Busy, Steps, Named, Procs, Generations
  <2> QED
    BY <1>1, <1>2, <1>5, <2>1 DEF Installed
<1>10. Advertised'
  <2> SUFFICES ASSUME current # None, ~closed, ~IdsReturn
               PROVE  /\ bundles'[id[current]] # None
                      /\ \A x \in Procs : Stale(x) =>
                             bundles'[id[current]].age <= (IF x \in late' THEN 2 ELSE 1)
    BY <1>1 DEF Advertised, Stale
  <2>1. id[current] \in Generations /\ bundles[id[current]] # None
    BY DEF Advertised, Named, Generations
  <2>2. \A x \in Procs : Stale(x) => x \in Busy /\ bundles[id[current]].age <= 1
    BY <1>1 DEF Advertised, Stale, Busy
  <2> QED
    BY <1>1, <1>2, <1>4, <2>1, <2>2
<1> QED
  BY <1>6, <1>7, <1>8, <1>9, <1>10


-----------------------------------------------------------------------------
\* Every step is one of those, and the invariant holds after it.
LEMMA NextBasic == ASSUME Basic, [Next]_vars PROVE Basic'
<1>1. ASSUME NEW x \in Procs, Read(x) \/ Sweep(x) PROVE Basic'
  BY <1>1, ReadBasic, SweepBasic
<1>2. ASSUME NEW c \in Clients, Select(c) PROVE Basic'
  BY <1>2, SelectBasic
<1>3. ASSUME NEW c \in Clients, Ask(c) PROVE Basic'
  BY <1>3, AskBasic
<1>4. ASSUME NEW c \in Clients, Refuse(c) PROVE Basic'
  BY <1>4, RefuseBasic
<1>5. ASSUME NEW c \in Clients, Join(c) PROVE Basic'
  BY <1>5, JoinBasic
<1>6. ASSUME NEW c \in Clients, Spawn(c) PROVE Basic'
  BY <1>6, SpawnBasic
<1>7. ASSUME NEW c \in Clients, NotFound(c) PROVE Basic'
  BY <1>7, NotFoundBasic
<1>8. ASSUME NEW c \in Clients, Found(c) PROVE Basic'
  BY <1>8, FoundBasic
<1>9. ASSUME NEW c \in Clients, Restore(c) PROVE Basic'
  BY <1>9, RestoreBasic
<1>10. ASSUME NEW c \in Clients, Receive(c) PROVE Basic'
  BY <1>10, ReceiveBasic
<1>11. ASSUME NEW c \in Clients, Disconnect(c) PROVE Basic'
  BY <1>11, DisconnectBasic
<1>12. ASSUME NEW c \in Clients, Serve(c) PROVE Basic'
  BY <1>12, ServeBasic
<1>13. ASSUME NEW t \in Tasks, TaskStep(t) PROVE Basic'
  BY <1>13, AcquireBasic, GiveUpBasic, CommitBasic, FailBasic, InterruptBasic, DrainedBasic, ForgetBasic DEF TaskStep
<1>14. ASSUME Poll \/ Classify \/ Quit \/ Wait \/ Install \/ Again \/ Publish \/ Replace PROVE Basic'
  BY <1>14, PollBasic, ClassifyBasic, QuitBasic, WaitBasic, InstallBasic, AgainBasic, PublishBasic, ReplaceBasic
<1>15. ASSUME Stop \/ CancelAll \/ Clear \/ Third PROVE Basic'
  BY <1>15, StopBasic, CancelAllBasic, ClearBasic, ThirdBasic
<1>16. ASSUME UNCHANGED vars PROVE Basic'
  BY <1>16 DEF vars, Basic, TypeOK, PermitHeld, PendingKept, Named, Steps, Awaited, Stopped,
              Running, historical
<1> QED
  BY <1>1, <1>2, <1>3, <1>4, <1>5, <1>6, <1>7, <1>8, <1>9, <1>10, <1>11, <1>12, <1>13, <1>14, <1>15, <1>16 DEF Next, ClientStep, PassStep, StopStep, Procs

LEMMA NextTimely == ASSUME Basic, Bounded, Timely, [Next]_vars PROVE Bounded' /\ Timely'
<1>1. ASSUME NEW x \in Procs, Read(x) \/ Sweep(x) PROVE Bounded' /\ Timely'
  BY <1>1, ReadTimely, SweepTimely
<1>2. ASSUME NEW c \in Clients, Select(c) PROVE Bounded' /\ Timely'
  BY <1>2, SelectTimely
<1>3. ASSUME NEW c \in Clients, Ask(c) PROVE Bounded' /\ Timely'
  BY <1>3, AskTimely
<1>4. ASSUME NEW c \in Clients, Refuse(c) PROVE Bounded' /\ Timely'
  BY <1>4, RefuseTimely
<1>5. ASSUME NEW c \in Clients, Join(c) PROVE Bounded' /\ Timely'
  BY <1>5, JoinTimely
<1>6. ASSUME NEW c \in Clients, Spawn(c) PROVE Bounded' /\ Timely'
  BY <1>6, SpawnTimely
<1>7. ASSUME NEW c \in Clients, NotFound(c) PROVE Bounded' /\ Timely'
  BY <1>7, NotFoundTimely
<1>8. ASSUME NEW c \in Clients, Found(c) PROVE Bounded' /\ Timely'
  BY <1>8, FoundTimely
<1>9. ASSUME NEW c \in Clients, Restore(c) PROVE Bounded' /\ Timely'
  BY <1>9, RestoreTimely
<1>10. ASSUME NEW c \in Clients, Receive(c) PROVE Bounded' /\ Timely'
  BY <1>10, ReceiveTimely
<1>11. ASSUME NEW c \in Clients, Disconnect(c) PROVE Bounded' /\ Timely'
  BY <1>11, DisconnectTimely
<1>12. ASSUME NEW c \in Clients, Serve(c) PROVE Bounded' /\ Timely'
  BY <1>12, ServeTimely
<1>13. ASSUME NEW t \in Tasks, TaskStep(t) PROVE Bounded' /\ Timely'
  BY <1>13, AcquireTimely, GiveUpTimely, CommitTimely, FailTimely, InterruptTimely, DrainedTimely, ForgetTimely DEF TaskStep
<1>14. ASSUME Poll \/ Classify \/ Quit \/ Wait \/ Install \/ Again \/ Publish \/ Replace PROVE Bounded' /\ Timely'
  BY <1>14, PollTimely, ClassifyTimely, QuitTimely, WaitTimely, InstallTimely, AgainTimely, PublishTimely, ReplaceTimely
<1>15. ASSUME Stop \/ CancelAll \/ Clear \/ Third PROVE Bounded' /\ Timely'
  BY <1>15, StopTimely, CancelAllTimely, ClearTimely, ThirdTimely
<1>16. ASSUME UNCHANGED vars PROVE Bounded' /\ Timely'
  BY <1>16 DEF vars, Bounded, Kept, Snapped, Timely, Restoring, Committed, Installed,
              Advertised, Near, Stale, closed
<1> QED
  BY <1>1, <1>2, <1>3, <1>4, <1>5, <1>6, <1>7, <1>8, <1>9, <1>10, <1>11, <1>12, <1>13, <1>14, <1>15, <1>16 DEF Next, ClientStep, PassStep, StopStep, Procs

LEMMA InitInv == ASSUME Init PROVE IInv
<1> USE ComparisonsAssumption DEF Init
<1>1. TypeOK
  BY DEF TypeOK, Capture, Idle, Procs
<1>2. PermitHeld /\ PendingKept /\ Named /\ Steps /\ Awaited /\ Stopped
  BY DEF PermitHeld, PendingKept, Named, Steps, Awaited, Stopped, Running, Idle, Procs
<1>3. Bounded
  <2>1. Kept = {} /\ Snapped = {}
    BY DEF Kept, Snapped
  <2> QED
    BY <2>1, FS_EmptySet DEF Bounded
<1>4. Timely
  BY DEF Timely, Restoring, Committed, Installed, Advertised, Idle, Procs
<1> QED
  BY <1>1, <1>2, <1>3, <1>4 DEF IInv, Basic

\* The inductive invariant: who holds the permit and what is pending, to which
\* classification everything belongs, and how long ago it was touched, seen from everyone
\* who is about to use it or to collect (comparison_store.rs, comparison_files.rs,
\* comparison_requests.rs).
THEOREM Inductive == Spec => []IInv
<1>1. Init => IInv
  BY InitInv
<1>2. IInv /\ [Next]_vars => IInv'
  BY NextBasic, NextTimely DEF IInv
<1> QED
  BY <1>1, <1>2, PTL DEF Spec

\* Types of the store's state, and the capacities of what it keeps (comparison_store.rs, State).
THEOREM Typed == Spec => [](TypeOK /\ Bounded)
<1>1. IInv => TypeOK /\ Bounded
  BY DEF IInv, Basic
<1> QED
  BY <1>1, Inductive, PTL

\* Captures run one at a time, and the permit is never lost (comparison_requests.rs, run).
THEOREM Serial == Spec => []CapturesSerial
<1>1. IInv => CapturesSerial
  <2> SUFFICES ASSUME IInv PROVE CapturesSerial
    OBVIOUS
  <2>1. Running \subseteq Tasks /\ \A t \in Tasks : t \in Running <=> permit = t
    BY DEF Running, IInv, Basic, PermitHeld
  <2>2. permit \in Tasks \cup {None}
    BY DEF IInv, Basic, TypeOK
  <2> HIDE DEF Running
  <2> QED
    BY <2>1, <2>2 DEF CapturesSerial
<1> QED
  BY <1>1, Inductive, PTL

\* A stop is final: what ran has ended, and what comes later keeps nothing
\* (comparison_files.rs, stop).
THEOREM Stops == Spec => []StoppedForGood
<1>1. IInv => StoppedForGood
  <2> SUFFICES ASSUME IInv, stopper = "done" PROVE Kept = {} /\ pending = {} /\ Owning = {}
    BY DEF StoppedForGood
  <2>1. /\ \A g \in Generations : bundles[g] = None
        /\ \A t \in Tasks : task[t].pc = "none" /\ t \notin pending
    BY DEF IInv, Basic, Stopped, PendingKept
  <2>2. pending \subseteq Tasks
    BY DEF IInv, Basic, TypeOK
  <2> QED
    BY <2>1, <2>2 DEF Kept, Owning, Running
<1> QED
  BY <1>1, Inductive, PTL

\* A document that was restored for a request is there when the request takes it, however
\* long its capture took within its deadline (comparison_files.rs, file).
THEOREM Restored == Spec => []RestoredServed
<1>1. IInv => RestoredServed
  <2> SUFFICES ASSUME IInv, NEW c \in Clients, pc[c] = "serve", ~closed,
                      op[c] = "removed"
               PROVE  bundles[gen[c]] # None /\ bundles[gen[c]].snap
    BY DEF RestoredServed, IInv, Basic, Steps
  <2> QED
    BY DEF IInv, Timely, Restoring, Near
<1> QED
  BY <1>1, Inductive, PTL

\* While no classification has the content of one that is still kept, what the index names
\* is kept, whichever publication a collection has read (comparison_store.rs, collect).
THEOREM Advertises == ASSUME ~IdsReturn PROVE Spec => []AdvertisedKept
<1>1. IInv => AdvertisedKept
  BY DEF IInv, Timely, Advertised, AdvertisedKept
<1> QED
  BY <1>1, Inductive, PTL

\* A name of a capture comes to stand for a generation only in its commit.
LEMMA Selection ==
    ASSUME Basic, Next, NEW t \in Tasks, bundles[t] = None, bundles'[t] # None
    PROVE  ~closed /\ current = task[t].of /\ selections'[current] = t
<1> DEFINE Nothing == bundles'[t] = None
<1>1. t \in Generations
  BY DEF Generations
<1>2. ASSUME NEW cur \in Attempts \cup {None}, bundles' = Left(cur) PROVE Nothing
  BY <1>1, <1>2, LeftFacts DEF Basic
<1>3. seen \in [Procs -> Attempts \cup {None}] /\ current \in Attempts \cup {None}
  BY DEF Basic, TypeOK
<1>4. ASSUME NEW x \in Procs, Sweep(x) PROVE Nothing
  BY <1>2, <1>3, <1>4 DEF Sweep, Collect
<1>5. ASSUME NEW c \in Clients, Refuse(c) \/ Join(c) \/ Spawn(c) PROVE Nothing
  BY <1>2, <1>3, <1>5 DEF Refuse, Join, Spawn, Collect, Procs
<1>6. ASSUME Poll PROVE Nothing
  BY <1>2, <1>3, <1>6 DEF Poll, Collect
<1>7. ASSUME NEW c \in Clients, Found(c) \/ Restore(c) PROVE Nothing
  <2>1. gen[c] \in Generations /\ bundles[gen[c]] # None /\ Touch(gen[c])
    BY <1>7 DEF Found, Restore, Missing, Basic, TypeOK, Steps
  <2>2. Renewed(gen[c])
    BY <2>1, TouchFacts DEF Basic
  <2> QED
    BY <1>1, <2>2 DEF Renewed
<1>8. ASSUME Install PROVE Nothing
  <2>1. id[of[Pass]] \in Ids
    BY <1>8 DEF Install, Basic, Steps, Named, Procs
  <2>2. id[of[Pass]] # t
    BY <2>1, ComparisonsAssumption
  <2> QED
    BY <1>1, <1>8, <2>2 DEF Install, Basic, TypeOK
<1>9. ASSUME Clear \/ Third PROVE Nothing
  BY <1>1, <1>9, AgingFacts DEF Clear, Basic
<1>10. ASSUME NEW s \in Tasks, Commit(s)
       PROVE  Nothing \/ (~closed /\ current = task[t].of /\ selections'[current] = t)
  <2>1. task[s].historical => Nothing
    BY <1>1, <1>10, CommitFacts, ComparisonsAssumption
  <2>2. ~task[s].historical => s = t \/ Nothing
    BY <1>1, <1>10, CommitFacts
  <2>3. ~task[t].historical /\ s = t =>
            ~closed /\ current = task[t].of /\ selections'[current] = t
    <3>1. task[s].of \in Attempts
      BY <1>10, CommitFacts
    <3> QED
      BY <1>10, <3>1 DEF Commit, Retains, Basic, TypeOK
  <2> QED
    BY <2>1, <2>2, <2>3
<1>11. ASSUME UNCHANGED bundles PROVE Nothing
  BY <1>11
<1>12. ASSUME NEW x \in Procs, Read(x) PROVE Nothing
  BY <1>11, <1>12 DEF Read, store
<1>13. ASSUME NEW c \in Clients,
              \/ Select(c) \/ Ask(c) \/ NotFound(c) \/ Receive(c) \/ Disconnect(c) \/ Serve(c)
       PROVE Nothing
  BY <1>11, <1>13 DEF Select, Ask, NotFound, Receive, Disconnect, Serve, store
<1>14. ASSUME NEW s \in Tasks,
              \/ Acquire(s) \/ GiveUp(s) \/ Fail(s) \/ Interrupt(s) \/ Drained(s) \/ Forget(s)
       PROVE Nothing
  BY <1>11, <1>14 DEF Acquire, GiveUp, Fail, Interrupt, Drained, Forget
<1>15. ASSUME \/ Classify \/ Quit \/ Wait \/ Again \/ Publish \/ Replace \/ Stop \/ CancelAll
       PROVE Nothing
  BY <1>11, <1>15 DEF Classify, Quit, Wait, Again, Publish, Replace, Stop, CancelAll, store
<1> QED
  BY <1>4, <1>5, <1>6, <1>7, <1>8, <1>9, <1>10, <1>12, <1>13, <1>14, <1>15
     DEF Next, ClientStep, TaskStep, PassStep, StopStep, Procs

\* What is selected was captured from the classification that the index names, and nothing
\* is selected once the store is closed (comparison_requests.rs, commit and retain).
THEOREM Selected == Spec => SelectedFromCurrent
<1>1. IInv /\ [Next]_vars =>
          [\A t \in Tasks : bundles[t] = None /\ bundles'[t] # None =>
               ~closed /\ current = task[t].of /\ selections'[current] = t]_vars
  BY Selection DEF IInv
<1> QED
  BY <1>1, Inductive, PTL DEF Spec, SelectedFromCurrent
=============================================================================
