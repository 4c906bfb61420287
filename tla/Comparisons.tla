----------------------------- MODULE Comparisons -----------------------------
(***************************************************************************)
(* The comparison store of Serve (mokly-server, comparison_store.rs,       *)
(* comparison_files.rs, comparison_requests.rs): generations of the files  *)
(* a reviewer compares, kept while they are asked for.  The background     *)
(* pass installs the generation of a classification before the index names *)
(* it; readers select a page, whose two sides are captured into a          *)
(* generation of their own, and read files, of which the documents of a    *)
(* removed page are captured when they are first read.  Every entry point  *)
(* collects first, with a publication it read before it took the lock.     *)
(*                                                                         *)
(* The clock is counted in thirds of a retention (20 s); what the code     *)
(* does in a moment, or within a request's deadline of 10 s, sees at most  *)
(* one such step.  There is one page to select and one removed page; a     *)
(* generation has one file, and that of a classification a second one once *)
(* the removed page has been captured; files have the same size.           *)
(***************************************************************************)
EXTENDS Integers, FiniteSets

CONSTANTS
    Clients,         \* requests that readers make, one after the other
    Tasks,           \* captures, and the names of what they select
    Attempts,        \* classifications: where an Accepted lives
    Ids,             \* generations by content, of classifications
    MaxPending,      \* captures that may be pending, 32 in the code
    MaxGenerations,  \* generations, 64 in the code
    MaxTotal,        \* files of all generations, 128 MiB in the code
    IdsReturn,       \* may a classification have the content of one still kept?
    Pass,            \* the changes pass
    None

ASSUME ComparisonsAssumption ==
    /\ MaxPending \in Nat \ {0} /\ MaxGenerations \in Nat /\ MaxTotal \in Nat
    /\ IdsReturn \in BOOLEAN
    /\ Pass \notin Clients \cup Tasks /\ Clients \cap Tasks = {} /\ Ids \cap Tasks = {}
    /\ None \notin Attempts \cup Ids \cup Tasks

VARIABLES
    current,     \* the classification that the index names
    id,          \* the generation of each classification, None if there is none
    void,        \* was the classification of the pass cancelled?
    stopper,     \* how far `stop` is
    bundles,     \* the generations: the removed page's documents, classification, age
    selections,  \* of each classification, the generation of the selected page
    pending,     \* captures that later requests join
    task,        \* of each capture: its step, request, token and outcome
    permit,      \* the capture that runs
    pc, of, seen,\* of requests and the pass: step, classification, publication read
    op, gen,     \* what a request wants, and of which generation
    waits,       \* the capture a request waits for
    late         \* who has seen a third of a retention pass

vars == <<current, id, void, stopper, bundles, selections, pending, task,
          permit, pc, of, seen, op, gen, waits, late>>
store == <<stopper, bundles, selections, pending, task, permit>>
index == <<current, id, void>>
asked == <<op, gen, waits>>

Procs == Clients \cup {Pass}
Generations == Ids \cup Tasks
Retention == 3
Bundle == [snap : BOOLEAN, of : Attempts \cup {None}, age : 0..Retention]
Capture == [pc : {"none", "queued", "capturing", "draining", "ended"},
            of : Attempts \cup {None}, historical : BOOLEAN, cancel : BOOLEAN,
            outcome : {"none", "ok", "refused"}]
Idle == [pc |-> "none", of |-> None, historical |-> FALSE, cancel |-> FALSE,
         outcome |-> "none"]

ASSUME SomeAssumption == None \notin Bundle /\ IsFiniteSet(Generations)

TypeOK ==
    /\ current \in Attempts \cup {None}
    /\ id \in [Attempts -> Ids \cup {None}]
    /\ void \in BOOLEAN
    /\ stopper \in {"no", "closed", "waits", "done"}
    /\ bundles \in [Generations -> Bundle \cup {None}]
    /\ selections \in [Attempts -> Tasks \cup {None}]
    /\ pending \subseteq Tasks
    /\ task \in [Tasks -> Capture]
    /\ permit \in Tasks \cup {None}
    /\ pc \in [Procs -> {"idle", "read", "begin", "sweep", "look", "wait", "serve",
                         "install", "clean", "put", "swap"}]
    /\ of \in [Procs -> Attempts \cup {None}]
    /\ seen \in [Procs -> Attempts \cup {None}]
    /\ op \in [Clients -> {"none", "select", "refresh", "removed", "renew"}]
    /\ gen \in [Clients -> Generations \cup {None}]
    /\ waits \in [Clients -> Tasks \cup {None}]
    /\ late \subseteq Procs \cup Tasks

Init ==
    /\ current = None /\ id = [a \in Attempts |-> None]
    /\ void = FALSE /\ stopper = "no"
    /\ bundles = [g \in Generations |-> None]
    /\ selections = [a \in Attempts |-> None]
    /\ pending = {} /\ task = [t \in Tasks |-> Idle] /\ permit = None
    /\ pc = [x \in Procs |-> "idle"]
    /\ of = [x \in Procs |-> None] /\ seen = [x \in Procs |-> None]
    /\ op = [c \in Clients |-> "none"] /\ gen = [c \in Clients |-> None]
    /\ waits = [c \in Clients |-> None] /\ late = {}
-----------------------------------------------------------------------------
closed == stopper # "no"

\* The captures that have their classification, and those whose work may be running.
Running == {t \in Tasks : task[t].pc \in {"capturing", "draining"}}
Owning == Running \cup {t \in Tasks : task[t].pc = "queued"}

\* Whether a classification is still held by anybody, and whether its place may be
\* taken by another: weak owners keep the place, not the classification.
Held(a) ==
    \/ current = a \/ \E x \in Procs : a \in {of[x], seen[x]}
    \/ \E t \in Owning : task[t].of = a
Vacant(a) ==
    /\ ~Held(a) /\ selections[a] = None
    /\ \A g \in Generations : bundles[g] # None => bundles[g].of # a
    /\ \A t \in pending : task[t].of # a

Kept == {g \in Generations : bundles[g] # None}

\* admit: room for so many more files in generation g.
Admits(g, more) ==
    /\ Cardinality(Kept) + Cardinality({h \in Kept : bundles[h].snap}) + more <= MaxTotal
    /\ bundles[g] = None => Cardinality(Kept) < MaxGenerations

\* Mutant of Left: documents of the classification that is named go at any time.
LeftTrimmed(cur) ==
    [g \in Generations |->
        IF bundles[g] # None /\ cur # None /\ id[cur] = g
        THEN [bundles[g] EXCEPT !.snap = FALSE]
        ELSE IF bundles[g] = None \/ bundles[g].age < Retention THEN bundles[g]
        ELSE None]

\* Mutant of Left: what the index names goes like everything else.
LeftFresh(cur) ==
    [g \in Generations |->
        IF bundles[g] # None /\ bundles[g].age < Retention THEN bundles[g] ELSE None]

\* collect, of one who read that the index names cur.
Left(cur) ==
    [g \in Generations |->
        IF bundles[g] = None \/ bundles[g].age < Retention THEN bundles[g]
        ELSE IF cur # None /\ id[cur] = g THEN [bundles[g] EXCEPT !.snap = FALSE]
        ELSE None]
Chosen(cur) ==
    [a \in Attempts |->
        IF a = cur /\ selections[a] # None /\ Left(cur)[selections[a]] # None
        THEN selections[a] ELSE None]
Replaced(cur) ==
    {t \in pending : ~task[t].historical /\ task[t].of # cur}
\* Their tokens: who has the permit may still end in any way.
Told(ts) ==
    [t \in Tasks |-> IF t \in ts /\ task[t].pc = "queued"
                   THEN [task[t] EXCEPT !.cancel = TRUE] ELSE task[t]]

Collect(cur) ==
    /\ bundles' = Left(cur) /\ selections' = Chosen(cur)
    /\ task' = Told(Replaced(cur))

Touch(g) == bundles' = [bundles EXCEPT ![g].age = 0]
-----------------------------------------------------------------------------
\* Steps of whoever collects: the pass, and requests.
Goes(x, step) == pc' = [pc EXCEPT ![x] = step]
Drops(x) == of' = [of EXCEPT ![x] = None]
Forgets(x) == seen' = [seen EXCEPT ![x] = None]
Leaves(c) ==
    /\ Goes(c, "idle") /\ Drops(c) /\ late' = late \ {c}
    /\ op' = [op EXCEPT ![c] = "none"] /\ gen' = [gen EXCEPT ![c] = None]
    /\ waits' = [waits EXCEPT ![c] = None]

\* collect, begin: the current publication is read before the store is locked.
Read(x) ==
    /\ \/ pc[x] = "read" /\ Goes(x, "begin")
       \/ pc[x] = "install" /\ Goes(x, "clean")
    /\ seen' = [seen EXCEPT ![x] = current]
    /\ UNCHANGED <<index, store, of, asked, late>>

Sweep(x) ==
    /\ \/ pc[x] = "sweep" /\ Goes(x, "look")
       \/ pc[x] = "clean" /\ Goes(x, "put")
    /\ Collect(seen[x]) /\ Forgets(x)
    /\ UNCHANGED <<index, stopper, pending, permit, of, asked, late>>

\* The poll of the references collects, too; its reading and its collection are one step,
\* collections that come late are those of requests and of the pass.
Poll ==
    /\ Collect(current)
    /\ UNCHANGED <<index, stopper, pending, permit, pc, of, seen, asked, late>>
-----------------------------------------------------------------------------
\* A reader selects the page, as the index has it, or asks for a file.
Select(c) ==
    /\ pc[c] = "idle" /\ current # None
    /\ \E o \in {"select", "refresh"} : op' = [op EXCEPT ![c] = o]
    /\ Goes(c, "read") /\ of' = [of EXCEPT ![c] = current]
    /\ UNCHANGED <<index, store, seen, gen, waits, late>>

Ask(c) ==
    /\ pc[c] = "idle"
    /\ \E g \in Kept, o \in {"removed", "renew"} :
           op' = [op EXCEPT ![c] = o] /\ gen' = [gen EXCEPT ![c] = g]
    /\ Goes(c, "sweep") /\ seen' = [seen EXCEPT ![c] = current]
    /\ UNCHANGED <<index, store, of, waits, late>>

historical(c) == op[c] = "removed"
Same(c) == {t \in pending : task[t].of = of[c] /\ task[t].historical = historical(c)}
Admitted(c) == ~closed /\ (historical(c) \/ seen[c] = of[c])
Reuses(c) == op[c] = "select" /\ Chosen(seen[c])[of[c]] # None

\* begin: refused, or answered with what was selected before.
Refuse(c) ==
    /\ pc[c] = "begin" /\ Collect(seen[c])
    /\ \/ ~Admitted(c)
       \/ Same(c) = {} /\ (Reuses(c) \/ Cardinality(pending) >= MaxPending)
    /\ Leaves(c) /\ Forgets(c)
    /\ UNCHANGED <<index, stopper, pending, permit>>

Join(c) ==
    /\ pc[c] = "begin" /\ Admitted(c) /\ Collect(seen[c])
    /\ \E t \in Same(c) : waits' = [waits EXCEPT ![c] = t]
    /\ Goes(c, "wait") /\ Forgets(c)
    /\ UNCHANGED <<index, stopper, pending, permit, of, op, gen, late>>

\* A name is new: nothing is kept under it and nobody has it.
Fresh(t) ==
    /\ task[t].pc = "none" /\ bundles[t] = None
    /\ \A c \in Clients : t \notin {waits[c], gen[c]}

Spawn(c) ==
    /\ pc[c] = "begin" /\ Admitted(c) /\ Same(c) = {} /\ ~Reuses(c)
    /\ Cardinality(pending) < MaxPending
    /\ bundles' = Left(seen[c]) /\ selections' = Chosen(seen[c])
    /\ \E t \in Tasks :
           /\ Fresh(t)
           /\ task' = [Told(Replaced(seen[c])) EXCEPT ![t] =
                  [pc |-> "queued", of |-> of[c], historical |-> historical(c),
                   cancel |-> FALSE, outcome |-> "none"]]
           /\ pending' = pending \cup {t}
           /\ waits' = [waits EXCEPT ![c] = t]
    /\ Goes(c, "wait") /\ Forgets(c)
    /\ UNCHANGED <<index, stopper, permit, of, op, gen, late>>

\* file, renew: a generation that is gone, or a file it has not and cannot get.
Missing(c) ==
    LET b == bundles[gen[c]] IN
    \/ b = None
    \/ b # None /\ op[c] = "removed" /\ ~b.snap /\ (b.of = None \/ ~Held(b.of))
Restores(c) == op[c] = "removed" /\ bundles[gen[c]] # None /\ ~bundles[gen[c]].snap

NotFound(c) ==
    /\ pc[c] = "look" /\ Missing(c) /\ Leaves(c)
    /\ UNCHANGED <<index, store, seen>>

Found(c) ==
    /\ pc[c] = "look" /\ ~Missing(c) /\ ~Restores(c)
    /\ Touch(gen[c]) /\ Leaves(c)
    /\ UNCHANGED <<index, stopper, selections, pending, task, permit, seen>>

Restore(c) ==
    /\ pc[c] = "look" /\ ~Missing(c) /\ Restores(c)
    /\ Touch(gen[c])
    /\ of' = [of EXCEPT ![c] = bundles[gen[c]].of] /\ Goes(c, "read")
    /\ UNCHANGED <<index, stopper, selections, pending, task, permit, seen, asked, late>>

\* The outcome of a capture that is over is there for those who wait for it.
Waiters(t) == {c \in Clients : waits[c] = t}

Receive(c) ==
    /\ pc[c] = "wait" /\ task[waits[c]].outcome # "none"
    /\ task' = IF task[waits[c]].pc = "none" /\ Waiters(waits[c]) = {c}
                THEN [task EXCEPT ![waits[c]] = Idle] ELSE task
    /\ IF historical(c) /\ task[waits[c]].outcome = "ok"
       THEN /\ Goes(c, "serve") /\ waits' = [waits EXCEPT ![c] = None]
            /\ UNCHANGED <<of, op, gen, late>>
       ELSE Leaves(c)
    /\ UNCHANGED <<index, stopper, bundles, selections, pending, permit, seen>>

\* The reader goes away; the capture goes on.
Disconnect(c) ==
    /\ pc[c] = "wait"
    /\ task' = IF task[waits[c]].pc = "none" /\ Waiters(waits[c]) = {c}
                THEN [task EXCEPT ![waits[c]] = Idle] ELSE task
    /\ Leaves(c)
    /\ UNCHANGED <<index, stopper, bundles, selections, pending, permit, seen>>

Serve(c) == pc[c] = "serve" /\ Leaves(c) /\ UNCHANGED <<index, store, seen>>
-----------------------------------------------------------------------------
\* run: who waits for the permit gets it, or finds it closed or the deadline past.
\* In which order they get it is left open.
Ended(t, outcome) ==
    [task EXCEPT ![t].pc = "ended", ![t].cancel = FALSE, ![t].outcome = outcome]

Acquire(t) ==
    /\ task[t].pc = "queued" /\ permit = None /\ ~closed /\ ~task[t].cancel
    /\ permit' = t /\ task' = [task EXCEPT ![t].pc = "capturing"]
    /\ UNCHANGED <<index, stopper, bundles, selections, pending, pc, of, seen, asked, late>>

GiveUp(t) ==
    /\ task[t].pc = "queued"
    /\ task' = Ended(t, "refused")
    /\ UNCHANGED <<index, stopper, bundles, selections, pending, permit, pc, of, seen,
                   asked, late>>

\* Mutant of Retains: the classification is not looked at again.
RetainsUnfenced(t) ==
    LET a == task[t].of IN
    /\ ~closed
    /\ IF task[t].historical
       THEN /\ bundles[id[a]] # None
            /\ Admits(id[a], IF bundles[id[a]].snap THEN 0 ELSE 1)
       ELSE Admits(t, 1)

\* retain: the files go into the generation of the classification, if it is still kept,
\* or into one of their own, while the index names the classification.
Retains(t) ==
    LET a == task[t].of IN
    /\ ~closed
    /\ IF task[t].historical
       THEN /\ bundles[id[a]] # None
            /\ Admits(id[a], IF bundles[id[a]].snap THEN 0 ELSE 1)
       ELSE current = a /\ Admits(t, 1)

Commit(t) ==
    LET a == task[t].of IN
    /\ task[t].pc = "capturing" /\ Retains(t)
    /\ IF task[t].historical
       THEN /\ bundles' = [bundles EXCEPT ![id[a]] = [snap |-> TRUE, of |-> @.of, age |-> 0]]
            /\ UNCHANGED selections
       ELSE /\ bundles' = [bundles EXCEPT ![t] = [snap |-> FALSE, of |-> None, age |-> 0]]
            /\ selections' = [selections EXCEPT ![a] = t]
    /\ task' = Ended(t, "ok") /\ permit' = None
    /\ UNCHANGED <<index, stopper, pending, pc, of, seen, asked, late>>

\* The capture fails, sees its token, or has nowhere to put what it captured.
Fail(t) ==
    /\ task[t].pc = "capturing"
    /\ task' = Ended(t, "refused") /\ permit' = None
    /\ UNCHANGED <<index, stopper, bundles, selections, pending, pc, of, seen, asked, late>>

\* Mutant of Interrupt: the permit goes with the answer.
InterruptReleased(t) ==
    /\ task[t].pc = "capturing" /\ permit' = None
    /\ task' = [task EXCEPT ![t].pc = "draining", ![t].outcome = "refused"]
    /\ UNCHANGED <<index, stopper, bundles, selections, pending, pc, of, seen, asked, late>>

\* The deadline passes, or the classification is replaced: the answer goes out, and the
\* permit stays until the work has ended.
Interrupt(t) ==
    /\ task[t].pc = "capturing"
    /\ task' = [task EXCEPT ![t].pc = "draining", ![t].outcome = "refused"]
    /\ UNCHANGED <<index, stopper, bundles, selections, pending, permit, pc, of, seen,
                   asked, late>>

Drained(t) ==
    /\ task[t].pc = "draining"
    /\ task' = [task EXCEPT ![t].pc = "ended"] /\ permit' = None
    /\ UNCHANGED <<index, stopper, bundles, selections, pending, pc, of, seen, asked, late>>

Forget(t) ==
    /\ task[t].pc = "ended"
    /\ pending' = pending \ {t}
    /\ task' = [task EXCEPT ![t] =
           IF Waiters(t) = {} THEN Idle ELSE [Idle EXCEPT !.outcome = task[t].outcome]]
    /\ late' = late \ {t}
    /\ UNCHANGED <<index, stopper, bundles, selections, permit, pc, of, seen, asked>>
-----------------------------------------------------------------------------
\* The changes pass: classify, install, and let the index name it.  check_capacity, which
\* comes first, is the collection and the test of Install a moment earlier.
Classify ==
    /\ pc[Pass] = "idle" /\ current = None
    /\ \E a \in Attempts, i \in Ids :
           /\ Vacant(a) /\ (IdsReturn \/ bundles[i] = None)
           /\ id' = [id EXCEPT ![a] = i]
           /\ of' = [of EXCEPT ![Pass] = a]
    /\ Goes(Pass, "install")
    /\ UNCHANGED <<current, void, store, seen, asked, late>>

\* Mutant of Over: a stop is not noticed.
OverVoid == void

Over == closed \/ void
Lacking == IF bundles[id[of[Pass]]] = None THEN 1 ELSE 0
Room == Admits(id[of[Pass]], Lacking)
Quits == Goes(Pass, "idle") /\ Drops(Pass) /\ void' = FALSE /\ late' = late \ {Pass}

Quit ==
    /\ \/ pc[Pass] = "put" /\ Over
       \/ pc[Pass] = "swap" /\ void
    /\ Quits
    /\ UNCHANGED <<current, id, store, seen, asked>>

\* publish: a second later it tries again.
Wait ==
    /\ pc[Pass] = "put" /\ ~Over /\ ~Room
    /\ Goes(Pass, "install") /\ late' = late \ {Pass}
    /\ UNCHANGED <<index, store, of, seen, asked>>

Install ==
    LET a == of[Pass] IN
    /\ pc[Pass] = "put" /\ ~Over /\ Room
    /\ bundles' = IF bundles[id[a]] = None
                   THEN [bundles EXCEPT ![id[a]] = [snap |-> FALSE, of |-> a, age |-> 0]]
                   ELSE [bundles EXCEPT ![id[a]].of = a]
    /\ Goes(Pass, "swap")
    /\ UNCHANGED <<index, stopper, selections, pending, task, permit, of, seen, asked, late>>

\* Another swap of the snapshot, of usage that completed, came in between.
Again ==
    /\ pc[Pass] = "swap" /\ ~void /\ Goes(Pass, "install")
    /\ UNCHANGED <<index, store, of, seen, asked, late>>

Publish ==
    /\ pc[Pass] = "swap" /\ ~void
    /\ current' = of[Pass] /\ Quits
    /\ UNCHANGED <<id, store, seen, asked>>

\* A new head, or new references: no classification is named any more, and the pass for
\* the earlier one is cancelled.
Replace ==
    /\ current # None \/ pc[Pass] # "idle"
    /\ current' = None
    /\ void' = (of[Pass] # None)
    /\ UNCHANGED <<id, store, pc, of, seen, asked, late>>
-----------------------------------------------------------------------------
Stop ==
    /\ stopper = "no" /\ stopper' = "closed"
    /\ UNCHANGED <<index, bundles, selections, pending, task, permit, pc, of, seen, asked,
                   late>>

CancelAll ==
    /\ stopper = "closed" /\ stopper' = "waits"
    /\ task' = Told(pending)
    /\ void' = (void \/ \E g \in Kept : of[Pass] # None /\ bundles[g].of = of[Pass])
    /\ UNCHANGED <<current, id, bundles, selections, pending, permit, pc, of, seen,
                   asked, late>>

Clear ==
    /\ stopper = "waits" /\ \A t \in Tasks : task[t].pc = "none"
    /\ stopper' = "done"
    /\ bundles' = [g \in Generations |-> None]
    /\ selections' = [a \in Attempts |-> None]
    /\ UNCHANGED <<index, pending, task, permit, pc, of, seen, asked, late>>

\* A third of a retention passes, for those who do something at most once.
Busy == {x \in Procs : pc[x] # "idle"} \cup {t \in Tasks : task[t].pc = "ended"}
Third ==
    /\ late = {} /\ late' = Busy
    /\ bundles' = [g \in Generations |->
           IF bundles[g] # None /\ bundles[g].age < Retention
           THEN [bundles[g] EXCEPT !.age = @ + 1] ELSE bundles[g]]
    /\ UNCHANGED <<index, stopper, selections, pending, task, permit, pc, of, seen, asked>>
-----------------------------------------------------------------------------
ClientStep(c) ==
    \/ Read(c) \/ Sweep(c) \/ Refuse(c) \/ Join(c) \/ Spawn(c)
    \/ NotFound(c) \/ Found(c) \/ Restore(c) \/ Receive(c) \/ Serve(c)
TaskStep(t) ==
    \/ Acquire(t) \/ GiveUp(t) \/ Commit(t) \/ Fail(t) \/ Interrupt(t)
    \/ Drained(t) \/ Forget(t)
PassStep ==
    \/ Read(Pass) \/ Sweep(Pass) \/ Quit \/ Wait \/ Install \/ Again \/ Publish
StopStep == CancelAll \/ Clear

Next ==
    \/ \E c \in Clients : Select(c) \/ Ask(c) \/ ClientStep(c) \/ Disconnect(c)
    \/ \E t \in Tasks : TaskStep(t)
    \/ Classify \/ PassStep \/ Poll
    \/ Replace \/ Stop \/ StopStep \/ Third

Spec == Init /\ [][Next]_vars
-----------------------------------------------------------------------------
\* While the index names a classification, its generation is kept: not even a collection
\* that read an earlier publication takes it away (comparison_store.rs, collect;
\* docs/protocol/mokly-comparison-serving.md).
AdvertisedKept ==
    current # None /\ ~closed => bundles[id[current]] # None

\* One capture runs at a time, those included whose answer has gone out at a deadline
\* or a replacement, and the permit is never lost (comparison_requests.rs, run).
CapturesSerial ==
    /\ \A s, t \in Running : s = t
    /\ permit # None => permit \in Running

\* Who waited for the removed page's documents, and was told that they are there, finds
\* them: they are not collected in between (comparison_files.rs, file).
RestoredServed ==
    \A c \in Clients : pc[c] = "serve" /\ ~closed =>
        bundles[gen[c]] # None /\ bundles[gen[c]].snap

\* What is selected was captured from the classification that the index names, and
\* while nothing was stopped (comparison_requests.rs, commit).
SelectedFromCurrent ==
    [][\A t \in Tasks : bundles[t] = None /\ bundles'[t] # None =>
           ~closed /\ current = task[t].of /\ selections'[current] = t]_vars

\* After a stop nothing is kept, pending or running, for good (stop).
StoppedForGood ==
    stopper = "done" => Kept = {} /\ pending = {} /\ Owning = {}
=============================================================================
