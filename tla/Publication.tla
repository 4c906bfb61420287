---------------------------- MODULE Publication ----------------------------
(* The public state of `mokly serve` (crates/mokly-server/src/publication.rs)  *)
(* and everyone who replaces it: the rebuild coordinator, the task of the      *)
(* completion queue, the background pass with its classification attempts,     *)
(* and the shutdown that closes it.                                            *)
(*                                                                             *)
(* A critical section of the state mutex is one step; the build mutex is held  *)
(* over several.  Arc::ptr_eq of two snapshots is equality here: a snapshot    *)
(* that replaces another has a higher revision or more completions.            *)
EXTENDS Integers, FiniteSets

CONSTANTS
    Routes,      \* the visual routes of every head
    Refs,        \* what the merge base of HEAD and the base ref may be
    Broken,      \* a Git failure, in the place of one of Refs
    FirstRefs,   \* what Git may say when the server starts
    RefsReturn,  \* whether a ref may move back to an earlier value
    Watching,    \* false for `serve --no-watch`
    MaxHeads,    \* bound: heads built, the first included
    MaxMoves,    \* bound: moves of the refs
    MaxChanges,  \* bound: heads that replace another, and moves of the refs
    NoChanges, Free

ASSUME PublicationAssumption ==
    /\ Broken \notin Refs /\ FirstRefs \subseteq Refs \cup {Broken}
    /\ RefsReturn \in BOOLEAN /\ Watching \in BOOLEAN
    /\ MaxHeads \in Nat \ {0} /\ MaxMoves \in Nat /\ MaxChanges \in Nat
    /\ NoChanges \notin [attempt : Nat, documents : Nat, base : Refs, refs : Refs]
    /\ Free \notin {"queue", "pass", "attempt"}

VARIABLES
    snapshot, closed,    \* State, guarded by the state mutex
    leases,              \* revisions whose RevisionLease has not expired
    build,               \* who holds the build mutex
    pc,
    newest,              \* heads built so far
    candidate,           \* the coordinator's next snapshot
    usage, rendering,    \* per head: routes with a usage; and those whose lock is held
    pending, ready,      \* CompletionQueue: Pending, and the permit of its Notify
    call,                \* completed_many under way: its origin, routes and updates
    held,                \* the snapshot a build started from
    origin, queued,      \* UsagePass and ChangesPass
    attempt, cancelled,  \* the latest attempt and its token
    installed, room,     \* Comparisons: attempts whose metadata came in; room for more
    refs, past           \* Git: the refs now, and what they were

state == <<snapshot, closed, leases>>
documents == <<usage, rendering>>
queue == <<pending, ready>>
pass == <<origin, queued>>
store == <<installed, room>>
git == <<refs, past>>

vars == <<state, build, pc, newest, candidate, documents, queue, call, held, pass, attempt,
          cancelled, store, git>>

Recorders == {"queue", "pass"}

First ==
    [revision |-> 1, documents |-> 1, completed |-> {}, status |-> "pending",
     changes |-> NoChanges]

NoCall == [origin |-> 1, todo |-> {}, updates |-> {}]

NoAttempt == [id |-> 0, documents |-> 1, refs |-> Broken, base |-> Broken, goal |-> "first"]

Init ==
    /\ snapshot = First /\ closed = FALSE /\ leases = {1}
    /\ build = Free
    /\ pc = [rebuild |-> "idle", queue |-> "wait", pass |-> "look", attempt |-> "ended",
             shutdown |-> "running"]
    /\ newest = 1 /\ candidate = First
    /\ usage = [d \in 1..MaxHeads |-> {}] /\ rendering = {}
    /\ pending = [closed |-> FALSE, origin |-> 0, routes |-> {}] /\ ready = FALSE
    /\ call = [c \in Recorders |-> NoCall]
    /\ held = [c \in Recorders \cup {"attempt"} |-> First]
    /\ origin = 1 /\ queued = Broken
    /\ attempt = NoAttempt /\ cancelled = FALSE
    /\ installed = {} /\ room = TRUE
    /\ refs \in FirstRefs /\ past = {}

Goto(a, to) == pc' = [pc EXCEPT ![a] = to]

\* The stop channel of `serve`.
Stopped == pc["shutdown"] # "running"

\* ManualCandidates::active.
Active == pc["shutdown"] \in {"running", "candidates"}

\* What the bounds leave of changes from outside.
MayChange == newest - 1 + Cardinality(past) < MaxChanges

Current(head) == snapshot.documents = head

\* Mistake: the lease of the revision that is replaced does not expire.
PublishUnexpired(next) ==
    /\ leases' = leases \cup {next.revision}
    /\ snapshot' = next
    /\ UNCHANGED closed

\* Under the state mutex: expire the lease, swap the snapshot, send the event.
Publish(next) ==
    /\ leases' = (leases \ {snapshot.revision}) \cup {next.revision}
    /\ snapshot' = next
    /\ UNCHANGED closed

-----------------------------------------------------------------------------
(* The rebuild coordinator *)

\* A candidate is projected from the snapshot current then: completions with an
\* equal document key are reused (replacement::reuse_usage).
Prepare ==
    /\ pc["rebuild"] = "idle" /\ Active
    /\ newest < MaxHeads /\ MayChange
    /\ newest' = newest + 1
    /\ \E reused \in SUBSET snapshot.completed :
         candidate' = [revision |-> snapshot.revision + 1, documents |-> newest + 1,
                       completed |-> reused, status |-> "pending", changes |-> NoChanges]
    /\ Goto("rebuild", "check")
    /\ UNCHANGED <<state, build, documents, queue, call, held, pass, attempt, cancelled,
                   store, git>>

\* The rebuild is over and drops its candidate.
EndRebuild ==
    /\ candidate' = First
    /\ Goto("rebuild", "idle")

CheckActive ==
    /\ pc["rebuild"] = "check"
    /\ \/ Active /\ Goto("rebuild", "replace") /\ UNCHANGED candidate
       \/ ~Active /\ EndRebuild
    /\ UNCHANGED <<state, build, newest, documents, queue, call, held, pass, attempt,
                   cancelled, store, git>>

\* PublicationWriter::replace: only the next revision gets in.
Replace ==
    /\ pc["rebuild"] = "replace"
    /\ \/ /\ ~closed /\ candidate.revision = snapshot.revision + 1
          /\ Publish(candidate)
          /\ EndRebuild
       \/ /\ closed \/ candidate.revision # snapshot.revision + 1
          /\ Goto("rebuild", "restamp")
          /\ UNCHANGED <<state, candidate>>
    /\ UNCHANGED <<build, newest, documents, queue, call, held, pass, attempt, cancelled,
                   store, git>>

\* Snapshot::at_revision, or giving up when the state did not move.
Restamp ==
    /\ pc["rebuild"] = "restamp"
    /\ \/ /\ snapshot.revision + 1 <= candidate.revision
          /\ EndRebuild
       \/ /\ snapshot.revision + 1 > candidate.revision
          /\ candidate' = [candidate EXCEPT !.revision = snapshot.revision + 1]
          /\ Goto("rebuild", "check")
    /\ UNCHANGED <<state, build, newest, documents, queue, call, held, pass, attempt,
                   cancelled, store, git>>

-----------------------------------------------------------------------------
(* Documents and the completion queue *)

\* GraphDocuments::render holds the route's lock while it renders.  What a render
\* that starts later than its head is replaced records is never read.
StartRender(r) ==
    /\ r \notin usage[snapshot.documents]
    /\ <<snapshot.documents, r>> \notin rendering
    /\ rendering' = rendering \cup {<<snapshot.documents, r>>}
    /\ UNCHANGED <<state, build, pc, newest, candidate, usage, queue, call, held, pass,
                   attempt, cancelled, store, git>>

EndRender(d, r) ==
    /\ <<d, r>> \in rendering
    /\ rendering' = rendering \ {<<d, r>>}
    /\ usage' = [usage EXCEPT ![d] = @ \cup {r}]
    /\ UNCHANGED <<state, build, pc, newest, candidate, queue, call, held, pass, attempt,
                   cancelled, store, git>>

\* CompletionQueue::completed for a request that was served from head d.
Completed(d, r) ==
    /\ r \in usage[d]
    /\ ~pending.closed
    /\ Current(d) /\ r \notin snapshot.completed
    /\ LET routes == IF pending.origin = d THEN pending.routes ELSE {}
       IN  /\ r \notin routes
           /\ pending' = [pending EXCEPT !.origin = d, !.routes = routes \cup {r}]
    /\ ready' = TRUE
    /\ UNCHANGED <<state, build, pc, newest, candidate, documents, call, held, pass, attempt,
                   cancelled, store, git>>

\* The task of the queue wakes up with a batch, with nothing, or for the last time.
TakeBatch ==
    /\ pc["queue"] = "wait" /\ ready
    /\ ready' = FALSE
    /\ \/ /\ pending.closed
          /\ Goto("queue", "ended")
          /\ UNCHANGED <<pending, call>>
       \/ /\ ~pending.closed /\ pending.origin = 0
          /\ UNCHANGED <<pc, pending, call>>
       \/ /\ ~pending.closed /\ pending.origin # 0
          /\ call' = [call EXCEPT !["queue"] =
                        [origin |-> pending.origin, todo |-> pending.routes, updates |-> {}]]
          /\ pending' = [pending EXCEPT !.origin = 0, !.routes = {}]
          /\ Goto("queue", "enter")
    /\ UNCHANGED <<state, build, newest, candidate, documents, held, pass, attempt, cancelled,
                   store, git>>

-----------------------------------------------------------------------------
(* SharedPublication::completed_many, called by the queue and by the pass *)

Calling == {"gather", "read", "record"}

Returned(c) == IF c = "queue" THEN "wait" ELSE "recorded"

\* The call returns and drops the build mutex.
Return(c) ==
    /\ build' = Free
    /\ call' = [call EXCEPT ![c] = NoCall]
    /\ held' = [held EXCEPT ![c] = First]
    /\ Goto(c, Returned(c))

\* The build mutex is taken and the first check made.
Enter(c) ==
    /\ pc[c] = "enter" /\ build = Free
    /\ \/ /\ closed \/ ~Current(call[c].origin)
          /\ call' = [call EXCEPT ![c] = NoCall]
          /\ Goto(c, Returned(c))
          /\ UNCHANGED build
       \/ /\ ~closed /\ Current(call[c].origin)
          /\ build' = c
          /\ call' = [call EXCEPT ![c].todo = @ \ snapshot.completed]
          /\ Goto(c, "gather")
    /\ UNCHANGED <<state, newest, candidate, documents, queue, held, pass, attempt, cancelled,
                   store, git>>

\* Documents::usage of one route waits for the render that holds its lock.
Gather(c) ==
    /\ pc[c] = "gather"
    /\ \/ /\ call[c].todo = {}
          /\ Goto(c, "read")
          /\ UNCHANGED call
       \/ \E r \in call[c].todo :
            /\ <<call[c].origin, r>> \notin rendering
            /\ call' = [call EXCEPT
                          ![c].todo = @ \ {r},
                          ![c].updates = @ \cup (usage[call[c].origin] \cap {r})]
            /\ UNCHANGED pc
    /\ UNCHANGED <<state, build, newest, candidate, documents, queue, held, pass, attempt,
                   cancelled, store, git>>

\* evidence::complete: a new revision if what is new shows in a detail.
Complete(current, updates, shows) ==
    [current EXCEPT
        !.completed = @ \cup updates,
        !.revision = IF shows THEN @ + 1 ELSE @]

\* The head of the loop: the snapshot to build on, if there is anything to build.
Read(c) ==
    /\ pc[c] = "read"
    /\ \/ /\ \/ closed \/ ~Current(call[c].origin)
             \/ call[c].updates \subseteq snapshot.completed
          /\ Return(c)
       \/ /\ ~closed /\ Current(call[c].origin)
          /\ ~(call[c].updates \subseteq snapshot.completed)
          /\ held' = [held EXCEPT ![c] = snapshot]
          /\ Goto(c, "record")
          /\ UNCHANGED <<build, call>>
    /\ UNCHANGED <<state, newest, candidate, documents, queue, pass, attempt, cancelled, store,
                   git>>

\* The end of the loop: the new snapshot, unless another one came in between.
Record(c) ==
    /\ pc[c] = "record"
    /\ \/ /\ closed
          /\ Return(c)
          /\ UNCHANGED state
       \/ /\ ~closed /\ snapshot # held[c]
          /\ Goto(c, "read")
          /\ UNCHANGED <<state, build, call, held>>
       \/ /\ ~closed /\ snapshot = held[c]
          /\ Return(c)
          /\ \/ Publish(Complete(held[c], call[c].updates, TRUE))
             \/ /\ snapshot' = Complete(held[c], call[c].updates, FALSE)
                /\ UNCHANGED <<closed, leases>>
    /\ UNCHANGED <<newest, candidate, documents, queue, pass, attempt, cancelled, store, git>>

-----------------------------------------------------------------------------
(* UsagePass and ChangesPass.  Their subscriptions deliver every event since   *)
(* they began, so that waiting for an event and looking again is waiting for   *)
(* the condition itself.  A head that was left stays left, so that the looks   *)
(* that follow one another without an await in between are one.                *)

Left == Stopped \/ ~Current(origin)

Look ==
    /\ pc["pass"] = "look"
    /\ \/ /\ Stopped
          /\ Goto("pass", "ended")
          /\ UNCHANGED origin
       \/ /\ ~Stopped
          /\ origin' = snapshot.documents
          /\ Goto("pass", "fill")
    /\ UNCHANGED <<state, build, newest, candidate, documents, queue, call, held, queued,
                   attempt, cancelled, store, git>>

\* UsagePass::fill has a route rendered that is not completed.
Background(r) ==
    /\ pc["pass"] = "fill" /\ ~Left
    /\ r \notin snapshot.completed
    /\ StartRender(r)

\* Every render of the pass has ended, or the pass is cancelled.
Filled ==
    /\ pc["pass"] = "fill"
    /\ \/ /\ Left
          /\ Goto("pass", "look")
          /\ UNCHANGED call
       \/ /\ Routes \subseteq usage[origin] \cup snapshot.completed
          /\ call' = [call EXCEPT !["pass"] =
                        [origin |-> origin, todo |-> Routes, updates |-> {}]]
          /\ Goto("pass", "enter")
    /\ UNCHANGED <<state, build, newest, candidate, documents, queue, held, pass, attempt,
                   cancelled, store, git>>

\* The loop of ChangesPass::run starts an attempt with a token of its own.
Begin(expected) ==
    /\ attempt' = [id |-> attempt.id + 1, documents |-> origin, refs |-> expected,
                   base |-> Broken, goal |-> "first"]
    /\ cancelled' = FALSE
    /\ pc' = [pc EXCEPT !["pass"] = "watch", !["attempt"] = "offer"]

\* The attempt's task has ended, and its locals with it.
Joined == attempt' = [attempt EXCEPT !.base = Broken, !.goal = "first"]

\* After the pass: on to Changes, with the refs of now.
Recorded ==
    /\ pc["pass"] = "recorded"
    /\ \/ Left /\ Goto("pass", "look") /\ UNCHANGED <<attempt, cancelled>>
       \/ ~Left /\ Begin(refs)
    /\ UNCHANGED <<state, build, newest, candidate, documents, queue, call, held, pass, store,
                   git>>

\* While the attempt works: its head is replaced, it ends, or a poll finds other refs.
Watch ==
    /\ pc["pass"] = "watch"
    /\ \/ /\ Left
          /\ cancelled' = TRUE
          /\ Goto("pass", "drain")
          /\ UNCHANGED <<queued, attempt>>
       \/ /\ pc["attempt"] = "ended" /\ Joined
          /\ Goto("pass", "settled")
          /\ UNCHANGED <<queued, cancelled>>
       \/ /\ Watching /\ refs # attempt.refs
          /\ queued' = refs
          /\ cancelled' = TRUE
          /\ Goto("pass", "drain")
          /\ UNCHANGED attempt
    /\ UNCHANGED <<state, build, newest, candidate, documents, queue, call, held, origin,
                   store, git>>

\* A cancelled attempt is awaited before the next one starts.
Drain ==
    /\ pc["pass"] = "drain" /\ pc["attempt"] = "ended"
    /\ \/ Left /\ Joined /\ Goto("pass", "look") /\ UNCHANGED cancelled
       \/ ~Left /\ Begin(queued)
    /\ UNCHANGED <<state, build, newest, candidate, documents, queue, call, held, pass, store,
                   git>>

\* Mistake: only another head ends the wait after an attempt.
SettledForHead ==
    /\ pc["pass"] = "settled"
    /\ Left /\ Goto("pass", "look")
    /\ UNCHANGED <<state, build, newest, candidate, documents, queue, call, held, pass,
                   attempt, cancelled, store, git>>

\* After an attempt: wait for another head, or for a poll that finds other refs.
Settled ==
    /\ pc["pass"] = "settled"
    /\ \/ Left /\ Goto("pass", "look") /\ UNCHANGED <<attempt, cancelled>>
       \/ ~Left /\ Watching /\ refs # attempt.refs /\ Begin(refs)
    /\ UNCHANGED <<state, build, newest, candidate, documents, queue, call, held, pass, store,
                   git>>

-----------------------------------------------------------------------------
(* A classification attempt.  Its goal is the status it publishes next.        *)

StatusOf(goal) == IF goal \in {"first", "again"} THEN "pending" ELSE goal

\* What the attempt publishes: its result with the status ready, else nothing.
Offered ==
    IF attempt.goal = "ready"
    THEN [attempt |-> attempt.id, documents |-> attempt.documents, base |-> attempt.base,
          refs |-> attempt.refs]
    ELSE NoChanges

\* changes::project.
Project(current) ==
    [current EXCEPT !.revision = @ + 1, !.status = StatusOf(attempt.goal), !.changes = Offered]

\* Where the attempt goes when SharedPublication::changes answered true or false.
After(answer) ==
    CASE answer /\ attempt.goal = "first" -> "prepare"
      [] answer /\ attempt.goal = "preparing" -> "prepared"
      [] answer /\ attempt.goal = "again" -> "compare"
      [] ~answer /\ attempt.goal \in {"preparing", "again"} -> "failed"
      [] OTHER -> "ended"

Answer(answer) ==
    /\ build' = Free
    /\ held' = [held EXCEPT !["attempt"] = First]
    /\ Goto("attempt", After(answer))

\* SharedPublication::changes up to the projection: the build mutex is taken once,
\* the look at the state is made once per round of its loop.
Offer ==
    /\ \/ pc["attempt"] = "offer" /\ build = Free
       \/ pc["attempt"] = "reoffer"
    /\ \/ /\ closed \/ cancelled \/ ~Current(attempt.documents)
          /\ Answer(FALSE)
       \/ /\ ~closed /\ ~cancelled /\ Current(attempt.documents)
          /\ snapshot.status = StatusOf(attempt.goal) /\ Offered = NoChanges
          /\ Answer(TRUE)
       \/ /\ ~closed /\ ~cancelled /\ Current(attempt.documents)
          /\ snapshot.status # StatusOf(attempt.goal) \/ Offered # NoChanges
          /\ build' = "attempt"
          /\ held' = [held EXCEPT !["attempt"] = snapshot]
          /\ Goto("attempt", "install")
    /\ UNCHANGED <<state, newest, candidate, documents, queue, call, pass, attempt, cancelled,
                   store, git>>

\* The projection is done, or that of a result failed: ready metadata is installed,
\* if there is room for it.
Install ==
    /\ pc["attempt"] = "install"
    /\ \/ /\ cancelled
          /\ Answer(FALSE)
          /\ UNCHANGED store
       \/ /\ ~cancelled /\ attempt.goal # "ready"
          /\ Goto("attempt", "commit")
          /\ UNCHANGED <<build, held, store>>
       \/ /\ attempt.goal = "ready"
          /\ build' = Free
          /\ held' = [held EXCEPT !["attempt"] = First]
          /\ Goto("attempt", "failed")
          /\ UNCHANGED store
       \/ /\ ~cancelled /\ attempt.goal = "ready" /\ ~room
          /\ build' = Free
          /\ held' = [held EXCEPT !["attempt"] = First]
          /\ Goto("attempt", "publish")
          /\ UNCHANGED store
       \/ /\ ~cancelled /\ attempt.goal = "ready" /\ room
          /\ installed' = installed \cup {attempt.id}
          /\ room' \in BOOLEAN
          /\ Goto("attempt", "commit")
          /\ UNCHANGED <<build, held>>
    /\ UNCHANGED <<state, newest, candidate, documents, queue, call, pass, attempt, cancelled,
                   git>>

\* Mistake: whatever is current is projected anew, without another look at its head.
CommitAnyway ==
    /\ pc["attempt"] = "commit"
    /\ \/ (cancelled \/ closed) /\ Answer(FALSE) /\ UNCHANGED state
       \/ ~cancelled /\ ~closed /\ Publish(Project(snapshot)) /\ Answer(TRUE)
    /\ UNCHANGED <<newest, candidate, documents, queue, call, pass, attempt, cancelled, store,
                   git>>

\* Mistake: the swap does not look at the token again.
CommitLate ==
    /\ pc["attempt"] = "commit"
    /\ \/ closed /\ Answer(FALSE) /\ UNCHANGED state
       \/ /\ ~closed /\ snapshot # held["attempt"]
          /\ Goto("attempt", "reoffer")
          /\ UNCHANGED <<state, build, held>>
       \/ ~closed /\ snapshot = held["attempt"] /\ Publish(Project(snapshot)) /\ Answer(TRUE)
    /\ UNCHANGED <<newest, candidate, documents, queue, call, pass, attempt, cancelled, store,
                   git>>

\* ChangeToken::commit around the state mutex: the swap happens before a
\* cancellation or not at all.
Commit ==
    /\ pc["attempt"] = "commit"
    /\ \/ /\ cancelled \/ closed
          /\ Answer(FALSE)
          /\ UNCHANGED state
       \/ /\ ~cancelled /\ ~closed /\ snapshot # held["attempt"]
          /\ Goto("attempt", "reoffer")
          /\ UNCHANGED <<state, build, held>>
       \/ /\ ~cancelled /\ ~closed /\ snapshot = held["attempt"]
          /\ Publish(Project(held["attempt"]))
          /\ Answer(TRUE)
    /\ UNCHANGED <<newest, candidate, documents, queue, call, pass, attempt, cancelled, store,
                   git>>

\* The attempt goes on to publish another status.
Aim(goal) ==
    /\ attempt' = [attempt EXCEPT !.goal = goal]
    /\ Goto("attempt", "offer")

\* ChangeSource::classify pins its base and reports what it does; it may fail.
Classify ==
    /\ pc["attempt"] \in {"prepare", "prepared", "compare"}
    /\ \/ /\ Goto("attempt", "failed")
          /\ UNCHANGED attempt
       \/ /\ pc["attempt"] = "prepare" /\ Broken \notin {attempt.refs, refs}
          /\ \E goal \in {"preparing", "again"} :
               attempt' = [attempt EXCEPT !.base = refs, !.goal = goal]
          /\ Goto("attempt", "offer")
       \/ /\ pc["attempt"] = "prepared"
          /\ Aim("again")
       \/ /\ pc["attempt"] = "compare"
          /\ Goto("attempt", "check")
          /\ UNCHANGED attempt
    /\ UNCHANGED <<state, build, newest, candidate, documents, queue, call, held, pass,
                   cancelled, store, git>>

\* The result must still be that of its head and of its refs.
Check ==
    /\ pc["attempt"] = "check"
    /\ Goto("attempt", IF cancelled \/ ~Current(attempt.documents) THEN "ended"
                       ELSE IF ~Watching \/ refs = attempt.refs THEN "publish"
                       ELSE IF refs = Broken THEN "failed" ELSE "ended")
    /\ UNCHANGED <<state, build, newest, candidate, documents, queue, call, held, pass,
                   attempt, cancelled, store, git>>

\* ChangesPass::publish tries again while the store is full.
TryPublish ==
    /\ pc["attempt"] = "publish"
    /\ \/ /\ cancelled \/ ~Current(attempt.documents)
          /\ Goto("attempt", "ended")
          /\ UNCHANGED attempt
       \/ /\ ~cancelled /\ Current(attempt.documents) /\ room
          /\ Aim("ready")
    /\ UNCHANGED <<state, build, newest, candidate, documents, queue, call, held, pass,
                   cancelled, store, git>>

\* A failure that is not a cancellation makes Changes unavailable.
Fail ==
    /\ pc["attempt"] = "failed"
    /\ \/ /\ cancelled
          /\ Goto("attempt", "ended")
          /\ UNCHANGED attempt
       \/ /\ ~cancelled
          /\ Aim("unavailable")
    /\ UNCHANGED <<state, build, newest, candidate, documents, queue, call, held, pass,
                   cancelled, store, git>>

-----------------------------------------------------------------------------
(* The world around: Git, the store of comparisons, and the shutdown *)

MoveRefs ==
    /\ Cardinality(past) < MaxMoves /\ MayChange
    /\ \E to \in (Refs \cup {Broken}) \ {refs} :
         /\ ~RefsReturn => to \notin past
         /\ refs' = to
    /\ past' = past \cup {refs}
    /\ UNCHANGED <<state, build, pc, newest, candidate, documents, queue, call, held, pass,
                   attempt, cancelled, store>>

\* Retained generations expire: check_capacity collects them first.
MakeRoom ==
    /\ ~room /\ room' = TRUE
    /\ UNCHANGED <<state, build, pc, newest, candidate, documents, queue, call, held, pass,
                   attempt, cancelled, installed, git>>

Stop ==
    /\ pc["shutdown"] = "running"
    /\ Goto("shutdown", "candidates")
    /\ UNCHANGED <<state, build, newest, candidate, documents, queue, call, held, pass,
                   attempt, cancelled, store, git>>

\* ManualCandidates::stop_watcher.
EndCandidates ==
    /\ pc["shutdown"] = "candidates"
    /\ Goto("shutdown", "queue")
    /\ UNCHANGED <<state, build, newest, candidate, documents, queue, call, held, pass,
                   attempt, cancelled, store, git>>

\* CompletionQueue::close, after cancel_renders waited for the candidate.
CloseQueue ==
    /\ pc["shutdown"] = "queue" /\ pc["rebuild"] = "idle"
    /\ pending' = [closed |-> TRUE, origin |-> 0, routes |-> {}]
    /\ ready' = TRUE
    /\ Goto("shutdown", "fence")
    /\ UNCHANGED <<state, build, newest, candidate, documents, call, held, pass, attempt,
                   cancelled, store, git>>

\* SharedPublication::close: the flag first, then the build mutex once.
Close ==
    /\ pc["shutdown"] = "fence"
    /\ closed' = TRUE
    /\ leases' = leases \ {snapshot.revision}
    /\ Goto("shutdown", "builds")
    /\ UNCHANGED <<snapshot, build, newest, candidate, documents, queue, call, held, pass,
                   attempt, cancelled, store, git>>

\* Mistake: close returns with a build under way.
AwaitNothing ==
    /\ pc["shutdown"] = "builds"
    /\ Goto("shutdown", "task")
    /\ UNCHANGED <<state, build, newest, candidate, documents, queue, call, held, pass,
                   attempt, cancelled, store, git>>

AwaitBuilds ==
    /\ pc["shutdown"] = "builds" /\ build = Free
    /\ Goto("shutdown", "task")
    /\ UNCHANGED <<state, build, newest, candidate, documents, queue, call, held, pass,
                   attempt, cancelled, store, git>>

AwaitTask ==
    /\ pc["shutdown"] = "task" /\ pc["queue"] = "ended"
    /\ Goto("shutdown", "done")
    /\ UNCHANGED <<state, build, newest, candidate, documents, queue, call, held, pass,
                   attempt, cancelled, store, git>>

-----------------------------------------------------------------------------
Rebuild == CheckActive \/ Replace \/ Restamp

RendersEnd == \E d \in 1..MaxHeads, r \in Routes : EndRender(d, r)

Completing(c) == Enter(c) \/ Gather(c) \/ Read(c) \/ Record(c)

Queue == TakeBatch \/ Completing("queue")

Pass ==
    \/ Look \/ (\E r \in Routes : Background(r)) \/ Filled \/ Completing("pass") \/ Recorded
    \/ Watch \/ Drain \/ Settled

Attempt == Offer \/ Install \/ Commit \/ Classify \/ Check \/ TryPublish \/ Fail

Shutdown == EndCandidates \/ CloseQueue \/ Close \/ AwaitBuilds \/ AwaitTask

Next ==
    \/ Prepare \/ Rebuild
    \/ \E r \in Routes : StartRender(r) \/ \E d \in 1..MaxHeads : Completed(d, r)
    \/ RendersEnd
    \/ Queue \/ Pass \/ Attempt
    \/ MoveRefs \/ MakeRoom
    \/ Stop \/ Shutdown

Spec == Init /\ [][Next]_vars

\* The tasks run and renders end.  Nothing makes a source change, a client come,
\* Git move or the server stop.  Expired generations free the store.
Fairness ==
    /\ WF_vars(Rebuild) /\ WF_vars(RendersEnd) /\ WF_vars(Queue)
    /\ WF_vars(Pass) /\ WF_vars(Attempt) /\ WF_vars(MakeRoom) /\ WF_vars(Shutdown)

FairSpec == Spec /\ Fairness

-----------------------------------------------------------------------------
(* Properties *)

Heads == 1..MaxHeads

Statuses == {"pending", "preparing", "ready", "unavailable"}

Snapshots ==
    [revision : Nat, documents : Heads, completed : SUBSET Routes, status : Statuses,
     changes : {NoChanges} \cup
               [attempt : Nat, documents : Heads, base : Refs, refs : Refs]]

\* Who acts, and where each may be.
Phases ==
    [rebuild : {"idle", "check", "replace", "restamp"},
     queue : {"wait", "enter", "gather", "read", "record", "ended"},
     pass : {"look", "fill", "enter", "gather", "read", "record", "recorded", "watch",
             "drain", "settled", "ended"},
     attempt : {"offer", "install", "commit", "reoffer", "prepare", "prepared", "compare",
                "check", "publish", "failed", "ended"},
     shutdown : {"running", "candidates", "queue", "fence", "builds", "task", "done"}]

\* Types, and that the build mutex is with the one that thinks so.
TypeOK ==
    /\ snapshot \in Snapshots /\ candidate \in Snapshots
    /\ pc \in Phases
    /\ closed \in BOOLEAN
    /\ leases \subseteq Nat
    /\ build \in Recorders \cup {"attempt", Free}
    /\ build = "queue" <=> pc["queue"] \in Calling
    /\ build = "pass" <=> pc["pass"] \in Calling
    /\ build = "attempt" <=> pc["attempt"] \in {"install", "commit", "reoffer"}
    /\ newest \in Heads
    /\ usage \in [Heads -> SUBSET Routes] /\ rendering \subseteq Heads \X Routes
    /\ pending \in [closed : BOOLEAN, origin : 0..MaxHeads, routes : SUBSET Routes]
    /\ ready \in BOOLEAN
    /\ call \in [Recorders ->
                 [origin : Heads, todo : SUBSET Routes, updates : SUBSET Routes]]
    /\ held \in [Recorders \cup {"attempt"} -> Snapshots]
    /\ origin \in Heads
    /\ queued \in Refs \cup {Broken}
    /\ attempt \in [id : Nat, documents : Heads, refs : Refs \cup {Broken},
                    base : Refs \cup {Broken},
                    goal : {"first", "again", "preparing", "ready", "unavailable"}]
    /\ cancelled \in BOOLEAN /\ room \in BOOLEAN
    /\ installed \subseteq Nat
    /\ refs \in Refs \cup {Broken} /\ past \subseteq Refs \cup {Broken}

\* "Atomically install only the next revision of this process" (publication.rs:109):
\* whoever writes, readers see one revision after the other, heads only move
\* forward, no completion of a head is lost, and live work is admitted under the
\* newest revision alone, under none once closed.
Register == INSTANCE PublishedRevisions WITH
    revision <- snapshot.revision, documents <- snapshot.documents,
    completed <- snapshot.completed, admitted <- leases

RegisterSpec == Register!Spec

\* A classification is shown while Changes is ready, and then it is the one made
\* for the head it is shown with, against the refs it was checked against, with
\* its metadata in the store.
ShownWithItsHead ==
    /\ snapshot.status = "ready" <=> snapshot.changes # NoChanges
    /\ snapshot.changes # NoChanges =>
         /\ snapshot.changes.documents = snapshot.documents
         /\ snapshot.changes.attempt \in installed
         /\ Watching /\ ~RefsReturn => snapshot.changes.base = snapshot.changes.refs

\* Whoever cancels an attempt may rely on its silence (ChangeToken::commit): a
\* commit is over when cancel returns, or never happens.
CancelledStaysOut ==
    [][/\ cancelled
       /\ snapshot'.documents = snapshot.documents
       => /\ snapshot'.status = snapshot.status
          /\ snapshot'.changes = snapshot.changes]_vars

\* After close returned, no build that began before publishes or installs metadata:
\* the task of the queue and the store are torn down next.
FencedWhenClosed ==
    [][pc["shutdown"] \in {"task", "done"} => UNCHANGED <<snapshot, leases, installed>>]_vars

\* What was queued, and the close of the queue, wake its task when it waits.
QueueNoticed ==
    pc["queue"] = "wait" /\ (pending.origin # 0 \/ pending.closed) => ready

\* A head that is not replaced gets the usage of all its routes, and its Changes
\* come to an end when the refs rest: "pending while the base side renders
\* and the comparison runs; then ready or unavailable"
\* (docs/protocol/mokly-changes.md:113).  A server that stops does so to the end.
HeadsSettle ==
    \A d \in Heads :
        Current(d) ~> \/ /\ Routes \subseteq snapshot.completed
                         /\ snapshot.status \in {"ready", "unavailable"}
                      \/ ~Current(d)
                      \/ pc["shutdown"] = "done"
=============================================================================
