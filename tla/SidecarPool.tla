----------------------------- MODULE SidecarPool -----------------------------
(***************************************************************************)
(* The bounded pool of Node sidecar processes of crates/mokly-sidecar.     *)
(*                                                                         *)
(* Callers queue for a slot, start its process when it has none, exchange  *)
(* one request with it and give the slot back; a release thread disposes   *)
(* what idle processes need no more; and the command may cancel, shut down *)
(* or abort the pool at any moment.  All of them share one mutex (a step   *)
(* here is one critical section, or one call made without the lock) and    *)
(* one condition variable.                                                 *)
(*                                                                         *)
(* What a process has loaded is reduced to its PostCSS contexts, the part  *)
(* that decides where a request may run; the life of a bundle generation   *)
(* is the subject of module Generations.  Tickets are compared and nothing *)
(* else, so the queue is a sequence in ticket order.                       *)
(***************************************************************************)
EXTENDS Naturals, Sequences, FiniteSets

CONSTANTS
    Callers,       \* threads that call SidecarPool::request
    Contexts,      \* PostCSS context ids; the runtime never reuses one
    Roots,         \* source roots, one worker serves one of them
    ContextRoot,   \* the source root of the side that owns a context
    Limit,         \* PoolOptions::size
    Pids,          \* names for processes, enough that one is always unused
    Stoppers,      \* the stop calls an instance makes, each at most once
    NoContext, NoWorker, NoPid, NoSlot, NoCall,
    KillMayFail    \* whether the platform may refuse to kill a process group

ASSUME PoolAssumption ==
    /\ Limit \in Nat \ {0}
    /\ ContextRoot \in [Contexts -> Roots]
    /\ NoContext \notin Contexts
    /\ NoPid \notin Pids
    /\ NoSlot \notin Nat
    /\ KillMayFail \in BOOLEAN
    /\ Stoppers \subseteq {"cancel", "shutdown", "abort"}
    /\ NoCall \notin [context : Contexts \cup {NoContext}, root : Roots]
    /\ NoWorker \notin [pid : Pids, root : Roots, contexts : SUBSET Contexts]

Slots == 1..Limit

\* A resident worker: its process, the directory it runs in, what it has loaded.
Worker == [pid : Pids, root : Roots, contexts : SUBSET Contexts]

\* A request without a context stands for every call that names a generation.
Call == {c \in [context : Contexts \cup {NoContext}, root : Roots] :
            c.context # NoContext => c.root = ContextRoot[c.context]}

VARIABLES
    stopped, opened, slots, available, controls, contexts, affinity,  \* State
    waiting,   \* callers in the order of their tickets
    asleep,    \* callers blocked in Condvar::wait
    pc, call, held, worker, retried,      \* each caller's frame
    cleanerPc, cleanerTodo, cleanerAt, cleanerHolds, cleanerAgain,
    notices,   \* Notice::Work messages not yet received
    stopPc, stopTodo,    \* the stop calls and the processes each must end
    alive,     \* processes that run
    lease      \* ContextLease of each context: unused, live or dropped

shared  == <<stopped, opened, slots, available, controls, contexts, affinity>>
queue   == <<waiting, asleep>>
frame   == <<pc, call, held, worker, retried>>
cleaner == <<cleanerPc, cleanerTodo, cleanerAt, cleanerHolds, cleanerAgain>>
stop    == <<stopPc, stopTodo>>
vars    == <<shared, queue, frame, cleaner, notices, stop, alive, lease>>

-----------------------------------------------------------------------------
(* Derived state *)

\* pool_cleanup::pending: a worker holds a context that was released.
Pending(w) == w # NoWorker /\ ~(w.contexts \subseteq contexts)

\* Worker after pool_cleanup::cleanup disposed the contexts nobody owns.
Cleaned(w) == [w EXCEPT !.contexts = @ \cap contexts]

\* A cleaned worker on which a request uses context c, if it has one.
Loaded(w, c) == [w EXCEPT !.contexts = (@ \cap contexts) \cup ({c} \ {NoContext})]

\* Processes some part of the program still holds a control of.  The last
\* control of a process kills it when it drops (ProcessControl::drop), so a
\* step that drops controls ends with alive' = alive \cap Referenced'.
Referenced ==
    {p \in Pids : \/ \E i \in Slots : \/ controls[i] = p
                                      \/ slots[i] # NoWorker /\ slots[i].pid = p
                                      \/ cleanerHolds[i] # NoWorker /\ cleanerHolds[i].pid = p
                  \/ \E t \in Callers : worker[t] # NoWorker /\ worker[t].pid = p
                  \/ \E s \in Stoppers : p \in stopTodo[s]}

\* Mistake: affinity is recorded but never asked for.
ClaimedNever(c) == FALSE

\* The context has a slot of its own (State::affinity).
Claimed(c) == c # NoContext /\ affinity[c] # NoSlot

\* pool_affinity::runnable for the context of caller t's request.
Runnable(t) ==
    LET c == call[t].context IN
    IF Claimed(c) THEN affinity[c] \in available ELSE available # {} \/ opened < Limit

\* In queue q, caller t has the lowest ticket of those that can use a slot.
IsFirst(q, t) ==
    \E n \in 1..Len(q) : /\ q[n] = t
                         /\ Runnable(t)
                         /\ \A m \in 1..(n - 1) : ~Runnable(q[m])

IsIn(q, t) == \E n \in 1..Len(q) : q[n] = t

\* Queue q after caller t left it.
Without(q, t) ==
    LET n == CHOOSE m \in 1..Len(q) : q[m] = t
    IN  [k \in 1..(Len(q) - 1) |-> IF k < n THEN q[k] ELSE q[k + 1]]

\* Mistake: off by one, a new slot gets the index of the last one.
UnopenedAgain == IF opened = 0 THEN {1} ELSE IF opened < Limit THEN {opened} ELSE {}

\* A slot the pool has not opened yet.
Unopened == IF opened < Limit THEN {opened + 1} ELSE {}

\* pool_affinity::acquire: the slots it may take for a request.
Choices(request) ==
    LET matching  == {i \in available : slots[i] # NoWorker /\ slots[i].root = request.root}
        unspawned == {i \in available : slots[i] = NoWorker}
    IN  IF Claimed(request.context) THEN available \cap {affinity[request.context]}
        ELSE IF matching # {}  THEN matching
        ELSE IF unspawned # {} THEN unspawned
        ELSE IF Unopened # {}  THEN Unopened
        ELSE available

\* Mistake: forget_other_roots without its notify_all.
ForgetOtherRootsSilently(i, root) ==
    /\ affinity' = [c \in Contexts |-> IF affinity[c] = i /\ ContextRoot[c] # root
                                       THEN NoSlot ELSE affinity[c]]
    /\ UNCHANGED asleep

\* pool_sources::forget_other_roots, which ends with notify_all.
ForgetOtherRoots(i, root) ==
    /\ affinity' = [c \in Contexts |-> IF affinity[c] = i /\ ContextRoot[c] # root
                                       THEN NoSlot ELSE affinity[c]]
    /\ asleep' = {}

\* release and clean_idle keep no worker after a stop.
Kept(w) == IF stopped THEN NoWorker ELSE w

\* Mistake: a returning slot is not rechecked for releases.
LeftOverIgnored(w) == FALSE

\* What came back to the pool still has something released loaded.
LeftOver(w) == Pending(Kept(w))

-----------------------------------------------------------------------------
Init ==
    /\ stopped = FALSE /\ opened = 0 /\ available = {} /\ contexts = {}
    /\ slots = [i \in Slots |-> NoWorker]
    /\ controls = [i \in Slots |-> NoPid]
    /\ affinity = [c \in Contexts |-> NoSlot]
    /\ waiting = <<>> /\ asleep = {}
    /\ pc = [t \in Callers |-> "idle"]
    /\ call = [t \in Callers |-> NoCall]
    /\ held = [t \in Callers |-> NoSlot]
    /\ worker = [t \in Callers |-> NoWorker]
    /\ retried = [t \in Callers |-> FALSE]
    /\ cleanerPc = "idle" /\ cleanerTodo = {} /\ cleanerAt = NoSlot
    /\ cleanerHolds = [i \in Slots |-> NoWorker] /\ cleanerAgain = FALSE
    /\ notices = 0
    /\ stopPc = [s \in Stoppers |-> "ready"]
    /\ stopTodo = [s \in Stoppers |-> {}]
    /\ alive = {}
    /\ lease = [c \in Contexts |-> "unused"]

Goto(t, where) == pc' = [pc EXCEPT ![t] = where]

-----------------------------------------------------------------------------
(* A caller: SidecarPool::request *)

\* The caller's own duties: a context is used by one request at a time (the
\* runtime's Turns) and by none after its lease dropped.
InUse(c) == \E t \in Callers : call[t] # NoCall /\ call[t].context = c

MayUse(c) == c # NoContext => lease[c] \in {"unused", "live"} /\ ~InUse(c)

\* The request begins: source_root reads the state once, before the queue.
Request(t) ==
    /\ pc[t] = "idle"
    /\ \E request \in Call :
         /\ MayUse(request.context)
         /\ call' = [call EXCEPT ![t] = request]
         /\ lease' = [c \in Contexts |-> IF c = request.context THEN "live" ELSE lease[c]]
    /\ Goto(t, "arriving")
    /\ UNCHANGED <<shared, queue, held, worker, retried, cleaner, notices, stop, alive>>

\* One turn of the loop of Pool::acquire for caller t in queue q, with the
\* other callers in sleepers asleep: give up after a stop, take a slot when t
\* is first and wake everyone, or wait.
AcquireTurn(t, q, sleepers) ==
    \/ /\ stopped
       /\ waiting' = Without(q, t)
       /\ asleep' = sleepers
       /\ call' = [call EXCEPT ![t] = NoCall]
       /\ Goto(t, "idle")
       /\ UNCHANGED <<shared, held, worker>>
    \/ /\ ~stopped /\ IsFirst(q, t)
       /\ \E i \in Choices(call[t]) :
            /\ available' = available \ {i}
            /\ opened' = IF i > opened THEN i ELSE opened
            /\ affinity' = [c \in Contexts |-> IF c = call[t].context THEN i ELSE affinity[c]]
            /\ worker' = [worker EXCEPT ![t] = slots[i]]
            /\ slots' = [slots EXCEPT ![i] = NoWorker]
            /\ held' = [held EXCEPT ![t] = i]
       /\ waiting' = Without(q, t)
       /\ asleep' = {}
       /\ Goto(t, "isolate")
       /\ UNCHANGED <<stopped, controls, contexts, call>>
    \/ /\ ~stopped /\ ~IsFirst(q, t)
       /\ waiting' = q
       /\ asleep' = sleepers \cup {t}
       /\ Goto(t, "queued")
       /\ UNCHANGED <<shared, call, held, worker>>

\* Pool::acquire takes a ticket, wakes everyone and takes its first turn.
Enqueue(t) ==
    /\ pc[t] = "arriving"
    /\ AcquireTurn(t, Append(waiting, t), {})
    /\ UNCHANGED <<retried, cleaner, notices, stop, alive, lease>>

\* A caller that was woken takes its next turn.
Retry(t) ==
    /\ pc[t] = "queued" /\ t \notin asleep
    /\ AcquireTurn(t, waiting, asleep)
    /\ UNCHANGED <<retried, cleaner, notices, stop, alive, lease>>

\* Mistake: a worker of any source root is reused.
IsolateNever(t) ==
    /\ pc[t] = "isolate"
    /\ Goto(t, "attempt")
    /\ UNCHANGED <<shared, queue, call, held, worker, retried, cleaner, notices, stop,
                   alive, lease>>

\* pool_sources::isolate: a worker of another source root is killed, and the
\* contexts of other roots lose their claim on the slot.
Isolate(t) ==
    LET foreign == worker[t] # NoWorker /\ worker[t].root # call[t].root IN
    /\ pc[t] = "isolate"
    /\ \/ /\ foreign
          /\ alive' = alive \ {worker[t].pid}
          /\ worker' = [worker EXCEPT ![t] = NoWorker]
          /\ ForgetOtherRoots(held[t], call[t].root)
          /\ Goto(t, "attempt")
       \/ /\ foreign /\ KillMayFail
          /\ Goto(t, "tidy")
          /\ UNCHANGED <<worker, alive, affinity, asleep>>
       \/ /\ ~foreign
          /\ Goto(t, "attempt")
          /\ UNCHANGED <<worker, alive, affinity, asleep>>
    /\ UNCHANGED <<stopped, opened, slots, available, controls, contexts, waiting,
                   call, held, retried, cleaner, notices, stop, lease>>

\* Mistake: the worker is forgotten but not killed.
AbandonUnkilled(t, why) ==
    /\ worker' = [worker EXCEPT ![t] = NoWorker]
    /\ IF why = "crashed" /\ ~retried[t]
       THEN retried' = [retried EXCEPT ![t] = TRUE] /\ Goto(t, "attempt")
       ELSE UNCHANGED retried /\ Goto(t, "recycle")
    /\ UNCHANGED alive

\* The attempt ends without a worker, or with one that is not reusable: it is
\* killed.  A crash or a timeout of the first attempt is tried once more.  A
\* kill that fails ends the request; the control of the process stays in
\* controls until the slot is released.
Abandon(t, why) ==
    /\ worker' = [worker EXCEPT ![t] = NoWorker]
    /\ \/ /\ alive' = IF worker[t] = NoWorker THEN alive ELSE alive \ {worker[t].pid}
          /\ IF why = "crashed" /\ ~retried[t]
             THEN retried' = [retried EXCEPT ![t] = TRUE] /\ Goto(t, "attempt")
             ELSE UNCHANGED retried /\ Goto(t, "recycle")
       \/ /\ KillMayFail /\ worker[t] # NoWorker
          /\ Goto(t, "recycle")
          /\ UNCHANGED <<alive, retried>>

\* The head of an attempt, and the part of Pool::spawn before the factory.
Attempt(t) ==
    /\ pc[t] = "attempt"
    /\ \/ /\ stopped
          /\ Goto(t, "recycle")
          /\ UNCHANGED <<affinity, asleep>>
       \/ /\ ~stopped /\ worker[t] # NoWorker
          /\ Goto(t, "execute")
          /\ UNCHANGED <<affinity, asleep>>
       \/ /\ ~stopped /\ worker[t] = NoWorker
          /\ ForgetOtherRoots(held[t], call[t].root)
          /\ Goto(t, "launch")
    /\ UNCHANGED <<stopped, opened, slots, available, controls, contexts, waiting,
                   call, held, worker, retried, cleaner, notices, stop, alive, lease>>

\* WorkerFactory::spawn, called without the lock.
Launch(t) ==
    /\ pc[t] = "launch"
    /\ \/ \E p \in Pids \ (Referenced \cup alive) :
            /\ worker' = [worker EXCEPT ![t] = [pid |-> p, root |-> call[t].root, contexts |-> {}]]
            /\ alive' = alive \cup {p}
            /\ Goto(t, "register")
            /\ UNCHANGED retried
       \/ \E why \in {"crashed", "failed"} : Abandon(t, why)
    /\ UNCHANGED <<shared, queue, call, held, cleaner, notices, stop, lease>>

\* Pool::spawn publishes the control, unless the pool stopped meanwhile.
Register(t) ==
    /\ pc[t] = "register"
    /\ \/ /\ stopped
          /\ worker' = [worker EXCEPT ![t] = NoWorker]
          /\ alive' = alive \ {worker[t].pid}
          /\ Goto(t, "recycle")
          /\ UNCHANGED controls
       \/ /\ ~stopped
          /\ controls' = [controls EXCEPT ![held[t]] = worker[t].pid]
          /\ Goto(t, "handshake")
          /\ UNCHANGED <<worker, alive>>
    /\ UNCHANGED <<stopped, opened, slots, available, contexts, affinity, queue,
                   call, held, retried, cleaner, notices, stop, lease>>

\* hello: the process answers with its version, or fails and is killed.
Handshake(t) ==
    /\ pc[t] = "handshake"
    /\ \/ /\ worker[t].pid \in alive
          /\ Goto(t, "execute")
          /\ UNCHANGED <<worker, retried, alive>>
       \/ \E why \in {"crashed", "failed"} : Abandon(t, why)
    /\ UNCHANGED <<shared, queue, call, held, cleaner, notices, stop, lease>>

\* Pool::execute up to the exchange: dispose what was released, look at stopped
\* again, and note the context on both sides.
Execute(t) ==
    LET c == call[t].context IN
    /\ pc[t] = "execute"
    /\ \/ /\ stopped
          /\ Abandon(t, "cancelled")
          /\ UNCHANGED contexts
       \/ /\ ~stopped
          /\ Pending(worker[t]) => worker[t].pid \in alive
          /\ contexts' = contexts \cup ({c} \ {NoContext})
          /\ worker' = [worker EXCEPT ![t] = Loaded(@, c)]
          /\ Goto(t, "inflight")
          /\ UNCHANGED <<retried, alive>>
       \/ /\ ~stopped /\ Pending(worker[t])
          /\ \E why \in {"crashed", "failed"} : Abandon(t, why)
          /\ UNCHANGED contexts
    /\ UNCHANGED <<stopped, opened, slots, available, controls, affinity, queue,
                   call, held, cleaner, notices, stop, lease>>

\* The process answers, reports an error it survives, breaks the protocol,
\* crashes or misses its deadline; after a stop even an answer costs the worker.
\* (It notes the context again, which nothing removed since Execute.)
Respond(t) ==
    /\ pc[t] = "inflight"
    /\ \/ /\ worker[t].pid \in alive
          /\ Goto(t, "recycle")
          /\ UNCHANGED <<worker, retried, alive>>
       \/ /\ stopped
          /\ Abandon(t, "cancelled")
       \/ \E why \in {"crashed", "failed"} : Abandon(t, why)
    /\ UNCHANGED <<shared, queue, call, held, cleaner, notices, stop, lease>>

\* pool_recycle::recycle may drain and end a worker that served enough; then
\* the request looks at stopped for the last time.
Recycle(t) ==
    /\ pc[t] = "recycle"
    /\ \/ UNCHANGED <<worker, alive>>
       \/ /\ worker[t] # NoWorker
          /\ alive' = alive \ {worker[t].pid}
          /\ worker' = [worker EXCEPT ![t] = NoWorker]
    /\ Goto(t, "tidy")
    /\ UNCHANGED <<shared, queue, call, held, retried, cleaner, notices, stop, lease>>

\* Pool::release, first part: cleanup, where an error costs the worker.
Tidy(t) ==
    /\ pc[t] = "tidy"
    /\ \/ /\ stopped \/ ~Pending(worker[t])
          /\ UNCHANGED <<worker, alive>>
       \/ /\ ~stopped /\ Pending(worker[t]) /\ worker[t].pid \in alive
          /\ worker' = [worker EXCEPT ![t] = Cleaned(@)]
          /\ UNCHANGED alive
       \/ /\ ~stopped /\ Pending(worker[t])
          /\ worker' = [worker EXCEPT ![t] = NoWorker]
          /\ alive' = alive \ {worker[t].pid}
    /\ Goto(t, "putback")
    /\ UNCHANGED <<shared, queue, call, held, retried, cleaner, notices, stop, lease>>

\* Mistake: a returned slot wakes nobody.
ReturnSilently(i, w) ==
    /\ slots' = [slots EXCEPT ![i] = Kept(w)]
    /\ controls' = IF Kept(w) = NoWorker THEN [controls EXCEPT ![i] = NoPid] ELSE controls
    /\ available' = available \cup {i}
    /\ UNCHANGED <<stopped, opened, contexts, affinity, waiting, asleep>>

\* Mistake: a returned slot forgets its control though it keeps its process.
ReturnUnregistered(i, w) ==
    /\ slots' = [slots EXCEPT ![i] = Kept(w)]
    /\ controls' = [controls EXCEPT ![i] = NoPid]
    /\ available' = available \cup {i}
    /\ asleep' = {}
    /\ UNCHANGED <<stopped, opened, contexts, affinity, waiting>>

\* Slot i goes back to the pool with worker w; an empty slot has no control.
Return(i, w) ==
    /\ slots' = [slots EXCEPT ![i] = Kept(w)]
    /\ controls' = IF Kept(w) = NoWorker THEN [controls EXCEPT ![i] = NoPid] ELSE controls
    /\ available' = available \cup {i}
    /\ asleep' = {}
    /\ UNCHANGED <<stopped, opened, contexts, affinity, waiting>>

\* Pool::release, second part, and the end of the request.
PutBack(t) ==
    /\ pc[t] = "putback"
    /\ Return(held[t], worker[t])
    /\ notices' = IF LeftOver(worker[t]) THEN notices + 1 ELSE notices
    /\ worker' = [worker EXCEPT ![t] = NoWorker]
    /\ held' = [held EXCEPT ![t] = NoSlot]
    /\ retried' = [retried EXCEPT ![t] = FALSE]
    /\ call' = [call EXCEPT ![t] = NoCall]
    /\ Goto(t, "idle")
    /\ UNCHANGED <<cleaner, stop, lease>>
    /\ alive' = alive \cap Referenced'

CallerStep(t) ==
    \/ Enqueue(t) \/ Retry(t) \/ Isolate(t) \/ Attempt(t) \/ Launch(t) \/ Register(t)
    \/ Handshake(t) \/ Execute(t) \/ Respond(t) \/ Recycle(t) \/ Tidy(t) \/ PutBack(t)

-----------------------------------------------------------------------------
(* The last lease of a context drops: record_release, then the notice *)

\* Only a request that is over can have been the last to use the context.
RecordRelease(c) ==
    /\ lease[c] = "live"
    /\ ~InUse(c)
    /\ lease' = [lease EXCEPT ![c] = "recorded"]
    /\ contexts' = contexts \ {c}
    /\ affinity' = [affinity EXCEPT ![c] = NoSlot]
    /\ asleep' = {}
    /\ UNCHANGED <<stopped, opened, slots, available, controls, waiting,
                   frame, cleaner, notices, stop, alive>>

NotifyRelease(c) ==
    /\ lease[c] = "recorded"
    /\ lease' = [lease EXCEPT ![c] = "dropped"]
    /\ notices' = notices + 1
    /\ UNCHANGED <<shared, queue, frame, cleaner, stop, alive>>

-----------------------------------------------------------------------------
(* The release thread: start_releases and clean_idle *)

Receive ==
    /\ cleanerPc = "idle" /\ notices > 0
    /\ notices' = notices - 1
    /\ cleanerPc' = "scan"
    /\ UNCHANGED <<shared, queue, frame, cleanerTodo, cleanerAt, cleanerHolds,
                   cleanerAgain, stop, alive, lease>>

\* clean_idle takes every idle slot with released state out of the pool.
Scan ==
    LET stale == {i \in available : Pending(slots[i])} IN
    /\ cleanerPc = "scan"
    /\ cleanerAgain' = FALSE
    /\ \/ /\ stopped \/ stale = {}
          /\ cleanerPc' = "idle"
          /\ UNCHANGED <<available, slots, cleanerTodo, cleanerHolds>>
       \/ /\ ~stopped /\ stale # {}
          /\ cleanerPc' = "pick"
          /\ cleanerTodo' = stale
          /\ cleanerHolds' = [i \in Slots |-> IF i \in stale THEN slots[i] ELSE NoWorker]
          /\ slots' = [i \in Slots |-> IF i \in stale THEN NoWorker ELSE slots[i]]
          /\ available' = available \ stale
    /\ UNCHANGED <<stopped, opened, controls, contexts, affinity, queue, frame,
                   cleanerAt, notices, stop, alive, lease>>

\* cleanup of the next slot.  It does nothing after a stop; a failure costs the
\* worker.
Dispose(i) ==
    /\ cleanerPc = "pick" /\ i \in cleanerTodo
    /\ cleanerPc' = "return"
    /\ cleanerAt' = i
    /\ \/ /\ stopped
          /\ UNCHANGED <<cleanerHolds, alive>>
       \/ /\ ~stopped /\ cleanerHolds[i].pid \in alive
          /\ cleanerHolds' = [cleanerHolds EXCEPT ![i] = Cleaned(@)]
          /\ UNCHANGED alive
       \/ /\ ~stopped
          /\ cleanerHolds' = [cleanerHolds EXCEPT ![i] = NoWorker]
          /\ alive' = alive \ {cleanerHolds[i].pid}
    /\ UNCHANGED <<shared, queue, frame, cleanerTodo, cleanerAgain, notices, stop, lease>>

\* The slot is idle again.  When a release came meanwhile the thread scans once
\* more; a cleanup that did nothing was stopped, and leaves nothing pending.
GiveBack ==
    LET w     == cleanerHolds[cleanerAt]
        again == cleanerAgain \/ LeftOver(w)
        left  == cleanerTodo \ {cleanerAt}
    IN  /\ cleanerPc = "return"
        /\ Return(cleanerAt, w)
        /\ cleanerHolds' = [cleanerHolds EXCEPT ![cleanerAt] = NoWorker]
        /\ cleanerTodo' = left
        /\ cleanerAt' = NoSlot
        /\ cleanerAgain' = again
        /\ cleanerPc' = IF left # {} THEN "pick" ELSE IF again THEN "scan" ELSE "idle"
        /\ UNCHANGED <<frame, notices, stop, lease>>
        /\ alive' = alive \cap Referenced'

CleanerStep == Receive \/ Scan \/ (\E i \in Slots : Dispose(i)) \/ GiveBack

-----------------------------------------------------------------------------
(* cancel_requests, shutdown and abort, each called at most once *)

\* Mistake: every stop call ends the busy processes only.
CollectedBusy(s) == {i \in Slots : controls[i] # NoPid /\ slots[i] = NoWorker}

\* cancel_busy takes over the controls of the slots that are in use; stop
\* collects every control and leaves it registered.
Collected(s) == {i \in Slots : controls[i] # NoPid /\ (s = "cancel" => slots[i] = NoWorker)}

Begin(s) ==
    /\ stopPc[s] = "ready"
    /\ stopped' = TRUE
    /\ stopTodo' = [stopTodo EXCEPT ![s] = {controls[i] : i \in Collected(s)}]
    /\ controls' = [i \in Slots |-> IF s = "cancel" /\ i \in Collected(s) THEN NoPid ELSE controls[i]]
    /\ asleep' = {}
    /\ stopPc' = [stopPc EXCEPT ![s] = "ending"]
    /\ UNCHANGED <<opened, slots, available, contexts, affinity, waiting,
                   frame, cleaner, notices, alive, lease>>

\* One process is killed or drained; a kill that fails is reported at the end.
\* (In stop its control goes on living in controls.)
EndOne(s) ==
    /\ stopPc[s] \in {"ending", "failing"}
    /\ \E p \in stopTodo[s] :
         /\ stopTodo' = [stopTodo EXCEPT ![s] = @ \ {p}]
         /\ UNCHANGED <<shared, queue, frame, cleaner, notices, lease>>
         /\ \/ /\ alive' = alive \ {p}
               /\ UNCHANGED stopPc
            \/ /\ KillMayFail
               /\ stopPc' = [stopPc EXCEPT ![s] = "failing"]
               /\ alive' = alive \cap Referenced'

Finish(s) ==
    /\ stopPc[s] \in {"ending", "failing"} /\ stopTodo[s] = {}
    /\ stopPc' = [stopPc EXCEPT ![s] = IF @ = "ending" THEN "done" ELSE "failed"]
    /\ UNCHANGED <<shared, queue, frame, cleaner, notices, stopTodo, alive, lease>>

StopStep(s) == EndOne(s) \/ Finish(s)

-----------------------------------------------------------------------------
Next ==
    \/ \E t \in Callers : Request(t) \/ CallerStep(t)
    \/ \E c \in Contexts : RecordRelease(c) \/ NotifyRelease(c)
    \/ CleanerStep
    \/ \E s \in Stoppers : Begin(s) \/ StopStep(s)

\* Every thread that is running goes on running, and every exchange with a
\* process ends by its deadline.  No request, release or stop has to begin.
Fairness ==
    /\ \A t \in Callers : WF_vars(CallerStep(t))
    /\ \A c \in Contexts : WF_vars(NotifyRelease(c))
    /\ WF_vars(CleanerStep)
    /\ \A s \in Stoppers : WF_vars(StopStep(s))

Spec == Init /\ [][Next]_vars

FairSpec == Spec /\ Fairness

-----------------------------------------------------------------------------
(* Properties *)

\* The phases of a request that holds a slot.
Serving == {"isolate", "attempt", "launch", "register", "handshake", "execute",
            "inflight", "recycle", "tidy", "putback"}

WorkerOrNone == Worker \cup {NoWorker}

Types ==
    /\ stopped \in BOOLEAN /\ opened \in 0..Limit
    /\ slots \in [Slots -> WorkerOrNone]
    /\ available \in SUBSET (1..opened)
    /\ controls \in [Slots -> Pids \cup {NoPid}]
    /\ contexts \in SUBSET Contexts
    /\ affinity \in [Contexts -> Slots \cup {NoSlot}]
    /\ waiting \in Seq(Callers) /\ asleep \in SUBSET Callers
    /\ pc \in [Callers -> {"idle", "arriving", "queued", "isolate", "attempt", "launch",
                           "register", "handshake", "execute", "inflight", "recycle",
                           "tidy", "putback"}]
    /\ call \in [Callers -> Call \cup {NoCall}]
    /\ held \in [Callers -> Slots \cup {NoSlot}]
    /\ worker \in [Callers -> WorkerOrNone]
    /\ retried \in [Callers -> BOOLEAN]
    /\ cleanerPc \in {"idle", "scan", "pick", "return"}
    /\ cleanerTodo \in SUBSET Slots /\ cleanerAt \in Slots \cup {NoSlot}
    /\ cleanerHolds \in [Slots -> WorkerOrNone] /\ cleanerAgain \in BOOLEAN
    /\ notices \in Nat
    /\ stopPc \in [Stoppers -> {"ready", "ending", "failing", "done", "failed"}]
    /\ stopTodo \in [Stoppers -> SUBSET Pids]
    /\ alive \in SUBSET Pids
    /\ lease \in [Contexts -> {"unused", "live", "recorded", "dropped"}]

\* What the phase of a caller says about its frame and the queue.
Phases ==
    \A t \in Callers :
        /\ pc[t] = "idle" <=> call[t] = NoCall
        /\ pc[t] = "queued" <=> IsIn(waiting, t)
        /\ pc[t] \in Serving <=> held[t] # NoSlot
        /\ pc[t] \in {"register", "handshake", "execute", "inflight"} => worker[t] # NoWorker

\* Every variable has its type, a caller holds a slot exactly while it is served,
\* and is in the queue exactly while it waits: no early return of acquire leaves
\* a ticket behind.
TypeOK == Types /\ Phases

\* Every slot that was opened is in exactly one place: in the pool, with one
\* caller, or with the release thread.  acquire, release and clean_idle hand
\* slots over by index, so an index lost or pushed twice in any interleaving
\* would shrink the pool or give one process to two callers.
SlotOwnership ==
    \A i \in Slots :
        LET holders == {t \in Callers : held[t] = i} IN
        /\ i \in available => holders = {} /\ i \notin cleanerTodo
        /\ i \in cleanerTodo => holders = {}
        /\ \A t, u \in holders : t = u
        /\ i <= opened <=> i \in available \/ i \in cleanerTodo \/ holders # {}

\* The pool never runs more processes than its size, through crashes, retries,
\* root switches, recycling and a failed kill (PoolOptions::size).
ProcessBound == Cardinality(alive) <= Limit

\* A stop call that comes now reaches every process that runs: its control is
\* registered, another stop call has it, or its caller has yet to pass the
\* check of stopped in spawn.  (A cancel whose kill failed has said so.)
Stoppable ==
    (\A s \in Stoppers : stopPc[s] \notin {"failing", "failed"}) =>
        \A p \in alive :
            \/ \E i \in Slots : controls[i] = p
            \/ \E s \in Stoppers : p \in stopTodo[s]
            \/ \E t \in Callers : pc[t] = "register" /\ worker[t].pid = p

\* A request is sent only to a process that runs in the source root of the
\* request (isolate and spawn: "A process never evaluates two source roots").
RootIsolation ==
    \A t \in Callers : pc[t] = "inflight" => worker[t].root = call[t].root

\* No two living processes have loaded the same PostCSS context: affinity
\* survives recycling and is forgotten only with the process it points to.
OneWorkerPerContext ==
    LET loaded == {slots[i] : i \in Slots} \cup {worker[t] : t \in Callers}
                  \cup {cleanerHolds[i] : i \in Slots}
    IN  \A v, w \in loaded \ {NoWorker} :
            v.pid \in alive /\ w.pid \in alive /\ v.contexts \cap w.contexts \cap contexts # {}
            => v.pid = w.pid

\* A caller never sleeps through its turn: one asleep in Pool::acquire is not
\* the first that could take a slot, and after a stop nobody sleeps.  While the
\* release thread has slots out the queue may wait for them.
NoLostWakeup ==
    \A t \in asleep : ~stopped /\ (IsFirst(waiting, t) => cleanerTodo # {})

\* Every request returns, whatever the other callers, the release thread and
\* the stop calls do (FIFO order per eligible slot: no ticket starves).
RequestsReturn == \A t \in Callers : pc[t] # "idle" ~> pc[t] = "idle"

\* What an idle process holds of a released context is disposed in the end.
ReleasesTakeEffect ==
    \A c \in Contexts :
        lease[c] = "dropped" ~> \A i \in available : stopped \/ slots[i] = NoWorker \/ c \notin slots[i].contexts

\* Once a stop was called, every process ends and every stop call returns.
StopsDrain ==
    /\ \A s \in Stoppers : stopPc[s] # "ready" ~> stopPc[s] \in {"done", "failed"}
    /\ \A s \in Stoppers \ {"cancel"} :
           stopPc[s] # "ready" ~> alive = {} \/ stopPc[s] = "failed"
=============================================================================
