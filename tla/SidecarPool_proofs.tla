------------------------- MODULE SidecarPool_proofs -------------------------
(***************************************************************************)
(* Theorems about the sidecar pool, for any number of callers, contexts,   *)
(* roots, processes and slots.                                             *)
(***************************************************************************)
EXTENDS SidecarPoolLeases, TLAPS, SequenceTheorems, FiniteSetTheorems

-----------------------------------------------------------------------------
(* The inductive invariant *)

\* What the phase of the release thread says about its slots.
CleanerPhases ==
    /\ cleanerPc \in {"idle", "scan"} => cleanerTodo = {}
    /\ cleanerPc = "return" <=> cleanerAt # NoSlot
    /\ cleanerAt # NoSlot => cleanerAt \in cleanerTodo
    /\ \A i \in cleanerTodo \ {cleanerAt} : cleanerHolds[i] # NoWorker

\* A worker that a request may be sent to runs in the root of that request.
WorkerRoots ==
    \A t \in Callers :
        pc[t] \in {"attempt", "launch", "register", "handshake", "execute", "inflight"}
            /\ worker[t] # NoWorker => worker[t].root = call[t].root

\* The queue has no caller twice.
Distinct(q) == \A m, n \in 1..Len(q) : q[m] = q[n] => m = n

IInv == TypeOK /\ Distinct(waiting) /\ CleanerPhases /\ SlotOwnership /\ WorkerRoots



-----------------------------------------------------------------------------
(* Lemmas on the queue *)

\* A caller that leaves the queue is the only one to leave it, and the others
\* keep their order without gaps.
LEMMA WithoutTicket ==
    ASSUME NEW S, NEW q \in Seq(S), NEW t, IsIn(q, t), Distinct(q)
    PROVE  /\ Without(q, t) \in Seq(S)
           /\ Distinct(Without(q, t))
           /\ \A u : IsIn(Without(q, t), u) <=> IsIn(q, u) /\ u # t
<1> DEFINE n == CHOOSE m \in 1..Len(q) : q[m] = t
           r == Without(q, t)
<1>1. n \in 1..Len(q) /\ q[n] = t
  BY DEF IsIn
<1>2. r = [k \in 1..(Len(q) - 1) |-> IF k < n THEN q[k] ELSE q[k + 1]]
  BY DEF Without
<1>3. Len(q) \in Nat /\ q \in [1..Len(q) -> S]
  BY LenProperties
<1> HIDE DEF n, r
<1>4. /\ r \in Seq(S) /\ Len(r) = Len(q) - 1
      /\ \A k \in 1..(Len(q) - 1) : r[k] = IF k < n THEN q[k] ELSE q[k + 1]
  <2>1. r \in [1..(Len(q) - 1) -> S] /\ Len(q) - 1 \in Nat
    BY <1>1, <1>2, <1>3
  <2>2. r \in Seq(S)
    BY <2>1, SeqDef
  <2> QED BY <1>2, <2>1, <2>2, LenProperties
<1>5. Distinct(r)
  BY <1>1, <1>3, <1>4 DEF Distinct
<1>6. ASSUME NEW u PROVE IsIn(r, u) <=> IsIn(q, u) /\ u # t
  <2>1. ASSUME IsIn(r, u) PROVE IsIn(q, u) /\ u # t
    <3>1. PICK k \in 1..Len(r) : r[k] = u
      BY <2>1 DEF IsIn
    <3>2. CASE k < n
      BY <1>1, <1>3, <1>4, <3>1, <3>2 DEF IsIn, Distinct
    <3>3. CASE ~(k < n)
      BY <1>1, <1>3, <1>4, <3>1, <3>3 DEF IsIn, Distinct
    <3> QED BY <3>2, <3>3
  <2>2. ASSUME IsIn(q, u), u # t PROVE IsIn(r, u)
    <3>1. PICK k \in 1..Len(q) : q[k] = u
      BY <2>2 DEF IsIn
    <3>2. CASE k < n
      BY <1>1, <1>3, <1>4, <3>1, <3>2 DEF IsIn
    <3>3. CASE k > n
      <4>1. k - 1 \in 1..Len(r) /\ r[k - 1] = u
        BY <1>1, <1>3, <1>4, <3>1, <3>3
      <4> QED BY <4>1 DEF IsIn
    <3> QED BY <1>1, <1>3, <2>2, <3>1, <3>2, <3>3
  <2> QED BY <2>1, <2>2
<1> QED BY <1>4, <1>5, <1>6 DEF r

\* A caller that joins the queue stands behind the others.
LEMMA NewTicket ==
    ASSUME NEW S, NEW q \in Seq(S), NEW t \in S, ~IsIn(q, t), Distinct(q)
    PROVE  /\ Append(q, t) \in Seq(S)
           /\ Distinct(Append(q, t))
           /\ \A u : IsIn(Append(q, t), u) <=> IsIn(q, u) \/ u = t
<1>1. /\ Append(q, t) \in Seq(S) /\ Len(Append(q, t)) = Len(q) + 1 /\ Len(q) \in Nat
      /\ \A k \in 1..Len(q) : Append(q, t)[k] = q[k]
      /\ Append(q, t)[Len(q) + 1] = t
  BY AppendProperties, LenProperties
<1> QED BY <1>1 DEF IsIn, Distinct

-----------------------------------------------------------------------------
(* Lemmas on workers and slots *)

\* Disposing released contexts leaves a worker what it was otherwise.
LEMMA CleanedWorker ==
    ASSUME NEW w \in Worker
    PROVE  /\ Cleaned(w) \in Worker
           /\ Cleaned(w).pid = w.pid /\ Cleaned(w).root = w.root
BY DEF Cleaned, Worker

LEMMA LoadedWorker ==
    ASSUME Types, NEW w \in Worker, NEW c \in Contexts \cup {NoContext}
    PROVE  /\ Loaded(w, c) \in Worker
           /\ Loaded(w, c).pid = w.pid /\ Loaded(w, c).root = w.root
BY DEF Types, Loaded, Worker

\* NoWorker is not a worker, and a slot index is not NoSlot.
LEMMA NoConfusion ==
    /\ NoWorker \notin Worker /\ NoSlot \notin Slots /\ NoCall \notin Call
    /\ Limit \in Nat /\ Slots \subseteq Nat
BY PoolAssumption DEF Worker, Slots, Call

\* Idle slots are slots, and a slot that was opened may be idle again.
LEMMA IdleSlots ==
    ASSUME Types
    PROVE  /\ available \in SUBSET Slots
           /\ \A i \in Slots : i <= opened => available \cup {i} \in SUBSET (1..opened)
<1>1. opened \in 0..Limit /\ available \in SUBSET (1..opened)
  BY DEF Types
<1> QED BY <1>1, NoConfusion DEF Slots

\* acquire takes a slot that is idle, or opens the next one.
LEMMA ChosenSlot ==
    ASSUME Types, NEW request \in Call, NEW i \in Choices(request)
    PROVE  /\ i \in Slots
           /\ (i \in available /\ i <= opened) \/ i = opened + 1
BY NoConfusion DEF Types, Choices, Unopened, Slots

-----------------------------------------------------------------------------
(* The invariant holds initially *)

LEMMA InitInvariant == Init => IInv
<1> SUFFICES ASSUME Init PROVE IInv
  OBVIOUS
<1> USE NoConfusion, PoolAssumption
<1>1. Types
  <2>1. << >> \in Seq(Callers)
    BY EmptySeq
  <2>2. /\ opened \in 0..Limit /\ available \in SUBSET (1..opened) /\ notices \in Nat
        /\ stopTodo \in [Stoppers -> SUBSET Pids]
    BY DEF Init
  <2> QED BY <2>1, <2>2 DEF Init, Types, WorkerOrNone
<1>2. Phases
  <2>1. \A t : ~IsIn(<< >>, t)
    BY DEF IsIn
  <2> QED BY <2>1 DEF Init, Phases, Serving
<1>3. SlotOwnership
  BY DEF Init, SlotOwnership, Slots
<1>4. CleanerPhases /\ WorkerRoots /\ Distinct(waiting)
  BY DEF Init, CleanerPhases, WorkerRoots, Distinct
<1> QED BY <1>1, <1>2, <1>3, <1>4 DEF IInv, TypeOK

-----------------------------------------------------------------------------
(* Every step of a caller preserves it *)

LEMMA RequestStep ==
    ASSUME IInv, NEW t \in Callers, Request(t) PROVE IInv'
<1> USE NoConfusion DEF IInv, TypeOK, Request, Goto, shared, queue, cleaner, stop
<1>1. Types'
  BY DEF Types
<1>2. Phases'
  BY DEF Types, Phases, Serving
<1>3. SlotOwnership' /\ CleanerPhases' /\ WorkerRoots' /\ Distinct(waiting)'
  BY DEF Types, SlotOwnership, CleanerPhases, WorkerRoots, Distinct
<1> QED BY <1>1, <1>2, <1>3

\* While a caller is served only its own worker and phase change, and neither
\* the queue nor the owners of the slots.
Sendable == {"register", "handshake", "execute", "inflight"}
Rooted   == Sendable \cup {"attempt", "launch"}

OneServed(t) ==
    /\ pc[t] \in Serving /\ pc'[t] \in Serving
    /\ \A u \in Callers \ {t} : pc'[u] = pc[u] /\ worker'[u] = worker[u]
    /\ pc'[t] \in Sendable => worker'[t] # NoWorker
    /\ pc'[t] \in Rooted /\ worker'[t] # NoWorker => worker'[t].root = call[t].root
    /\ UNCHANGED <<opened, available, held, call, waiting, cleaner>>

LEMMA ServingStep ==
    ASSUME IInv, Types', NEW t \in Callers, OneServed(t) PROVE IInv'
<1> USE DEF IInv, TypeOK, OneServed
<1>1. Phases'
  BY DEF Types, Phases, Serving, Sendable
<1>2. WorkerRoots'
  BY DEF Types, WorkerRoots, Rooted, Sendable
<1>3. UNCHANGED <<opened, available, held, waiting, cleanerPc, cleanerTodo, cleanerAt, cleanerHolds>>
  BY DEF cleaner
<1> HIDE DEF OneServed
<1>4. SlotOwnership'
  BY <1>3 DEF SlotOwnership
<1>5. CleanerPhases'
  BY <1>3 DEF CleanerPhases
<1>6. Distinct(waiting)'
  BY <1>3 DEF Distinct
<1> QED BY <1>1, <1>2, <1>4, <1>5, <1>6

LEMMA IsolateStep ==
    ASSUME IInv, NEW t \in Callers, Isolate(t) PROVE IInv'
<1> USE NoConfusion DEF IInv, TypeOK, Isolate, Goto
<1>1. Types'
  BY DEF Types, ForgetOtherRoots, WorkerOrNone, shared, queue, cleaner, stop
<1>2. OneServed(t)
  BY DEF OneServed, Types, Serving, Sendable, Rooted, WorkerOrNone
<1> QED BY <1>1, <1>2, ServingStep

LEMMA AttemptStep ==
    ASSUME IInv, NEW t \in Callers, Attempt(t) PROVE IInv'
<1> USE NoConfusion DEF IInv, TypeOK, Attempt, Goto
<1>1. Types'
  BY DEF Types, ForgetOtherRoots, shared, queue, cleaner, stop
<1>2. OneServed(t)
  BY DEF OneServed, Types, Serving, Sendable, Rooted, WorkerRoots
<1> QED BY <1>1, <1>2, ServingStep

LEMMA LaunchStep ==
    ASSUME IInv, NEW t \in Callers, Launch(t) PROVE IInv'
<1> USE NoConfusion DEF IInv, TypeOK, Goto, shared, queue
<1>1. call[t] \in Call /\ call[t].root \in Roots /\ pc[t] \in Serving
  BY DEF Types, Phases, Serving, Call, Launch
<1>2. CASE \E p \in Pids :
              /\ worker' = [worker EXCEPT ![t] = [pid |-> p, root |-> call[t].root, contexts |-> {}]]
              /\ alive' = alive \cup {p}
              /\ pc' = [pc EXCEPT ![t] = "register"]
              /\ UNCHANGED retried
  <2>1. PICK p \in Pids :
              /\ worker' = [worker EXCEPT ![t] = [pid |-> p, root |-> call[t].root, contexts |-> {}]]
              /\ alive' = alive \cup {p}
              /\ pc' = [pc EXCEPT ![t] = "register"]
              /\ UNCHANGED retried
    BY <1>2
  <2> DEFINE w == [pid |-> p, root |-> call[t].root, contexts |-> {}]
  <2>2. w \in Worker /\ w.root = call[t].root
    BY <1>1 DEF Worker
  <2> HIDE DEF w
  <2>3. worker' = [worker EXCEPT ![t] = w]
    BY <2>1 DEF w
  <2>4. Types'
    BY <2>1, <2>2, <2>3 DEF Types, WorkerOrNone, Launch, cleaner, stop
  <2>5. /\ pc'[t] = "register" /\ worker'[t] = w
        /\ \A u \in Callers \ {t} : pc'[u] = pc[u] /\ worker'[u] = worker[u]
    BY <2>1, <2>3 DEF Types
  <2>6. w # NoWorker
    BY <2>2 DEF Worker
  <2>7. UNCHANGED <<opened, available, held, call, waiting, cleaner>>
    BY DEF Launch
  <2>8. OneServed(t)
    BY <1>1, <2>2, <2>5, <2>6, <2>7 DEF OneServed, Serving, Rooted
  <2> QED BY <2>4, <2>8, ServingStep
<1>3. CASE \E why \in {"crashed", "failed"} : Abandon(t, why)
  <2>1. Types'
    BY <1>3 DEF Types, Launch, Abandon, WorkerOrNone, cleaner, stop
  <2>2. OneServed(t)
    BY <1>1, <1>3 DEF OneServed, Types, Launch, Abandon, Serving, Sendable, Rooted
  <2> QED BY <2>1, <2>2, ServingStep
<1> QED BY <1>2, <1>3 DEF Launch

LEMMA RegisterStep ==
    ASSUME IInv, NEW t \in Callers, Register(t) PROVE IInv'
<1> USE NoConfusion DEF IInv, TypeOK, Register, Goto, queue
<1>1. worker[t] \in Worker /\ worker[t].pid \in Pids /\ held[t] \in Slots /\ pc[t] \in Serving
  BY DEF Types, Phases, Serving, WorkerOrNone, Worker
<1>2. Types'
  BY <1>1 DEF Types, WorkerOrNone, cleaner, stop
<1>3. OneServed(t)
  BY <1>1 DEF OneServed, Types, Serving, Sendable, Rooted, Phases, WorkerRoots
<1> QED BY <1>2, <1>3, ServingStep

LEMMA HandshakeStep ==
    ASSUME IInv, NEW t \in Callers, Handshake(t) PROVE IInv'
<1> USE NoConfusion DEF IInv, TypeOK, Handshake, Abandon, Goto, shared, queue
<1>1. Types'
  BY DEF Types, WorkerOrNone, cleaner, stop
<1>2. OneServed(t)
  BY DEF OneServed, Types, Serving, Sendable, Rooted, Phases, WorkerRoots
<1> QED BY <1>1, <1>2, ServingStep

LEMMA ExecuteStep ==
    ASSUME IInv, NEW t \in Callers, Execute(t) PROVE IInv'
<1> USE NoConfusion DEF IInv, TypeOK, Execute, Goto, queue
<1> DEFINE w == Loaded(worker[t], call[t].context)
<1>1. /\ worker[t] \in Worker /\ call[t].context \in Contexts \cup {NoContext}
      /\ worker[t].root = call[t].root
  BY DEF Types, Phases, Serving, WorkerOrNone, WorkerRoots, Call
<1>2. w \in Worker /\ w.root = call[t].root
  BY <1>1, LoadedWorker
<1> HIDE DEF w
<1>3. CASE worker' = [worker EXCEPT ![t] = w] /\ pc' = [pc EXCEPT ![t] = "inflight"]
           /\ contexts' = contexts \cup ({call[t].context} \ {NoContext})
           /\ UNCHANGED <<retried, alive>>
  <2>1. Types'
    BY <1>1, <1>2, <1>3 DEF Types, WorkerOrNone, cleaner, stop
  <2>2. OneServed(t)
    BY <1>2, <1>3 DEF OneServed, Types, Serving, Sendable, Rooted
  <2> QED BY <2>1, <2>2, ServingStep
<1>4. CASE (\E why \in {"crashed", "failed", "cancelled"} : Abandon(t, why)) /\ UNCHANGED contexts
  <2>1. Types'
    BY <1>4 DEF Types, Abandon, WorkerOrNone, cleaner, stop
  <2>2. OneServed(t)
    BY <1>4 DEF OneServed, Types, Abandon, Serving, Sendable, Rooted
  <2> QED BY <2>1, <2>2, ServingStep
<1> QED BY <1>3, <1>4 DEF w

LEMMA RespondStep ==
    ASSUME IInv, NEW t \in Callers, Respond(t) PROVE IInv'
<1> USE NoConfusion DEF IInv, TypeOK, Respond, Abandon, Goto, shared, queue
<1>1. Types'
  BY DEF Types, WorkerOrNone, cleaner, stop
<1>2. OneServed(t)
  BY DEF OneServed, Types, Serving, Sendable, Rooted
<1> QED BY <1>1, <1>2, ServingStep

LEMMA RecycleStep ==
    ASSUME IInv, NEW t \in Callers, Recycle(t) PROVE IInv'
<1> USE NoConfusion DEF IInv, TypeOK, Recycle, Goto, shared, queue
<1>1. Types'
  BY DEF Types, WorkerOrNone, cleaner, stop
<1>2. OneServed(t)
  BY DEF OneServed, Types, Serving, Sendable, Rooted
<1> QED BY <1>1, <1>2, ServingStep

LEMMA TidyStep ==
    ASSUME IInv, NEW t \in Callers, Tidy(t) PROVE IInv'
<1> USE NoConfusion DEF IInv, TypeOK, Tidy, Goto, shared, queue
<1>1. worker[t] # NoWorker => Cleaned(worker[t]) \in Worker
  BY CleanedWorker DEF Types, WorkerOrNone
<1>2. Types'
  BY <1>1 DEF Types, WorkerOrNone, Pending, cleaner, stop
<1>3. OneServed(t)
  BY DEF OneServed, Types, Serving, Sendable, Rooted
<1> QED BY <1>2, <1>3, ServingStep

\* A turn in acquire: q is the queue with the caller in it.
LEMMA AcquireStep ==
    ASSUME IInv, NEW t \in Callers, NEW q \in Seq(Callers), NEW sleepers \in SUBSET Callers,
           AcquireTurn(t, q, sleepers),
           call[t] # NoCall, pc[t] \in {"arriving", "queued"},
           Distinct(q), IsIn(q, t), \A u \in Callers \ {t} : IsIn(q, u) <=> IsIn(waiting, u),
           UNCHANGED <<retried, cleaner, notices, stop, alive, lease>>
    PROVE  IInv'
<1> USE NoConfusion DEF IInv, TypeOK
<1>1. /\ Without(q, t) \in Seq(Callers) /\ Distinct(Without(q, t))
      /\ \A u : IsIn(Without(q, t), u) <=> IsIn(q, u) /\ u # t
  BY WithoutTicket
<1>2. held[t] = NoSlot /\ call[t] \in Call
  BY DEF Types, Phases, Serving
<1>a. \A u \in Callers \ {t} : IsIn(Without(q, t), u) <=> IsIn(waiting, u)
  BY <1>1
<1>3. CASE /\ waiting' = Without(q, t) /\ asleep' = sleepers
           /\ call' = [call EXCEPT ![t] = NoCall] /\ Goto(t, "idle")
           /\ UNCHANGED <<shared, held, worker>>
  <2>1. Types'
    BY <1>1, <1>3 DEF Types, Goto, shared, cleaner, stop
  <2>2. Phases'
    BY <1>1, <1>a, <1>2, <1>3 DEF Types, Phases, Serving, Goto
  <2>3. SlotOwnership' /\ CleanerPhases' /\ WorkerRoots' /\ Distinct(waiting)'
    BY <1>1, <1>3 DEF Types, SlotOwnership, CleanerPhases, WorkerRoots, Distinct, Goto, shared, cleaner
  <2> QED BY <2>1, <2>2, <2>3
<1>4. CASE /\ waiting' = q /\ asleep' = sleepers \cup {t} /\ Goto(t, "queued")
           /\ UNCHANGED <<shared, call, held, worker>>
  <2>1. Types'
    BY <1>4 DEF Types, Goto, shared, cleaner, stop
  <2>2. Phases'
    BY <1>2, <1>4 DEF Types, Phases, Serving, Goto
  <2>3. SlotOwnership' /\ CleanerPhases' /\ WorkerRoots' /\ Distinct(waiting)'
    BY <1>4 DEF Types, SlotOwnership, CleanerPhases, WorkerRoots, Distinct, Goto, shared, cleaner
  <2> QED BY <2>1, <2>2, <2>3
<1>5. ASSUME NEW i \in Choices(call[t]),
             available' = available \ {i},
             opened' = IF i > opened THEN i ELSE opened,
             affinity' = [c \in Contexts |-> IF c = call[t].context THEN i ELSE affinity[c]],
             worker' = [worker EXCEPT ![t] = slots[i]],
             slots' = [slots EXCEPT ![i] = NoWorker],
             held' = [held EXCEPT ![t] = i],
             waiting' = Without(q, t), asleep' = {}, Goto(t, "isolate"),
             UNCHANGED <<stopped, controls, contexts, call>>
      PROVE  IInv'
  <2>1. i \in Slots /\ ((i \in available /\ i <= opened) \/ i = opened + 1)
    BY <1>2, ChosenSlot
  <2>2. opened' \in 0..Limit /\ opened <= opened' /\ available' \in SUBSET (1..opened')
    BY <1>5, <2>1 DEF Types, Slots
  <2>3. Types'
    BY <1>1, <1>5, <2>1, <2>2 DEF Types, WorkerOrNone, Goto, cleaner, stop
  <2>4. Phases'
    BY <1>1, <1>a, <1>2, <1>5, <2>1 DEF Types, Phases, Serving, Goto
  <2>5. SlotOwnership'
    BY <1>2, <1>5, <2>1 DEF Types, SlotOwnership, Slots, cleaner
  <2>6. CleanerPhases' /\ WorkerRoots' /\ Distinct(waiting)'
    BY <1>1, <1>5 DEF Types, CleanerPhases, WorkerRoots, Distinct, Goto, cleaner
  <2> QED BY <2>3, <2>4, <2>5, <2>6
<1> QED BY <1>3, <1>4, <1>5 DEF AcquireTurn

LEMMA EnqueueStep ==
    ASSUME IInv, NEW t \in Callers, Enqueue(t) PROVE IInv'
<1>1. /\ call[t] # NoCall /\ pc[t] = "arriving" /\ ~IsIn(waiting, t)
      /\ waiting \in Seq(Callers) /\ Distinct(waiting) /\ {} \in SUBSET Callers
  BY DEF IInv, TypeOK, Types, Phases, Enqueue
<1>2. /\ Append(waiting, t) \in Seq(Callers) /\ Distinct(Append(waiting, t))
      /\ \A u : IsIn(Append(waiting, t), u) <=> IsIn(waiting, u) \/ u = t
  BY <1>1, NewTicket
<1> QED BY <1>1, <1>2, AcquireStep DEF Enqueue

LEMMA RetryStep ==
    ASSUME IInv, NEW t \in Callers, Retry(t) PROVE IInv'
<1>1. /\ call[t] # NoCall /\ pc[t] = "queued" /\ IsIn(waiting, t) /\ Distinct(waiting)
      /\ waiting \in Seq(Callers) /\ asleep \in SUBSET Callers
  BY DEF IInv, TypeOK, Types, Phases, Retry
<1> QED BY <1>1, AcquireStep DEF Retry

LEMMA PutBackStep ==
    ASSUME IInv, NEW t \in Callers, PutBack(t) PROVE IInv'
<1> USE NoConfusion DEF IInv, TypeOK, PutBack, Return, Goto
<1>a. held[t] \in Slots
  BY DEF Types, Phases, Serving
<1>b. held[t] <= opened
  BY <1>a DEF SlotOwnership
<1>1. held[t] \in Slots /\ held[t] <= opened /\ available \cup {held[t]} \in SUBSET (1..opened)
  BY <1>a, <1>b, IdleSlots
<1>2. Kept(worker[t]) \in WorkerOrNone
  BY DEF Types, Kept, WorkerOrNone
<1>3. Types'
  BY <1>1, <1>2 DEF Types, WorkerOrNone, cleaner, stop
<1>4. Phases'
  BY DEF Types, Phases, Serving
<1>5. SlotOwnership'
  BY <1>1 DEF Types, SlotOwnership, cleaner
<1>6. CleanerPhases' /\ WorkerRoots' /\ Distinct(waiting)'
  BY DEF Types, CleanerPhases, WorkerRoots, Distinct, cleaner
<1> QED BY <1>3, <1>4, <1>5, <1>6

LEMMA CallerStepInvariant ==
    ASSUME IInv, NEW t \in Callers, Request(t) \/ CallerStep(t) PROVE IInv'
BY RequestStep, EnqueueStep, RetryStep, IsolateStep, AttemptStep, LaunchStep, RegisterStep,
   HandshakeStep, ExecuteStep, RespondStep, RecycleStep, TidyStep, PutBackStep DEF CallerStep

-----------------------------------------------------------------------------
(* The steps of the other threads preserve it *)

LEMMA ReleaseStep ==
    ASSUME IInv, NEW c \in Contexts, RecordRelease(c) \/ NotifyRelease(c) PROVE IInv'
<1> USE NoConfusion DEF IInv, TypeOK, RecordRelease, NotifyRelease
<1>1. Types'
  <2>1. CASE RecordRelease(c)
    BY <2>1 DEF Types, frame, cleaner, stop
  <2>2. CASE NotifyRelease(c)
    BY <2>2 DEF Types, shared, queue, frame, cleaner, stop
  <2> QED BY <2>1, <2>2
<1>2. Phases'
  BY DEF Phases, shared, queue, frame
<1>3. SlotOwnership' /\ CleanerPhases' /\ WorkerRoots' /\ Distinct(waiting)'
  BY DEF SlotOwnership, CleanerPhases, WorkerRoots, Distinct, shared, queue, frame, cleaner
<1> QED BY <1>1, <1>2, <1>3

LEMMA StopInvariant ==
    ASSUME IInv, NEW s \in Stoppers, Begin(s) \/ StopStep(s) PROVE IInv'
<1> USE NoConfusion DEF IInv, TypeOK, StopStep
<1>1. Types'
  <2>1. CASE Begin(s)
    BY <2>1 DEF Types, Begin, Collected, frame, cleaner
  <2>2. CASE EndOne(s)
    BY <2>2 DEF Types, EndOne, shared, queue, frame, cleaner
  <2>3. CASE Finish(s)
    BY <2>3 DEF Types, Finish, shared, queue, frame, cleaner
  <2> QED BY <2>1, <2>2, <2>3
<1>2. UNCHANGED <<opened, available, waiting, frame, cleaner>>
  BY DEF Begin, EndOne, Finish, shared, queue
<1>3. Phases'
  BY <1>2 DEF Phases, frame
<1>4. SlotOwnership' /\ CleanerPhases' /\ WorkerRoots' /\ Distinct(waiting)'
  BY <1>2 DEF SlotOwnership, CleanerPhases, WorkerRoots, Distinct, frame, cleaner
<1> QED BY <1>1, <1>3, <1>4

LEMMA ReceiveStep ==
    ASSUME IInv, Receive PROVE IInv'
<1> USE DEF IInv, TypeOK, Receive
<1>1. Types'
  BY DEF Types, shared, queue, frame, stop
<1>2. Phases' /\ CleanerPhases' /\ SlotOwnership' /\ WorkerRoots' /\ Distinct(waiting)'
  BY NoConfusion DEF Phases, CleanerPhases, SlotOwnership, WorkerRoots, Distinct,
                     shared, queue, frame
<1> QED BY <1>1, <1>2

LEMMA ScanStep ==
    ASSUME IInv, Scan PROVE IInv'
<1> USE NoConfusion DEF IInv, TypeOK
<1> DEFINE stale == {i \in available : Pending(slots[i])}
<1>1. Phases' /\ WorkerRoots' /\ Distinct(waiting)'
  BY DEF Scan, Phases, WorkerRoots, Distinct, queue, frame
<1>2. cleanerTodo = {} /\ cleanerAt = NoSlot
  BY DEF Scan, CleanerPhases
<1>3. CASE cleanerPc' = "idle" /\ UNCHANGED <<available, slots, cleanerTodo, cleanerHolds>>
  <2>1. Types'
    BY <1>3 DEF Types, Scan, queue, frame, stop
  <2>2. CleanerPhases' /\ SlotOwnership'
    BY <1>2, <1>3 DEF CleanerPhases, SlotOwnership, Scan, frame
  <2> QED BY <1>1, <2>1, <2>2
<1>4. CASE /\ cleanerPc' = "pick" /\ cleanerTodo' = stale
           /\ cleanerHolds' = [i \in Slots |-> IF i \in stale THEN slots[i] ELSE NoWorker]
           /\ slots' = [i \in Slots |-> IF i \in stale THEN NoWorker ELSE slots[i]]
           /\ available' = available \ stale
  <2>1. stale \subseteq available /\ stale \subseteq Slots /\ \A i \in stale : slots[i] # NoWorker
    BY IdleSlots DEF Pending
  <2> HIDE DEF stale
  <2>2. Types'
    BY <1>4, <2>1 DEF Types, WorkerOrNone, Scan, queue, frame, stop
  <2>3. CleanerPhases'
    BY <1>2, <1>4, <2>1 DEF CleanerPhases, Scan
  <2>4. SlotOwnership'
    BY <1>2, <1>4, <2>1 DEF SlotOwnership, Scan, frame
  <2> QED BY <1>1, <2>2, <2>3, <2>4
<1> QED BY <1>3, <1>4 DEF Scan

LEMMA DisposeStep ==
    ASSUME IInv, NEW i \in Slots, Dispose(i) PROVE IInv'
<1> USE NoConfusion DEF IInv, TypeOK, Dispose
<1>1. cleanerHolds[i] \in Worker /\ Cleaned(cleanerHolds[i]) \in Worker
  BY CleanedWorker DEF Types, WorkerOrNone, CleanerPhases
<1>2. Types'
  BY <1>1 DEF Types, WorkerOrNone, shared, queue, frame, stop
<1>3. Phases' /\ WorkerRoots' /\ Distinct(waiting)'
  BY DEF Phases, WorkerRoots, Distinct, shared, queue, frame
<1>4. CleanerPhases' /\ SlotOwnership'
  BY <1>1 DEF Types, CleanerPhases, SlotOwnership, shared, frame
<1> QED BY <1>2, <1>3, <1>4

LEMMA GiveBackStep ==
    ASSUME IInv, GiveBack PROVE IInv'
<1> USE NoConfusion DEF IInv, TypeOK, GiveBack, Return
<1>a. cleanerAt \in cleanerTodo /\ cleanerAt \in Slots /\ cleanerAt <= opened
  BY DEF Types, CleanerPhases, SlotOwnership
<1>1. cleanerAt \in cleanerTodo /\ cleanerAt \in Slots /\ cleanerAt <= opened
      /\ available \cup {cleanerAt} \in SUBSET (1..opened)
  BY <1>a, IdleSlots
<1>2. Kept(cleanerHolds[cleanerAt]) \in WorkerOrNone
  BY <1>1 DEF Types, Kept, WorkerOrNone
<1>3. Types'
  BY <1>1, <1>2 DEF Types, WorkerOrNone, frame, stop
<1>4. Phases' /\ WorkerRoots' /\ Distinct(waiting)'
  BY DEF Phases, WorkerRoots, Distinct, frame
<1>5. CleanerPhases'
  BY <1>1 DEF Types, CleanerPhases
<1>6. SlotOwnership'
  BY <1>1 DEF Types, SlotOwnership, frame
<1> QED BY <1>3, <1>4, <1>5, <1>6

-----------------------------------------------------------------------------
(* Theorems *)

LEMMA StutterStep == IInv /\ UNCHANGED vars => IInv'
BY DEF IInv, TypeOK, Types, Phases, Distinct, CleanerPhases, SlotOwnership, WorkerRoots,
       vars, shared, queue, frame, cleaner, stop

LEMMA StepInvariant == IInv /\ [Next]_vars => IInv'
BY CallerStepInvariant, ReleaseStep, StopInvariant, ReceiveStep, ScanStep, DisposeStep, GiveBackStep,
   StutterStep DEF Next, CleanerStep

THEOREM Invariant == Spec => []IInv
BY InitInvariant, StepInvariant, PTL DEF Spec

\* Types and phases of all variables hold in every reachable state.
THEOREM TypeCorrect == Spec => []TypeOK
<1>1. IInv => TypeOK
  BY DEF IInv
<1> QED BY <1>1, Invariant, PTL

\* acquire, release, clean_idle and the stop calls never lose a slot nor lend it
\* twice.
THEOREM SlotsOwnedOnce == Spec => []SlotOwnership
<1>1. IInv => SlotOwnership
  BY DEF IInv
<1> QED BY <1>1, Invariant, PTL

\* No process is sent a request of another source root.
THEOREM RootsIsolated == Spec => []RootIsolation
<1>1. IInv => RootIsolation
  BY DEF IInv, TypeOK, Phases, WorkerRoots, RootIsolation
<1> QED BY <1>1, Invariant, PTL

-----------------------------------------------------------------------------
(* The pool implements SlotLeases *)

owners == [i \in Slots |-> OwnerOf(i)]

\* Who owns a slot, from the variables that decide it.
OwnersKnown ==
    \A i \in Slots :
        /\ owners[i] \in Owners \cup {Free, Closed}
        /\ owners[i] = Free <=> i \in available
        /\ owners[i] = ReleaseThread <=> i \in cleanerTodo
        /\ \A t \in Callers : owners[i] = t <=> held[t] = i
        /\ owners[i] = Closed <=> i > opened

LEMMA KnownOwners == IInv => OwnersKnown
<1> SUFFICES ASSUME IInv, NEW i \in Slots
             PROVE  /\ owners[i] \in Owners \cup {Free, Closed}
                    /\ owners[i] = Free <=> i \in available
                    /\ owners[i] = ReleaseThread <=> i \in cleanerTodo
                    /\ \A t \in Callers : owners[i] = t <=> held[t] = i
                    /\ owners[i] = Closed <=> i > opened
  BY DEF OwnersKnown
<1> USE OwnersAssumption, NoConfusion DEF Owners
<1>1. owners[i] = OwnerOf(i)
  BY DEF owners
<1>2. /\ i \in available => i \notin cleanerTodo /\ \A t \in Callers : held[t] # i
      /\ i \in cleanerTodo => \A t \in Callers : held[t] # i
      /\ \A t, u \in Callers : held[t] = i /\ held[u] = i => t = u
      /\ i <= opened <=> i \in available \/ i \in cleanerTodo \/ \E t \in Callers : held[t] = i
      /\ opened \in Nat
  BY DEF IInv, TypeOK, Types, SlotOwnership
<1>3. CASE i \in available
  BY <1>1, <1>2, <1>3 DEF OwnerOf
<1>4. CASE i \in cleanerTodo
  BY <1>1, <1>2, <1>4 DEF OwnerOf
<1>5. ASSUME NEW t \in Callers, held[t] = i
      PROVE  owners[i] = t /\ i \notin available /\ i \notin cleanerTodo /\ i <= opened
  BY <1>1, <1>2, <1>5 DEF OwnerOf
<1>6. CASE i \notin available /\ i \notin cleanerTodo /\ ~\E t \in Callers : held[t] = i
  BY <1>1, <1>2, <1>6 DEF OwnerOf
<1> QED BY <1>2, <1>3, <1>4, <1>5, <1>6

\* A step that leaves the hands of the slots alone is a stutter.
LEMMA SameOwners ==
    UNCHANGED <<available, cleanerTodo, held>> => UNCHANGED owners
BY DEF owners, OwnerOf

\* Whoever takes a turn in acquire has no slot yet.
LEMMA AcquireLeases ==
    ASSUME IInv, OwnersKnown, OwnersKnown', NEW t \in Callers, Enqueue(t) \/ Retry(t)
    PROVE  Leases!Open(t) \/ Leases!Lease(t) \/ UNCHANGED owners
<1> USE NoConfusion, OwnersAssumption
<1>a. Types /\ Phases /\ pc[t] \in {"arriving", "queued"}
  BY DEF IInv, TypeOK, Enqueue, Retry
<1>b. held[t] = NoSlot /\ call[t] # NoCall
  BY <1>a DEF Phases, Serving
<1>1. /\ held[t] = NoSlot /\ call[t] \in Call /\ held \in [Callers -> Slots \cup {NoSlot}]
      /\ opened \in Nat /\ opened <= Limit /\ available \in SUBSET Slots
  BY <1>a, <1>b, IdleSlots DEF Types
<1>2. Leases!HasNone(t)
  BY <1>1 DEF OwnersKnown, Leases!HasNone, Leases!Slots, Slots, owners
<1>3. CASE UNCHANGED <<available, cleanerTodo, held>>
  BY <1>3, SameOwners
<1>4. ASSUME NEW i \in Choices(call[t]), available' = available \ {i}, held' = [held EXCEPT ![t] = i],
             opened' = IF i > opened THEN i ELSE opened, UNCHANGED cleanerTodo
      PROVE  Leases!Open(t) \/ Leases!Lease(t)
  <2>1. i \in Slots /\ ((i \in available /\ i <= opened) \/ i = opened + 1)
    BY <1>1, ChosenSlot DEF IInv, TypeOK
  <2>2. owners' = [owners EXCEPT ![i] = t]
    <3>1. ASSUME NEW j \in Slots, j # i PROVE OwnerOf(j)' = OwnerOf(j)
      BY <1>1, <1>4, <3>1 DEF OwnerOf
    <3>2. owners'[i] = t
      BY <1>1, <1>4, <2>1 DEF OwnersKnown
    <3> QED BY <2>1, <3>1, <3>2 DEF owners
  <2>3. CASE i \in available
    <3>1. owners' = [j \in Slots |-> IF j \in {i} THEN t ELSE owners[j]]
      BY <2>2 DEF owners
    <3>2. {i} \in SUBSET {j \in Slots : owners[j] = Free}
      BY <2>1, <2>3 DEF OwnersKnown
    <3> QED BY <1>2, <3>1, <3>2 DEF Leases!Lease, Leases!Slots, Slots, owners
  <2>4. CASE i = opened + 1
    <3>1. owners[i] = Closed /\ \A j \in Slots : owners[j] = Closed => i <= j
      BY <1>1, <2>1, <2>4 DEF OwnersKnown
    <3> QED BY <1>2, <2>1, <2>2, <3>1 DEF Leases!Open, Leases!Slots, Slots, owners
  <2> QED BY <2>1, <2>3, <2>4
<1> QED BY <1>3, <1>4 DEF Enqueue, Retry, AcquireTurn, shared, cleaner

\* release and the end of a cleanup give one slot back.
LEMMA ReturnGives ==
    ASSUME IInv, OwnersKnown, NEW o \in Owners, NEW i \in Slots, owners[i] = o,
           OwnersKnown', available' = available \cup {i},
           \A j \in Slots \ {i} : /\ j \in cleanerTodo' <=> j \in cleanerTodo
                                  /\ \A t \in Callers : held'[t] = j <=> held[t] = j
    PROVE  Leases!Give(o)
<1>1. ASSUME NEW j \in Slots, j # i PROVE owners'[j] = owners[j]
  <2>1. \A t \in Callers : held'[t] = j <=> held[t] = j
    BY <1>1
  <2>2. (\E t \in Callers : held'[t] = j) <=> (\E t \in Callers : held[t] = j)
    BY <2>1
  <2>3. ASSUME \E t \in Callers : held[t] = j PROVE owners'[j] = owners[j]
    BY <1>1, <2>1, <2>3 DEF OwnersKnown
  <2>4. ASSUME ~\E t \in Callers : held[t] = j PROVE owners'[j] = owners[j]
    BY <1>1, <2>2, <2>4 DEF owners, OwnerOf
  <2> QED BY <2>3, <2>4
<1>2. owners'[i] = Free
  BY DEF OwnersKnown
<1>3. owners' = [owners EXCEPT ![i] = Free]
  BY <1>1, <1>2 DEF owners
<1> QED BY <1>3 DEF Leases!Give, Leases!Slots, Slots, owners

LEMMA PutBackGives ==
    ASSUME IInv, OwnersKnown, OwnersKnown', NEW t \in Callers, PutBack(t)
    PROVE  Leases!Give(t)
<1>1. held[t] \in Slots /\ held \in [Callers -> Slots \cup {NoSlot}] /\ t \in Owners
  BY NoConfusion DEF IInv, TypeOK, Types, Phases, Serving, PutBack, Owners
<1>2. owners[held[t]] = t
  BY <1>1 DEF OwnersKnown
<1>3. \A j \in Slots \ {held[t]} : /\ j \in cleanerTodo' <=> j \in cleanerTodo
                                   /\ \A u \in Callers : held'[u] = j <=> held[u] = j
  BY <1>1, NoConfusion DEF PutBack, cleaner
<1> QED BY <1>1, <1>2, <1>3, ReturnGives DEF PutBack, Return

LEMMA GiveBackGives ==
    ASSUME IInv, OwnersKnown, OwnersKnown', GiveBack
    PROVE  Leases!Give(ReleaseThread)
<1>1. cleanerAt \in Slots /\ owners[cleanerAt] = ReleaseThread /\ ReleaseThread \in Owners
  BY NoConfusion DEF IInv, TypeOK, Types, CleanerPhases, OwnersKnown, GiveBack, Owners
<1>2. \A j \in Slots \ {cleanerAt} : /\ j \in cleanerTodo' <=> j \in cleanerTodo
                                     /\ \A u \in Callers : held'[u] = j <=> held[u] = j
  BY DEF GiveBack, frame
<1> QED BY <1>1, <1>2, ReturnGives DEF GiveBack, Return

\* clean_idle leases the slots with released state for the release thread.
LEMMA ScanLeases ==
    ASSUME IInv, OwnersKnown, OwnersKnown', Scan
    PROVE  Leases!Lease(ReleaseThread) \/ UNCHANGED owners
<1> DEFINE stale == {i \in available : Pending(slots[i])}
<1>1. CASE UNCHANGED available /\ UNCHANGED cleanerTodo
  BY <1>1, SameOwners DEF Scan, frame
<1>2. CASE cleanerTodo' = stale /\ available' = available \ stale
  <2>1. cleanerTodo = {} /\ stale \subseteq available /\ available \in SUBSET Slots
    BY IdleSlots, NoConfusion DEF Scan, IInv, TypeOK, CleanerPhases
  <2> HIDE DEF stale
  <2>2. \A j \in Slots \ stale : OwnerOf(j)' = OwnerOf(j)
    BY <1>2, <2>1 DEF OwnerOf, Scan, frame
  <2>3. \A j \in stale : owners'[j] = ReleaseThread
    BY <1>2, <2>1 DEF OwnersKnown
  <2>4. owners' = [j \in Slots |-> IF j \in stale THEN ReleaseThread ELSE owners[j]]
    BY <2>1, <2>2, <2>3 DEF owners
  <2>5. stale \in SUBSET {j \in Slots : owners[j] = Free}
    BY <2>1 DEF OwnersKnown
  <2>6. Leases!HasNone(ReleaseThread)
    BY <2>1 DEF OwnersKnown, Leases!HasNone, Leases!Slots, Slots, owners
  <2> QED BY <2>4, <2>5, <2>6 DEF Leases!Lease, Leases!Slots, Slots, owners
<1> QED BY <1>1, <1>2 DEF Scan

LEMMA StepLeases ==
    ASSUME IInv, OwnersKnown, OwnersKnown', [Next]_vars
    PROVE  [Leases!Next]_owners
<1> USE DEF Owners
<1>1. ASSUME NEW t \in Callers, Enqueue(t) \/ Retry(t) PROVE [Leases!Next]_owners
  BY <1>1, AcquireLeases DEF Leases!Next
<1>2. ASSUME NEW t \in Callers, PutBack(t) PROVE [Leases!Next]_owners
  BY <1>2, PutBackGives DEF Leases!Next
<1>3. ASSUME GiveBack PROVE [Leases!Next]_owners
  BY <1>3, GiveBackGives DEF Leases!Next
<1>4. ASSUME Scan PROVE [Leases!Next]_owners
  BY <1>4, ScanLeases DEF Leases!Next
<1>5. ASSUME UNCHANGED <<available, cleanerTodo, held>> PROVE [Leases!Next]_owners
  BY <1>5, SameOwners
<1>6. ASSUME NEW t \in Callers,
             \/ Request(t) \/ Isolate(t) \/ Attempt(t) \/ Launch(t) \/ Register(t)
             \/ Handshake(t) \/ Execute(t) \/ Respond(t) \/ Recycle(t) \/ Tidy(t)
      PROVE  UNCHANGED <<available, cleanerTodo, held>>
  BY <1>6 DEF Request, Isolate, Attempt, Launch, Register, Handshake, Execute, Respond,
              Recycle, Tidy, shared, cleaner
<1>7. ASSUME NEW c \in Contexts, RecordRelease(c) \/ NotifyRelease(c)
      PROVE  UNCHANGED <<available, cleanerTodo, held>>
  BY <1>7 DEF RecordRelease, NotifyRelease, shared, frame, cleaner
<1>8. ASSUME NEW s \in Stoppers, Begin(s) \/ StopStep(s)
      PROVE  UNCHANGED <<available, cleanerTodo, held>>
  BY <1>8 DEF Begin, StopStep, EndOne, Finish, shared, frame, cleaner
<1>9. ASSUME NEW i \in Slots, Receive \/ Dispose(i)
      PROVE  UNCHANGED <<available, cleanerTodo, held>>
  BY <1>9 DEF Receive, Dispose, shared, frame
<1>10. ASSUME UNCHANGED vars PROVE UNCHANGED <<available, cleanerTodo, held>>
  BY <1>10 DEF vars, shared, frame, cleaner
<1>11. ASSUME Receive PROVE UNCHANGED <<available, cleanerTodo, held>>
  BY <1>11 DEF Receive, shared, frame
<1> QED BY <1>1, <1>2, <1>3, <1>4, <1>5, <1>6, <1>7, <1>8, <1>9, <1>10, <1>11
        DEF Next, CallerStep, CleanerStep

LEMMA InitLeases == Init => Leases!Init
<1> SUFFICES ASSUME Init PROVE owners = [i \in Slots |-> Closed]
  BY DEF Leases!Init, Leases!Slots, Slots, owners
<1> QED BY NoConfusion DEF Init, owners, OwnerOf

\* The pool implements SlotLeases for every number of callers and slots.
THEOREM PoolLeasesSlots == Spec => LeasesSpec
<1>1. IInv /\ IInv' /\ [Next]_vars => [Leases!Next]_owners
  <2>1. IInv' => OwnersKnown'
    BY KnownOwners, PTL
  <2> QED BY <2>1, KnownOwners, StepLeases
<1> QED BY <1>1, InitLeases, Invariant, PTL DEF Spec, LeasesSpec, Leases!Spec, owners

-----------------------------------------------------------------------------
(* A stop reaches every process *)

\* Stop calls have reported no failure so far.
NoneFailed == \A s \in Stoppers : stopPc[s] \notin {"failing", "failed"}

\* The process of the worker of slot i, wherever the worker is, has its control in the
\* slot; a cancel that took the control has the process on its list.
Covered(i, p) ==
    /\ controls[i] \in {p, NoPid}
    /\ p \in alive /\ NoneFailed => controls[i] = p \/ \E s \in Stoppers : p \in stopTodo[s]

\* A slot without a worker has no control in the pool.
IdleCovered ==
    \A i \in Slots :
        /\ slots[i] # NoWorker => i \in available /\ Covered(i, slots[i].pid)
        /\ cleanerHolds[i] # NoWorker => i \in cleanerTodo /\ Covered(i, cleanerHolds[i].pid)
        /\ slots[i] = NoWorker /\ (i \in available \/ i > opened) => controls[i] = NoPid

\* Until a caller has registered a new worker, the control in its slot is of a process
\* that has ended.
Vacant(t) ==
    \/ pc[t] \in {"launch", "register"}
    \/ pc[t] \in {"isolate", "attempt"} /\ worker[t] = NoWorker

ServedCovered ==
    \A t \in Callers :
        /\ worker[t] # NoWorker => held[t] # NoSlot
        /\ worker[t] # NoWorker /\ pc[t] # "register" => Covered(held[t], worker[t].pid)
        /\ pc[t] = "launch" => worker[t] = NoWorker
        /\ Vacant(t) => controls[held[t]] \notin alive

Ready == \A s \in Stoppers : stopPc[s] = "ready" => stopTodo[s] = {}

Reach == IdleCovered /\ ServedCovered /\ Ready /\ Stoppable

LEMMA InitReach == Init => Reach
<1> SUFFICES ASSUME Init PROVE Reach
  OBVIOUS
<1>1. IdleCovered /\ ServedCovered /\ Ready /\ Stoppable
  BY NoConfusion DEF Init, IdleCovered, ServedCovered, Vacant, Ready, Stoppable
<1> QED BY <1>1 DEF Reach

\* Where the slots are that the pool does not serve a caller with.
LEMMA HeldApart ==
    ASSUME IInv, NEW t \in Callers, held[t] # NoSlot
    PROVE  /\ held[t] \in Slots /\ held[t] \notin available /\ held[t] \notin cleanerTodo
           /\ held[t] <= opened
           /\ \A u \in Callers : held[u] = held[t] => u = t
<1>1. held[t] \in Slots
  BY DEF IInv, TypeOK, Types
<1> QED BY <1>1 DEF IInv, SlotOwnership

LEMMA HeldWhenVacant ==
    ASSUME IInv, NEW t \in Callers, Vacant(t) PROVE held[t] \in Slots
BY NoConfusion DEF IInv, TypeOK, Types, Phases, Serving, Vacant

\* A step of a served caller that starts and registers no process.
OnlyWorker(t) ==
    /\ UNCHANGED <<slots, available, opened, controls, held, cleaner, stop>>
    /\ \A u \in Callers \ {t} : pc'[u] = pc[u] /\ worker'[u] = worker[u]
    /\ alive' \subseteq alive
    /\ pc'[t] # "register"
    /\ worker'[t] # NoWorker =>
         /\ worker[t] # NoWorker /\ worker'[t].pid = worker[t].pid
         /\ pc[t] # "register" /\ pc'[t] # "launch"
    /\ pc[t] = "register" => worker[t].pid \notin alive'
    /\ pc'[t] = "launch" \/ (pc'[t] \in {"isolate", "attempt"} /\ worker'[t] = NoWorker) =>
         controls[held[t]] \notin alive'

LEMMA OnlyWorkerReach ==
    ASSUME IInv, Reach, NEW t \in Callers, OnlyWorker(t) PROVE Reach'
<1>1. /\ UNCHANGED <<slots, available, opened, controls, held, cleanerTodo, cleanerHolds, stopPc, stopTodo>>
      /\ alive' \subseteq alive
  BY DEF OnlyWorker, cleaner, stop
<1>2. \A i, q : Covered(i, q) => Covered(i, q)'
  BY <1>1 DEF Covered, NoneFailed
<1>3. IdleCovered'
  BY <1>1, <1>2 DEF Reach, IdleCovered
<1>4. ServedCovered'
  <2>1. ASSUME NEW u \in Callers, u # t
        PROVE  /\ worker'[u] # NoWorker => held'[u] # NoSlot
               /\ worker'[u] # NoWorker /\ pc'[u] # "register" => Covered(held[u], worker[u].pid)'
               /\ pc'[u] = "launch" => worker'[u] = NoWorker
               /\ Vacant(u)' => controls'[held'[u]] \notin alive'
    BY <1>1, <1>2, <2>1 DEF OnlyWorker, Reach, ServedCovered, Vacant
  <2>2. /\ worker'[t] # NoWorker => held'[t] # NoSlot
        /\ worker'[t] # NoWorker /\ pc'[t] # "register" => Covered(held[t], worker[t].pid)'
        /\ pc'[t] = "launch" => worker'[t] = NoWorker
        /\ Vacant(t)' => controls'[held'[t]] \notin alive'
    BY <1>1, <1>2 DEF OnlyWorker, Reach, ServedCovered, Vacant
  <2> QED BY <2>1, <2>2 DEF ServedCovered
<1>5. Ready'
  BY <1>1 DEF Reach, Ready
<1>6. Stoppable'
  BY <1>1 DEF OnlyWorker, Reach, Stoppable
<1> QED BY <1>3, <1>4, <1>5, <1>6 DEF Reach

\* A worker with a control in its slot, or with none, leaves a vacant slot when it is killed.
LEMMA KilledVacates ==
    ASSUME IInv, Reach, NEW t \in Callers, worker[t] # NoWorker, pc[t] # "register"
    PROVE  controls[held[t]] \notin alive \ {worker[t].pid}
BY PoolAssumption DEF Reach, ServedCovered, Covered, IInv, TypeOK, Types

LEMMA AbandonOnly ==
    ASSUME IInv, Reach, NEW t \in Callers, NEW why, Abandon(t, why),
           pc[t] \in {"launch", "handshake", "execute", "inflight"},
           UNCHANGED <<slots, available, opened, controls, held, cleaner, stop>>
    PROVE  OnlyWorker(t)
<1>1. pc \in [Callers -> {"idle", "arriving", "queued", "isolate", "attempt", "launch",
                           "register", "handshake", "execute", "inflight", "recycle",
                           "tidy", "putback"}]
      /\ worker \in [Callers -> WorkerOrNone]
  BY DEF IInv, TypeOK, Types
<1>2. CASE worker[t] = NoWorker
  <2>1. pc[t] = "launch"
    BY <1>1, <1>2 DEF IInv, TypeOK, Phases
  <2>2. controls[held[t]] \notin alive
    BY <2>1 DEF Reach, ServedCovered, Vacant
  <2> QED BY <1>1, <1>2, <2>1, <2>2 DEF Abandon, Goto, OnlyWorker
<1>3. CASE worker[t] # NoWorker
  <2>1. controls[held[t]] \notin alive \ {worker[t].pid}
    BY <1>3, KilledVacates
  <2> QED BY <1>1, <1>3, <2>1 DEF Abandon, Goto, OnlyWorker
<1> QED BY <1>2, <1>3

\* The steps of a caller between its slot and its return.
LEMMA ServedOnly ==
    ASSUME IInv, Reach, NEW t \in Callers,
           \/ Isolate(t) \/ Attempt(t) \/ Handshake(t) \/ Execute(t) \/ Respond(t)
           \/ Recycle(t) \/ Tidy(t)
    PROVE  OnlyWorker(t)
<1>1. pc \in [Callers -> {"idle", "arriving", "queued", "isolate", "attempt", "launch",
                           "register", "handshake", "execute", "inflight", "recycle",
                           "tidy", "putback"}]
      /\ worker \in [Callers -> WorkerOrNone] /\ Types
  BY DEF IInv, TypeOK, Types
<1>2. worker[t] # NoWorker /\ pc[t] # "register" => controls[held[t]] \notin alive \ {worker[t].pid}
  BY KilledVacates
<1>3. Vacant(t) => controls[held[t]] \notin alive
  BY DEF Reach, ServedCovered
<1>4. UNCHANGED <<slots, available, opened, controls, held, cleaner, stop>>
  BY DEF Isolate, Attempt, Handshake, Execute, Respond, Recycle, Tidy, shared
<1>5. CASE Isolate(t)
  BY <1>1, <1>2, <1>3, <1>4, <1>5 DEF Isolate, Goto, OnlyWorker, Vacant
<1>6. CASE Attempt(t)
  BY <1>1, <1>3, <1>4, <1>6 DEF Attempt, Goto, OnlyWorker, Vacant
<1>7. CASE Handshake(t)
  <2>1. CASE \E why \in {"crashed", "failed"} : Abandon(t, why)
    BY <1>4, <1>7, <2>1, AbandonOnly DEF Handshake
  <2> QED BY <1>1, <1>4, <1>7, <2>1 DEF Handshake, Goto, OnlyWorker
<1>8. CASE Execute(t)
  <2>1. CASE \E why \in {"crashed", "failed", "cancelled"} : Abandon(t, why)
    BY <1>4, <1>8, <2>1, AbandonOnly DEF Execute
  <2>2. CASE worker' = [worker EXCEPT ![t] = Loaded(@, call[t].context)] /\ Goto(t, "inflight")
             /\ UNCHANGED alive
    <3>1. worker[t] \in Worker
      BY <1>1, <1>8 DEF Execute, IInv, TypeOK, Phases, WorkerOrNone
    <3>2. Loaded(worker[t], call[t].context).pid = worker[t].pid
      BY <3>1 DEF Loaded, Worker
    <3> QED BY <1>1, <1>4, <1>8, <2>2, <3>1, <3>2, NoConfusion DEF Execute, Goto, OnlyWorker
  <2> QED BY <1>8, <2>1, <2>2 DEF Execute
<1>9. CASE Respond(t)
  <2>1. CASE \E why \in {"crashed", "failed", "cancelled"} : Abandon(t, why)
    BY <1>4, <1>9, <2>1, AbandonOnly DEF Respond
  <2> QED BY <1>1, <1>4, <1>9, <2>1 DEF Respond, Goto, OnlyWorker
<1>10. CASE Recycle(t)
  BY <1>1, <1>4, <1>10 DEF Recycle, Goto, OnlyWorker
<1>11. CASE Tidy(t)
  <2>1. worker[t] # NoWorker => worker[t] \in Worker /\ Cleaned(worker[t]).pid = worker[t].pid
    BY <1>1, CleanedWorker DEF WorkerOrNone
  <2> QED BY <1>1, <1>4, <1>11, <2>1, NoConfusion DEF Tidy, Goto, OnlyWorker, Pending
<1> QED BY <1>5, <1>6, <1>7, <1>8, <1>9, <1>10, <1>11

LEMMA LaunchReach ==
    ASSUME IInv, Reach, NEW t \in Callers, Launch(t) PROVE Reach'
<1>1. UNCHANGED <<slots, available, opened, controls, held, cleaner, stop>> /\ pc[t] = "launch"
  BY DEF Launch, shared
<1>2. CASE \E why \in {"crashed", "failed"} : Abandon(t, why)
  BY <1>1, <1>2, AbandonOnly, OnlyWorkerReach
<1>3. ASSUME NEW p \in Pids \ (Referenced \cup alive),
             worker' = [worker EXCEPT ![t] = [pid |-> p, root |-> call[t].root, contexts |-> {}]],
             alive' = alive \cup {p}, Goto(t, "register")
      PROVE  Reach'
  <2>1. /\ \A i \in Slots : /\ controls[i] # p
                            /\ slots[i] # NoWorker => slots[i].pid # p
                            /\ cleanerHolds[i] # NoWorker => cleanerHolds[i].pid # p
        /\ \A u \in Callers : worker[u] # NoWorker => worker[u].pid # p
    BY DEF Referenced
  <2>2. ASSUME NEW i, NEW q, q # p, Covered(i, q) PROVE Covered(i, q)'
    BY <1>1, <1>3, <2>2 DEF Covered, NoneFailed, stop
  <2>3. /\ pc \in [Callers -> {"idle", "arriving", "queued", "isolate", "attempt", "launch",
                           "register", "handshake", "execute", "inflight", "recycle",
                           "tidy", "putback"}]
        /\ worker \in [Callers -> WorkerOrNone] /\ held[t] \in Slots
    BY <1>1, HeldWhenVacant DEF IInv, TypeOK, Types, Vacant
  <2>4. IdleCovered'
    BY <1>1, <2>1, <2>2 DEF Reach, IdleCovered, cleaner
  <2>5. ServedCovered'
    <3>1. ASSUME NEW u \in Callers, u # t
          PROVE  /\ worker'[u] # NoWorker => held'[u] # NoSlot
                 /\ worker'[u] # NoWorker /\ pc'[u] # "register" => Covered(held[u], worker[u].pid)'
                 /\ pc'[u] = "launch" => worker'[u] = NoWorker
                 /\ Vacant(u)' => controls'[held'[u]] \notin alive'
      <4>1. pc'[u] = pc[u] /\ worker'[u] = worker[u] /\ held' = held /\ controls' = controls
        BY <1>1, <1>3, <2>3, <3>1 DEF Goto
      <4>2. Vacant(u) => controls[held[u]] \notin alive \cup {p}
        BY <2>1, HeldWhenVacant DEF Reach, ServedCovered
      <4> QED BY <1>3, <2>1, <2>2, <4>1, <4>2 DEF Reach, ServedCovered, Vacant
    <3>2. /\ worker'[t] # NoWorker => held'[t] # NoSlot
          /\ pc'[t] = "register"
          /\ controls'[held'[t]] \notin alive'
      <4>1. controls[held[t]] \notin alive
        BY <1>1 DEF Reach, ServedCovered, Vacant
      <4> QED BY <1>1, <1>3, <2>1, <2>3, <4>1, NoConfusion DEF Goto
    <3> QED BY <3>1, <3>2 DEF ServedCovered
  <2>6. Ready' /\ Stoppable'
    BY <1>1, <1>3, <2>3 DEF Reach, Ready, Stoppable, Goto, stop
  <2> QED BY <2>4, <2>5, <2>6 DEF Reach
<1> QED BY <1>2, <1>3 DEF Launch

\* The control that a new one replaces is of a process that has ended.
LEMMA RegisterReach ==
    ASSUME IInv, Reach, NEW t \in Callers, Register(t) PROVE Reach'
<1>1. UNCHANGED <<slots, available, opened, held, cleaner, stop>> /\ pc[t] = "register"
  BY DEF Register
<1>2. /\ pc \in [Callers -> {"idle", "arriving", "queued", "isolate", "attempt", "launch",
                           "register", "handshake", "execute", "inflight", "recycle",
                           "tidy", "putback"}]
      /\ worker \in [Callers -> WorkerOrNone] /\ held[t] \in Slots
      /\ controls \in [Slots -> Pids \cup {NoPid}]
  BY <1>1, HeldWhenVacant DEF IInv, TypeOK, Types, Vacant
<1>3. CASE worker' = [worker EXCEPT ![t] = NoWorker] /\ alive' = alive \ {worker[t].pid}
           /\ Goto(t, "recycle") /\ UNCHANGED controls
  <2>1. OnlyWorker(t)
    BY <1>1, <1>2, <1>3 DEF OnlyWorker, Goto
  <2> QED BY <2>1, OnlyWorkerReach
<1>4. CASE controls' = [controls EXCEPT ![held[t]] = worker[t].pid] /\ Goto(t, "handshake")
           /\ UNCHANGED <<worker, alive>>
  <2>1. controls[held[t]] \notin alive
    BY <1>1 DEF Reach, ServedCovered, Vacant
  <2>2. /\ held[t] \notin available /\ held[t] \notin cleanerTodo /\ held[t] <= opened
        /\ \A u \in Callers : held[u] = held[t] => u = t
    BY <1>2, HeldApart, NoConfusion
  <2>3. opened \in Nat /\ Slots \subseteq Nat
    BY NoConfusion DEF IInv, TypeOK, Types
  <2>4. \A i \in Slots \ {held[t]} : controls'[i] = controls[i]
    BY <1>2, <1>4
  <2>5. ASSUME NEW i \in Slots, i # held[t], NEW q, Covered(i, q) PROVE Covered(i, q)'
    BY <1>1, <1>4, <2>4, <2>5 DEF Covered, NoneFailed, stop
  <2>6. IdleCovered'
    BY <1>1, <2>2, <2>3, <2>4, <2>5 DEF Reach, IdleCovered, cleaner
  <2>7. ServedCovered'
    <3>1. ASSUME NEW u \in Callers, u # t
          PROVE  /\ worker'[u] # NoWorker => held'[u] # NoSlot
                 /\ worker'[u] # NoWorker /\ pc'[u] # "register" => Covered(held[u], worker[u].pid)'
                 /\ pc'[u] = "launch" => worker'[u] = NoWorker
                 /\ Vacant(u)' => controls'[held'[u]] \notin alive'
      <4>1. pc'[u] = pc[u] /\ worker' = worker /\ held' = held /\ alive' = alive
        BY <1>1, <1>2, <1>4, <3>1 DEF Goto
      <4>2. held[u] # held[t] /\ held[u] \in Slots \cup {NoSlot}
        BY <2>2, <3>1 DEF IInv, TypeOK, Types
      <4>3. Vacant(u) => controls'[held[u]] = controls[held[u]]
        BY <2>4, <4>2, HeldWhenVacant
      <4> QED BY <2>5, <4>1, <4>2, <4>3 DEF Reach, ServedCovered, Vacant
    <3>2. /\ worker[t] # NoWorker /\ held'[t] # NoSlot /\ pc'[t] = "handshake"
          /\ Covered(held[t], worker[t].pid)'
      BY <1>1, <1>2, <1>4, NoConfusion DEF Covered, Goto, IInv, TypeOK, Phases
    <3> QED BY <1>1, <1>4, <3>1, <3>2 DEF ServedCovered, Vacant
  <2>8. Ready'
    BY <1>1 DEF Reach, Ready, stop
  <2>9. Stoppable'
    <3> SUFFICES ASSUME (\A s \in Stoppers : stopPc[s] \notin {"failing", "failed"}), NEW p \in alive
                 PROVE  \/ \E i \in Slots : controls'[i] = p
                        \/ \E s \in Stoppers : p \in stopTodo[s]
                        \/ \E u \in Callers : pc'[u] = "register" /\ worker[u].pid = p
      BY <1>1, <1>4 DEF Stoppable, stop
    <3>1. CASE \E i \in Slots : controls[i] = p
      BY <2>1, <2>4, <3>1
    <3>2. ASSUME NEW u \in Callers, pc[u] = "register", worker[u].pid = p
          PROVE  (\E i \in Slots : controls'[i] = p) \/ (pc'[u] = "register")
      BY <1>2, <1>4, <3>2 DEF Goto
    <3> QED BY <3>1, <3>2 DEF Reach, Stoppable
  <2> QED BY <2>6, <2>7, <2>8, <2>9 DEF Reach
<1> QED BY <1>3, <1>4 DEF Register

\* A worker that changes hands keeps its slot and with it its control.
LEMMA AcquireReach ==
    ASSUME IInv, Reach, NEW t \in Callers, Enqueue(t) \/ Retry(t) PROVE Reach'
<1>1. /\ pc[t] \in {"arriving", "queued"} /\ UNCHANGED <<cleaner, stop, alive>>
      /\ pc \in [Callers -> {"idle", "arriving", "queued", "isolate", "attempt", "launch",
                           "register", "handshake", "execute", "inflight", "recycle",
                           "tidy", "putback"}]
      /\ worker \in [Callers -> WorkerOrNone] /\ held \in [Callers -> Slots \cup {NoSlot}]
      /\ slots \in [Slots -> WorkerOrNone] /\ Types
  BY DEF Enqueue, Retry, IInv, TypeOK, Types
<1>2. held[t] = NoSlot /\ call[t] \in Call
  BY <1>1 DEF IInv, TypeOK, Types, Phases, Serving
<1>3. worker[t] = NoWorker
  BY <1>2 DEF Reach, ServedCovered
<1>4. ASSUME pc' \in [Callers -> {"idle", "queued"} \cup Serving \cup {"arriving"}],
             \A u \in Callers \ {t} : pc'[u] = pc[u], pc'[t] \in {"idle", "queued"},
             UNCHANGED <<shared, held, worker>>
      PROVE  Reach'
  <2>1. \A i, q : Covered(i, q) => Covered(i, q)'
    BY <1>1, <1>4 DEF Covered, NoneFailed, shared, stop
  <2>2. IdleCovered'
    BY <1>1, <1>4, <2>1 DEF Reach, IdleCovered, shared, cleaner
  <2>3. ServedCovered'
    BY <1>1, <1>3, <1>4, <2>1 DEF Reach, ServedCovered, Vacant, shared
  <2>4. Ready' /\ Stoppable'
    BY <1>1, <1>4 DEF Reach, Ready, Stoppable, shared, stop
  <2> QED BY <2>2, <2>3, <2>4 DEF Reach
<1>5. ASSUME NEW i \in Choices(call[t]), available' = available \ {i},
             opened' = IF i > opened THEN i ELSE opened,
             worker' = [worker EXCEPT ![t] = slots[i]], slots' = [slots EXCEPT ![i] = NoWorker],
             held' = [held EXCEPT ![t] = i], Goto(t, "isolate"), UNCHANGED controls
      PROVE  Reach'
  <2>1. i \in Slots /\ ((i \in available /\ i <= opened) \/ i = opened + 1)
    BY <1>1, <1>2, ChosenSlot
  <2>2. opened \in Nat /\ Slots \subseteq Nat /\ \A j \in available : j <= opened
    BY <1>1, NoConfusion DEF Types
  <2>3. \A j, q : Covered(j, q) => Covered(j, q)'
    BY <1>1, <1>5 DEF Covered, NoneFailed, stop
  <2>4. IdleCovered'
    BY <1>1, <1>5, <2>1, <2>2, <2>3 DEF Reach, IdleCovered, cleaner
  <2>5. ServedCovered'
    <3>1. ASSUME NEW u \in Callers, u # t
          PROVE  /\ worker'[u] # NoWorker => held'[u] # NoSlot
                 /\ worker'[u] # NoWorker /\ pc'[u] # "register" => Covered(held[u], worker[u].pid)'
                 /\ pc'[u] = "launch" => worker'[u] = NoWorker
                 /\ Vacant(u)' => controls'[held'[u]] \notin alive'
      BY <1>1, <1>5, <2>3, <3>1 DEF Reach, ServedCovered, Vacant, Goto
    <3>2. slots[i] # NoWorker => Covered(i, slots[i].pid)
      BY <2>1 DEF Reach, IdleCovered
    <3>3. slots[i] = NoWorker => controls[i] \notin alive
      <4>1. slots[i] = NoWorker => controls[i] = NoPid
        BY <2>1, <2>2 DEF Reach, IdleCovered
      <4>2. NoPid \notin alive
        BY <1>1, PoolAssumption DEF Types
      <4> QED BY <4>1, <4>2
    <3>4. worker'[t] = slots[i] /\ held'[t] = i /\ pc'[t] = "isolate"
      BY <1>1, <1>5 DEF Goto
    <3>5. /\ held'[t] # NoSlot
          /\ worker'[t] # NoWorker /\ pc'[t] # "register" => Covered(held[t], worker[t].pid)'
          /\ pc'[t] # "launch"
          /\ Vacant(t)' => controls'[held'[t]] \notin alive'
      <4>1. ASSUME slots[i] # NoWorker, NEW q, q = slots[i].pid PROVE Covered(i, q)'
        BY <2>3, <3>2, <4>1
      <4>2. worker'[t] # NoWorker => Covered(held[t], worker[t].pid)'
        BY <3>4, <4>1 DEF Covered, NoneFailed
      <4> QED BY <1>1, <1>5, <2>1, <3>3, <3>4, <4>2, NoConfusion DEF Vacant
    <3> QED BY <3>1, <3>5 DEF ServedCovered
  <2>6. Ready'
    BY <1>1 DEF Reach, Ready, stop
  <2>7. Stoppable'
    BY <1>1, <1>5 DEF Reach, Stoppable, stop, Goto
  <2> QED BY <2>4, <2>5, <2>6, <2>7 DEF Reach
<1>6. ASSUME NEW where \in {"idle", "queued"}, Goto(t, where)
      PROVE  /\ pc' \in [Callers -> {"idle", "queued"} \cup Serving \cup {"arriving"}]
             /\ \A u \in Callers \ {t} : pc'[u] = pc[u]
             /\ pc'[t] \in {"idle", "queued"}
  BY <1>1, <1>6 DEF Goto, Serving
<1>7. CASE UNCHANGED <<shared, held, worker>> /\ (Goto(t, "idle") \/ Goto(t, "queued"))
  BY <1>4, <1>6, <1>7
<1> QED BY <1>5, <1>7 DEF Enqueue, Retry, AcquireTurn

\* A slot goes back with a registered worker or without a control, and whatever process
\* nobody refers to any more is killed.
LEMMA ReturnReach ==
    ASSUME IInv, Reach, NEW i \in Slots, NEW w \in WorkerOrNone, Return(i, w),
           alive' = alive \cap Referenced', UNCHANGED stop,
           i \notin available, i <= opened, w # NoWorker => Covered(i, w.pid),
           \A j \in Slots : cleanerHolds'[j] # NoWorker =>
               j # i /\ j \in cleanerTodo' /\ cleanerHolds'[j] = cleanerHolds[j],
           \A u \in Callers :
               \/ /\ pc'[u] = pc[u] /\ held'[u] = held[u] /\ worker'[u] = worker[u]
                  /\ held[u] # i
               \/ pc'[u] = "idle" /\ worker'[u] = NoWorker /\ pc[u] # "register"
    PROVE  Reach'
<1>1. /\ slots \in [Slots -> WorkerOrNone] /\ controls \in [Slots -> Pids \cup {NoPid}]
      /\ available \in SUBSET Slots /\ held \in [Callers -> Slots \cup {NoSlot}]
      /\ alive \in SUBSET Pids
  BY IdleSlots DEF IInv, TypeOK, Types
<1>2. /\ \A j \in Slots \ {i} : slots'[j] = slots[j] /\ controls'[j] = controls[j]
      /\ available' = available \cup {i} /\ opened' = opened /\ slots'[i] = Kept(w)
      /\ slots[i] = NoWorker
  BY <1>1 DEF Return, Reach, IdleCovered
<1>3. ASSUME NEW j \in Slots, j # i, NEW q, Covered(j, q) PROVE Covered(j, q)'
  BY <1>2, <1>3 DEF Covered, NoneFailed, stop
<1>4. IdleCovered'
  <2>1. CASE Kept(w) = NoWorker
    <3>1. controls'[i] = NoPid
      BY <1>1, <2>1 DEF Return
    <3> QED BY <1>2, <1>3, <2>1, <3>1 DEF Reach, IdleCovered
  <2>2. CASE Kept(w) # NoWorker
    <3>1. Kept(w) = w /\ controls' = controls
      BY <2>2 DEF Kept, Return
    <3>2. Covered(i, w.pid)'
      BY <2>2, <3>1 DEF Covered, NoneFailed, stop
    <3> QED BY <1>2, <1>3, <2>2, <3>1, <3>2 DEF Reach, IdleCovered
  <2> QED BY <2>1, <2>2
<1>5. ServedCovered'
  <2> SUFFICES ASSUME NEW u \in Callers
               PROVE  /\ worker'[u] # NoWorker => held'[u] # NoSlot
                      /\ worker'[u] # NoWorker /\ pc'[u] # "register" => Covered(held[u], worker[u].pid)'
                      /\ pc'[u] = "launch" => worker'[u] = NoWorker
                      /\ Vacant(u)' => controls'[held'[u]] \notin alive'
    BY DEF ServedCovered
  <2>1. CASE pc'[u] = "idle" /\ worker'[u] = NoWorker
    BY <2>1 DEF Vacant
  <2>2. CASE /\ pc'[u] = pc[u] /\ held'[u] = held[u] /\ worker'[u] = worker[u]
             /\ held[u] # i
    <3>1. Vacant(u) => controls'[held[u]] = controls[held[u]]
      BY <1>2, <2>2, HeldWhenVacant
    <3>2. worker[u] # NoWorker /\ pc[u] # "register" => Covered(held[u], worker[u].pid)'
      BY <1>1, <1>3, <2>2 DEF Reach, ServedCovered
    <3> QED BY <2>2, <3>1, <3>2 DEF Reach, ServedCovered, Vacant
  <2> QED BY <2>1, <2>2
<1>6. Ready'
  BY DEF Reach, Ready, stop
<1>7. Stoppable'
  <2> SUFFICES ASSUME (\A s \in Stoppers : stopPc[s] \notin {"failing", "failed"}), NEW p \in alive'
               PROVE  \/ \E j \in Slots : controls'[j] = p
                      \/ \E s \in Stoppers : p \in stopTodo[s]
                      \/ \E u \in Callers : pc'[u] = "register" /\ worker'[u].pid = p
    BY DEF Stoppable, stop
  <2>1. /\ NoneFailed' /\ p \in Pids
        /\ \/ \E j \in Slots : \/ controls'[j] = p
                               \/ slots'[j] # NoWorker /\ slots'[j].pid = p
                               \/ cleanerHolds'[j] # NoWorker /\ cleanerHolds'[j].pid = p
           \/ \E u \in Callers : worker'[u] # NoWorker /\ worker'[u].pid = p
           \/ \E s \in Stoppers : p \in stopTodo'[s]
    BY <1>1 DEF Referenced, NoneFailed, stop
  <2>2. ASSUME NEW j \in Slots, Covered(j, p)'
        PROVE  controls'[j] = p \/ \E s \in Stoppers : p \in stopTodo[s]
    BY <2>1, <2>2 DEF Covered, stop
  <2>3. ASSUME NEW j \in Slots,
               \/ slots'[j] # NoWorker /\ slots'[j].pid = p
               \/ cleanerHolds'[j] # NoWorker /\ cleanerHolds'[j].pid = p
        PROVE  Covered(j, p)'
    BY <1>4, <2>3 DEF IdleCovered
  <2>4. ASSUME NEW u \in Callers, worker'[u] # NoWorker, worker'[u].pid = p, pc'[u] # "register"
        PROVE  held'[u] \in Slots /\ Covered(held[u], p)'
    <3>1. held'[u] = held[u] /\ held'[u] # NoSlot
      BY <1>5, <2>4 DEF ServedCovered
    <3> QED BY <1>1, <1>5, <2>4, <3>1 DEF ServedCovered
  <2>5. ASSUME NEW u \in Callers, worker'[u] # NoWorker, worker'[u].pid = p, pc'[u] # "register"
        PROVE  (\E j \in Slots : controls'[j] = p) \/ \E s \in Stoppers : p \in stopTodo[s]
    BY <2>1, <2>4, <2>5 DEF Covered, stop
  <2> QED BY <2>1, <2>2, <2>3, <2>5 DEF stop
<1> QED BY <1>4, <1>5, <1>6, <1>7 DEF Reach

LEMMA PutBackReach ==
    ASSUME IInv, Reach, NEW t \in Callers, PutBack(t) PROVE Reach'
<1>1. /\ pc[t] = "putback" /\ held[t] \in Slots /\ held[t] # NoSlot /\ Types
      /\ worker[t] \in WorkerOrNone
  BY NoConfusion DEF PutBack, IInv, TypeOK, Types, Phases, Serving
<1>2. /\ held[t] \notin available /\ held[t] \notin cleanerTodo /\ held[t] <= opened
      /\ \A u \in Callers : held[u] = held[t] => u = t
  BY <1>1, HeldApart
<1>3. worker[t] # NoWorker => Covered(held[t], worker[t].pid)
  BY <1>1 DEF Reach, ServedCovered
<1>4. \A j \in Slots : cleanerHolds'[j] # NoWorker =>
          j # held[t] /\ j \in cleanerTodo' /\ cleanerHolds'[j] = cleanerHolds[j]
  BY <1>2 DEF PutBack, cleaner, Reach, IdleCovered
<1>5. \A u \in Callers :
          \/ /\ pc'[u] = pc[u] /\ held'[u] = held[u] /\ worker'[u] = worker[u]
             /\ held[u] # held[t]
          \/ pc'[u] = "idle" /\ worker'[u] = NoWorker /\ pc[u] # "register"
  BY <1>1, <1>2 DEF PutBack, Goto, Types
<1>6. Return(held[t], worker[t]) /\ alive' = alive \cap Referenced' /\ UNCHANGED stop
  BY DEF PutBack
<1> QED BY <1>1, <1>2, <1>3, <1>4, <1>5, <1>6, ReturnReach

LEMMA GiveBackReach ==
    ASSUME IInv, Reach, GiveBack PROVE Reach'
<1>1. cleanerAt \in cleanerTodo /\ cleanerAt \in Slots /\ cleanerHolds[cleanerAt] \in WorkerOrNone
      /\ Types
  BY DEF IInv, TypeOK, Types, CleanerPhases, GiveBack
<1>2. cleanerAt \notin available /\ cleanerAt <= opened /\ \A u \in Callers : held[u] # cleanerAt
  BY <1>1 DEF IInv, SlotOwnership
<1>3. cleanerHolds[cleanerAt] # NoWorker => Covered(cleanerAt, cleanerHolds[cleanerAt].pid)
  BY <1>1 DEF Reach, IdleCovered
<1>4. \A j \in Slots : cleanerHolds'[j] # NoWorker =>
          j # cleanerAt /\ j \in cleanerTodo' /\ cleanerHolds'[j] = cleanerHolds[j]
  BY <1>1 DEF GiveBack, Types, Reach, IdleCovered
<1>5. /\ Return(cleanerAt, cleanerHolds[cleanerAt]) /\ alive' = alive \cap Referenced'
      /\ UNCHANGED stop /\ UNCHANGED <<pc, held, worker>>
  BY DEF GiveBack, frame
<1> QED BY <1>1, <1>2, <1>3, <1>4, <1>5, ReturnReach

LEMMA CleanerReach ==
    ASSUME IInv, Reach, NEW i \in Slots, Receive \/ Scan \/ Dispose(i) PROVE Reach'
<1>1. UNCHANGED <<controls, opened, frame, stop>> /\ Types
  BY DEF Receive, Scan, Dispose, shared, IInv, TypeOK
<1>2. alive' \subseteq alive
  BY DEF Receive, Scan, Dispose
<1>3. \A j, q : Covered(j, q) => Covered(j, q)'
  BY <1>1, <1>2 DEF Covered, NoneFailed, stop
<1>4. ServedCovered' /\ Ready' /\ Stoppable'
  BY <1>1, <1>2, <1>3 DEF Reach, ServedCovered, Vacant, Ready, Stoppable, frame, stop
<1>5. CASE Receive
  BY <1>1, <1>3, <1>4, <1>5 DEF Receive, Reach, IdleCovered, shared
<1>6. CASE Scan
  <2> DEFINE stale == {j \in available : Pending(slots[j])}
  <2>1. CASE UNCHANGED <<available, slots, cleanerTodo, cleanerHolds>>
    BY <1>1, <1>3, <1>4, <2>1 DEF Reach, IdleCovered
  <2>2. CASE /\ cleanerTodo' = stale
             /\ cleanerHolds' = [j \in Slots |-> IF j \in stale THEN slots[j] ELSE NoWorker]
             /\ slots' = [j \in Slots |-> IF j \in stale THEN NoWorker ELSE slots[j]]
             /\ available' = available \ stale
    <3>1. stale \subseteq available /\ \A j \in available : j <= opened
      BY <1>1 DEF Types
    <3> HIDE DEF stale
    <3>2. opened \in Nat /\ Slots \subseteq Nat
      BY <1>1, NoConfusion DEF Types
    <3>3. IdleCovered'
      BY <1>1, <1>3, <2>2, <3>1, <3>2 DEF Reach, IdleCovered
    <3> QED BY <1>4, <3>3 DEF Reach
  <2> QED BY <1>6, <2>1, <2>2 DEF Scan
<1>7. CASE Dispose(i)
  <2>1. cleanerHolds[i] # NoWorker =>
            cleanerHolds[i] \in Worker /\ Cleaned(cleanerHolds[i]).pid = cleanerHolds[i].pid
    BY <1>1, CleanedWorker DEF Types, WorkerOrNone
  <2>2. cleanerHolds[i] # NoWorker /\ i \in cleanerTodo
    BY <1>7, NoConfusion DEF Dispose, IInv, CleanerPhases
  <2>3. \A j \in Slots : cleanerHolds'[j] # NoWorker =>
            cleanerHolds[j] # NoWorker /\ cleanerHolds'[j].pid = cleanerHolds[j].pid
    BY <1>1, <1>7, <2>1, <2>2 DEF Dispose, Types
  <2>4. UNCHANGED <<slots, available, cleanerTodo>>
    BY <1>7 DEF Dispose, shared
  <2>5. IdleCovered'
    BY <1>1, <1>3, <2>3, <2>4 DEF Reach, IdleCovered
  <2> QED BY <1>4, <2>5 DEF Reach
<1> QED BY <1>5, <1>6, <1>7

\* A stop call takes over what it takes out of the slots, and ends it or reports a failure.
LEMMA StopReach ==
    ASSUME IInv, Reach, NEW s \in Stoppers, Begin(s) \/ StopStep(s) PROVE Reach'
<1>1. UNCHANGED <<slots, available, opened, frame, cleaner>> /\ Types
  BY DEF Begin, StopStep, EndOne, Finish, shared, IInv, TypeOK
<1>2. ASSUME alive' \subseteq alive, UNCHANGED controls,
             \A i, q : Covered(i, q) => Covered(i, q)', Ready', Stoppable'
      PROVE  Reach'
  <2>1. IdleCovered'
    BY <1>1, <1>2 DEF Reach, IdleCovered, cleaner
  <2>2. ServedCovered'
    BY <1>1, <1>2 DEF Reach, ServedCovered, Vacant, frame
  <2> QED BY <1>2, <2>1, <2>2 DEF Reach
<1>3. CASE Begin(s)
  <2> DEFINE taken == {controls[i] : i \in Collected(s)}
  <2>1. /\ stopTodo[s] = {} /\ stopTodo' = [stopTodo EXCEPT ![s] = taken] /\ alive' = alive
        /\ stopPc' = [stopPc EXCEPT ![s] = "ending"] /\ stopPc[s] = "ready"
    BY <1>3 DEF Begin, Reach, Ready
  <2> HIDE DEF taken
  <2>2. NoneFailed <=> NoneFailed'
    BY <1>1, <2>1 DEF NoneFailed, Types
  <2>3. \A q : (\E r \in Stoppers : q \in stopTodo[r]) => \E r \in Stoppers : q \in stopTodo'[r]
    <3> SUFFICES ASSUME NEW q, NEW r \in Stoppers, q \in stopTodo[r]
                 PROVE  q \in stopTodo'[r]
      OBVIOUS
    <3> QED BY <1>1, <2>1 DEF Types
  <2>4. ASSUME NEW i \in Slots
        PROVE  \/ controls'[i] = controls[i]
               \/ controls'[i] = NoPid /\ controls[i] \in stopTodo'[s]
    BY <1>1, <1>3, <2>1 DEF Begin, Types, taken
  <2>5. ASSUME NEW i \in Slots, NEW q, Covered(i, q) PROVE Covered(i, q)'
    BY <2>1, <2>2, <2>3, <2>4, <2>5 DEF Covered
  <2>6. IdleCovered'
    <3>1. \A i \in Slots : controls[i] = NoPid => controls'[i] = NoPid
      BY <1>1, <1>3 DEF Begin, Types
    <3> QED BY <1>1, <2>5, <3>1 DEF Reach, IdleCovered, cleaner
  <2>7. ServedCovered'
    <3> SUFFICES ASSUME NEW u \in Callers
                 PROVE  /\ worker[u] # NoWorker => held[u] # NoSlot
                        /\ worker[u] # NoWorker /\ pc[u] # "register" =>
                             Covered(held[u], worker[u].pid)'
                        /\ pc[u] = "launch" => worker[u] = NoWorker
                        /\ Vacant(u) => controls'[held[u]] \notin alive
      BY <1>1, <2>1 DEF ServedCovered, Vacant, frame
    <3>1. held[u] \in Slots \cup {NoSlot}
      BY <1>1 DEF Types
    <3>2. ASSUME worker[u] # NoWorker, pc[u] # "register", NEW q, q = worker[u].pid
          PROVE  Covered(held[u], q)'
      <4>1. held[u] \in Slots /\ Covered(held[u], q)
        BY <3>1, <3>2 DEF Reach, ServedCovered
      <4>2. \A i \in Slots : Covered(i, q) => Covered(i, q)'
        BY <2>5
      <4> QED BY <1>1, <4>1, <4>2 DEF frame
    <3>3. Vacant(u) => controls'[held[u]] \notin alive
      <4>1. NoPid \notin alive
        BY <1>1, PoolAssumption DEF Types
      <4> QED BY <2>4, <4>1, HeldWhenVacant DEF Reach, ServedCovered
    <3>4. worker[u] # NoWorker /\ pc[u] # "register" => Covered(held[u], worker[u].pid)'
      BY <1>1, <3>2 DEF frame
    <3> QED BY <3>3, <3>4 DEF Reach, ServedCovered
  <2>8. Ready'
    BY <1>1, <2>1 DEF Reach, Ready, Types
  <2>9. Stoppable'
    <3> SUFFICES ASSUME NoneFailed, NEW p \in alive
                 PROVE  \/ \E i \in Slots : controls'[i] = p
                        \/ \E r \in Stoppers : p \in stopTodo'[r]
                        \/ \E u \in Callers : pc[u] = "register" /\ worker[u].pid = p
      BY <1>1, <2>1, <2>2 DEF Stoppable, NoneFailed, frame
    <3> QED BY <2>3, <2>4 DEF Reach, Stoppable, NoneFailed
  <2> QED BY <2>6, <2>7, <2>8, <2>9 DEF Reach
<1>4. CASE EndOne(s)
  <2>1. PICK p \in stopTodo[s] :
          /\ stopTodo' = [stopTodo EXCEPT ![s] = @ \ {p}]
          /\ UNCHANGED controls
          /\ \/ alive' = alive \ {p} /\ UNCHANGED stopPc
             \/ stopPc' = [stopPc EXCEPT ![s] = "failing"] /\ alive' = alive \cap Referenced'
    BY <1>4 DEF EndOne, shared
  <2>2. stopPc[s] \in {"ending", "failing"}
    BY <1>4 DEF EndOne
  <2>3. Ready'
    BY <1>1, <2>1, <2>2 DEF Reach, Ready, Types
  <2>4. CASE alive' = alive \ {p} /\ UNCHANGED stopPc
    <3>1. \A q \in alive' : \A r \in Stoppers : q \in stopTodo[r] => q \in stopTodo'[r]
      BY <1>1, <2>1, <2>4 DEF Types
    <3>2. \A i, q : Covered(i, q) => Covered(i, q)'
      BY <2>1, <2>4, <3>1 DEF Covered, NoneFailed
    <3>3. Stoppable'
      BY <1>1, <2>1, <2>4, <3>1 DEF Reach, Stoppable, frame
    <3> QED BY <1>2, <2>1, <2>3, <2>4, <3>2, <3>3
  <2>5. CASE stopPc' = [stopPc EXCEPT ![s] = "failing"] /\ alive' = alive \cap Referenced'
    <3>1. stopPc'[s] = "failing"
      BY <1>1, <2>5 DEF Types
    <3>2. \A i, q : Covered(i, q) => Covered(i, q)'
      BY <2>1, <3>1 DEF Covered, NoneFailed
    <3>3. Stoppable'
      BY <3>1 DEF Stoppable
    <3> QED BY <1>2, <2>1, <2>3, <2>5, <3>2, <3>3
  <2> QED BY <2>1, <2>4, <2>5
<1>5. CASE Finish(s)
  <2>1. /\ UNCHANGED <<controls, stopTodo, alive>>
        /\ stopPc' = [stopPc EXCEPT ![s] = IF @ = "ending" THEN "done" ELSE "failed"]
        /\ stopPc[s] \in {"ending", "failing"}
    BY <1>5 DEF Finish, shared
  <2>2. NoneFailed' => NoneFailed
    BY <1>1, <2>1 DEF NoneFailed, Types
  <2>3. \A i, q : Covered(i, q) => Covered(i, q)'
    BY <2>1, <2>2 DEF Covered
  <2>4. Ready'
    BY <1>1, <2>1 DEF Reach, Ready, Types
  <2>5. Stoppable'
    BY <1>1, <2>1, <2>2 DEF Reach, Stoppable, NoneFailed, frame
  <2> QED BY <1>2, <2>1, <2>3, <2>4, <2>5
<1> QED BY <1>3, <1>4, <1>5 DEF StopStep

LEMMA OtherReach ==
    ASSUME IInv, Reach,
           \/ \E t \in Callers : Request(t)
           \/ \E c \in Contexts : RecordRelease(c) \/ NotifyRelease(c)
           \/ UNCHANGED vars
    PROVE  Reach'
<1>1. /\ UNCHANGED <<slots, available, opened, controls, held, worker, cleanerTodo, cleanerHolds,
                     stopPc, stopTodo, alive>>
      /\ \A t \in Callers : pc'[t] = pc[t] \/ (pc[t] = "idle" /\ pc'[t] = "arriving")
      /\ Types
  <2>1. ASSUME NEW t \in Callers, Request(t)
        PROVE  /\ UNCHANGED <<shared, held, worker, cleaner, stop, alive>>
               /\ \A u \in Callers : pc'[u] = pc[u] \/ (pc[u] = "idle" /\ pc'[u] = "arriving")
    BY <2>1 DEF Request, Goto, IInv, TypeOK, Types
  <2>2. ASSUME NEW c \in Contexts, RecordRelease(c) \/ NotifyRelease(c)
        PROVE  UNCHANGED <<slots, available, opened, controls, frame, cleaner, stop, alive>>
    BY <2>2 DEF RecordRelease, NotifyRelease, shared
  <2> QED BY <2>1, <2>2 DEF vars, shared, frame, cleaner, stop, IInv, TypeOK
<1>2. \A i, q : Covered(i, q) => Covered(i, q)'
  BY <1>1 DEF Covered, NoneFailed
<1>3. IdleCovered' /\ Ready'
  BY <1>1, <1>2 DEF Reach, IdleCovered, Ready
<1>4. ServedCovered'
  BY <1>1, <1>2 DEF Reach, ServedCovered, Vacant
<1>5. Stoppable'
  BY <1>1 DEF Reach, Stoppable
<1> QED BY <1>3, <1>4, <1>5 DEF Reach

LEMMA StepReach == IInv /\ Reach /\ [Next]_vars => Reach'
<1> SUFFICES ASSUME IInv, Reach, [Next]_vars PROVE Reach'
  OBVIOUS
<1>1. ASSUME NEW t \in Callers, CallerStep(t) PROVE Reach'
  BY <1>1, ServedOnly, OnlyWorkerReach, AcquireReach, LaunchReach, RegisterReach, PutBackReach
     DEF CallerStep
<1>2. CASE CleanerStep
  <2>1. \E i \in Slots : TRUE
    BY PoolAssumption DEF Slots
  <2> QED BY <1>2, <2>1, CleanerReach, GiveBackReach DEF CleanerStep
<1> QED BY <1>1, <1>2, StopReach, OtherReach DEF Next

\* In every interleaving of requests, cleanups and overlapping stop calls, a process that
\* runs is one that a stop call reaches, unless a stop call has reported a failure.
THEOREM StopsReach == Spec => []Stoppable
<1>1. Spec => []Reach
  BY InitReach, StepReach, Invariant, PTL DEF Spec
<1>2. Reach => Stoppable
  BY DEF Reach
<1> QED BY <1>1, <1>2, PTL

-----------------------------------------------------------------------------
(* No caller sleeps through its turn *)

\* What decides who is first; the queue is that of a caller who is not asleep.
LEMMA FirstSame ==
    ASSUME IInv, NEW t \in Callers,
           UNCHANGED <<waiting, affinity, available, opened>>,
           \A u \in Callers : IsIn(waiting, u) => call'[u] = call[u]
    PROVE  IsFirst(waiting, t) <=> IsFirst(waiting, t)'
<1>1. \A n \in 1..Len(waiting) : waiting[n] \in Callers /\ IsIn(waiting, waiting[n])
  BY DEF IInv, TypeOK, Types, IsIn
<1>2. \A n \in 1..Len(waiting) : Runnable(waiting[n]) <=> Runnable(waiting[n])'
  BY <1>1 DEF Runnable, Claimed
<1>3. \A n \in 1..Len(waiting) : \A m \in 1..(n - 1) : m \in 1..Len(waiting)
  BY DEF IInv, TypeOK, Types
<1> QED BY <1>2, <1>3 DEF IsFirst

LEMMA StepWakes ==
    IInv /\ NoLostWakeup /\ [Next]_vars => NoLostWakeup'
<1> SUFFICES ASSUME IInv, NoLostWakeup, [Next]_vars PROVE NoLostWakeup'
  OBVIOUS
<1>1. ASSUME UNCHANGED <<waiting, asleep, affinity, available, opened, stopped, cleanerTodo>>,
             \A u \in Callers : IsIn(waiting, u) => call'[u] = call[u]
      PROVE  NoLostWakeup'
  <2>1. asleep \in SUBSET Callers
    BY DEF IInv, TypeOK, Types
  <2> QED BY <1>1, <2>1, FirstSame DEF NoLostWakeup
<1>2. CASE asleep' = {}
  BY <1>2 DEF NoLostWakeup
<1>3. ASSUME NEW t \in Callers, Request(t) PROVE NoLostWakeup'
  <2>1. ~IsIn(waiting, t) /\ \A u \in Callers \ {t} : call'[u] = call[u]
    BY <1>3 DEF Request, IInv, TypeOK, Types, Phases
  <2> QED BY <1>1, <1>3, <2>1 DEF Request, shared, queue, cleaner
<1>4. ASSUME NEW t \in Callers, Enqueue(t) \/ Retry(t) PROVE NoLostWakeup'
  <2>1. CASE stopped
    <3>1. asleep = {} /\ asleep' \subseteq asleep
      BY <1>4, <2>1 DEF Enqueue, Retry, AcquireTurn, NoLostWakeup
    <3> QED BY <1>2, <3>1
  <2>2. CASE ~stopped /\ asleep' # {}
    <3>1. PICK q, sleepers :
            /\ ~IsFirst(q, t) /\ waiting' = q /\ asleep' = sleepers \cup {t}
            /\ UNCHANGED <<shared, call>>
            /\ sleepers = {} \/ (sleepers = asleep /\ q = waiting)
      <4>1. ASSUME NEW q, NEW sleepers, AcquireTurn(t, q, sleepers)
            PROVE  /\ ~IsFirst(q, t) /\ waiting' = q /\ asleep' = sleepers \cup {t}
                   /\ UNCHANGED <<shared, call>>
        BY <2>2, <4>1 DEF AcquireTurn
      <4>2. CASE Enqueue(t)
        BY <4>1, <4>2 DEF Enqueue
      <4>3. CASE Retry(t)
        BY <4>1, <4>3 DEF Retry
      <4> QED BY <1>4, <4>2, <4>3
    <3>2. \A u : IsFirst(q, u) <=> IsFirst(q, u)'
      BY <3>1 DEF IsFirst, Runnable, Claimed, shared
    <3>3. UNCHANGED cleanerTodo /\ UNCHANGED stopped
      BY <1>4, <3>1 DEF Enqueue, Retry, cleaner, shared
    <3> QED BY <2>2, <3>1, <3>2, <3>3 DEF NoLostWakeup
  <2> QED BY <1>2, <2>1, <2>2
<1>5. ASSUME NEW t \in Callers,
             \/ Isolate(t) \/ Attempt(t) \/ Launch(t) \/ Register(t) \/ Handshake(t)
             \/ Execute(t) \/ Respond(t) \/ Recycle(t) \/ Tidy(t) \/ PutBack(t)
      PROVE  NoLostWakeup'
  <2>1. \/ asleep' = {}
        \/ UNCHANGED <<waiting, asleep, affinity, available, opened, stopped, cleanerTodo, call>>
    BY <1>5 DEF Isolate, Attempt, Launch, Register, Handshake, Execute, Respond, Recycle, Tidy,
                PutBack, Return, ForgetOtherRoots, shared, queue, cleaner
  <2> QED BY <1>1, <1>2, <2>1
<1>6. ASSUME NEW i \in Slots, Receive \/ Dispose(i) \/ GiveBack PROVE NoLostWakeup'
  <2>1. \/ asleep' = {}
        \/ UNCHANGED <<waiting, asleep, affinity, available, opened, stopped, cleanerTodo, call>>
    BY <1>6 DEF Receive, Dispose, GiveBack, Return, shared, queue, frame
  <2> QED BY <1>1, <1>2, <2>1
<1>7. CASE Scan
  <2>1. CASE UNCHANGED <<available, cleanerTodo>>
    BY <1>1, <1>7, <2>1 DEF Scan, queue, frame
  <2>2. CASE cleanerTodo' # {}
    BY <1>7, <2>2 DEF Scan, NoLostWakeup, queue
  <2> QED BY <1>7, <2>1, <2>2 DEF Scan
<1>8. ASSUME NEW c \in Contexts, RecordRelease(c) \/ NotifyRelease(c) PROVE NoLostWakeup'
  BY <1>1, <1>2, <1>8 DEF RecordRelease, NotifyRelease, shared, queue, frame, cleaner
<1>9. ASSUME NEW s \in Stoppers, Begin(s) \/ StopStep(s) PROVE NoLostWakeup'
  BY <1>1, <1>2, <1>9 DEF Begin, StopStep, EndOne, Finish, shared, queue, frame, cleaner
<1>10. CASE UNCHANGED vars
  BY <1>1, <1>10 DEF vars, shared, queue, frame, cleaner
<1>11. \E i \in Slots : TRUE
  BY PoolAssumption DEF Slots
<1> QED BY <1>3, <1>4, <1>5, <1>6, <1>7, <1>8, <1>9, <1>10, <1>11
        DEF Next, CallerStep, CleanerStep

\* Every step that makes a caller the first that can take a slot, or stops the pool, wakes
\* the callers that sleep.
THEOREM WakeupsReach == Spec => []NoLostWakeup
<1>1. Init => NoLostWakeup
  BY DEF Init, NoLostWakeup
<1> QED BY <1>1, StepWakes, Invariant, PTL DEF Spec

-----------------------------------------------------------------------------
(* No more processes run than there are slots *)

\* Slot i, or who has it, has a worker with process p.
Works(i, p) ==
    \/ slots[i] # NoWorker /\ slots[i].pid = p
    \/ cleanerHolds[i] # NoWorker /\ cleanerHolds[i].pid = p
    \/ \E t \in Callers : held[t] = i /\ worker[t] # NoWorker /\ worker[t].pid = p

\* A control of process p is in slot i, or with its worker.
Refers(i, p) == controls[i] = p \/ Works(i, p)

\* A caller that starts a process, or is about to.
Bare(t) ==
    \/ pc[t] = "launch"
    \/ ~stopped /\ pc[t] \in {"isolate", "attempt"} /\ worker[t] = NoWorker

\* A slot that a process is started for, now or once it is acquired.
Empty(i) ==
    \/ \E t \in Callers : held[t] = i /\ Bare(t)
    \/ ~stopped /\ slots[i] = NoWorker /\ (i \in available \/ i > opened)

\* The slot that each process was started for: no two for one slot, not another than that
\* of its worker, and none for a slot that the next is started for.
Homed(home) ==
    /\ \A p, q \in alive : home[p] = home[q] => p = q
    /\ \A p \in alive, i \in Slots : /\ Refers(i, p) => home[p] = i
                                     /\ Empty(i) => home[p] # i
                                     /\ \A q \in Pids : Works(i, q) /\ home[p] = i => p = q

\* A process that a failed kill left behind keeps the slot it had, until the slot is given
\* back and nobody has its control.
Homes == \E home \in [alive -> Slots] : Homed(home)

\* Only a stop call has anything to end.
Stops == ~stopped => \A s \in Stoppers : stopPc[s] = "ready"

LEMMA InitHomes == Init => Homes /\ Stops
<1> SUFFICES ASSUME Init PROVE Homes /\ Stops
  OBVIOUS
<1>1. alive = {} /\ Stops
  BY DEF Init, Stops
<1>2. [p \in alive |-> 1] \in [alive -> Slots] /\ Homed([p \in alive |-> 1])
  BY <1>1 DEF Homed
<1> QED BY <1>1, <1>2 DEF Homes

\* A step that starts no process moves none to another slot.
LEMMA HomesKept ==
    ASSUME NEW home \in [alive -> Slots], Homed(home), alive' \subseteq alive,
           \A p \in Pids, i \in Slots : Works(i, p)' => Works(i, p),
           \A p \in alive', i \in Slots : controls'[i] = p => Refers(i, p), alive \subseteq Pids,
           \A p \in alive', i \in Slots : Empty(i)' => home[p] # i
    PROVE  Homes'
<1>1. PICK h : h = [p \in alive' |-> home[p]]
  OBVIOUS
<1>2. h \in [alive' -> Slots]
  BY <1>1
<1>3. \A p, q \in alive' : h[p] = h[q] => p = q
  BY <1>1 DEF Homed
<1>4. ASSUME NEW p \in alive', NEW i \in Slots
      PROVE  /\ Refers(i, p)' => h[p] = i
             /\ Empty(i)' => h[p] # i
             /\ \A q \in Pids : Works(i, q)' /\ h[p] = i => p = q
  <2>1. Refers(i, p)' => Refers(i, p)
    BY DEF Refers
  <2> QED BY <1>1, <2>1 DEF Homed
<1>5. Homed(h)'
  BY <1>3, <1>4 DEF Homed
<1> QED BY <1>2, <1>5 DEF Homes

\* A caller whose worker is gone has none but a process that has ended in its slot.
Emptied(t) == Bare(t)' => Bare(t) \/ (worker[t] # NoWorker /\ worker[t].pid \notin alive')

LEMMA OnlyWorkerHomes ==
    ASSUME IInv, Reach, Homes, NEW t \in Callers, OnlyWorker(t), stopped' = stopped,
           pc[t] # "register", Emptied(t), held[t] \in Slots
    PROVE  Homes'
<1>1. PICK home \in [alive -> Slots] : Homed(home)
  BY DEF Homes
<1>2. /\ UNCHANGED <<slots, available, opened, controls, held, cleanerHolds>>
      /\ alive' \subseteq alive
      /\ \A u \in Callers \ {t} : pc'[u] = pc[u] /\ worker'[u] = worker[u]
      /\ worker'[t] # NoWorker => worker[t] # NoWorker /\ worker'[t].pid = worker[t].pid
  BY DEF OnlyWorker, cleaner
<1>3. ASSUME NEW p \in Pids, NEW i \in Slots, Works(i, p)' PROVE Works(i, p)
  <2>1. ASSUME NEW u \in Callers, held'[u] = i, worker'[u] # NoWorker, worker'[u].pid = p
        PROVE  held[u] = i /\ worker[u] # NoWorker /\ worker[u].pid = p
    BY <1>2, <2>1
  <2> QED BY <1>2, <1>3, <2>1 DEF Works
<1>4. ASSUME NEW p \in alive', NEW i \in Slots, Empty(i)' PROVE home[p] # i
  <2>1. p \in alive
    BY <1>2
  <2>2. CASE ~stopped' /\ slots'[i] = NoWorker /\ (i \in available' \/ i > opened')
    BY <1>1, <1>2, <2>1, <2>2 DEF Empty, Homed
  <2>3. ASSUME NEW u \in Callers, u # t, held'[u] = i, Bare(u)' PROVE home[p] # i
    <3>1. held[u] = i /\ Bare(u)
      BY <1>2, <2>3 DEF Bare
    <3> QED BY <1>1, <2>1, <3>1 DEF Empty, Homed
  <2>4. ASSUME held'[t] = i, Bare(t)' PROVE home[p] # i
    <3>1. held[t] = i
      BY <1>2, <2>4
    <3>2. CASE Bare(t)
      BY <1>1, <2>1, <3>1, <3>2 DEF Empty, Homed
    <3>3. CASE worker[t] # NoWorker /\ worker[t].pid \notin alive'
      <4>1. Works(i, worker[t].pid) /\ worker[t].pid \in Pids
        BY <3>1, <3>3 DEF Works, IInv, TypeOK, Types, WorkerOrNone, Worker
      <4> QED BY <1>1, <2>1, <3>3, <4>1 DEF Homed
    <3> QED BY <2>4, <3>2, <3>3 DEF Emptied
  <2> QED BY <1>4, <2>2, <2>3, <2>4 DEF Empty
<1>5. alive \subseteq Pids
  BY DEF IInv, TypeOK, Types
<1> QED BY <1>1, <1>2, <1>3, <1>4, <1>5, HomesKept DEF Refers

LEMMA ServedHomes ==
    ASSUME IInv, Reach, Homes, NEW t \in Callers,
           \/ Isolate(t) \/ Attempt(t) \/ Handshake(t) \/ Execute(t) \/ Respond(t)
           \/ Recycle(t) \/ Tidy(t)
    PROVE  Homes'
<1>1. pc \in [Callers -> {"idle", "arriving", "queued", "isolate", "attempt", "launch",
                           "register", "handshake", "execute", "inflight", "recycle",
                           "tidy", "putback"}]
      /\ worker \in [Callers -> WorkerOrNone] /\ alive \in SUBSET Pids
  BY DEF IInv, TypeOK, Types
<1>2. /\ OnlyWorker(t) /\ stopped' = stopped
      /\ pc[t] \in {"isolate", "attempt", "handshake", "execute", "inflight", "recycle", "tidy"}
  BY ServedOnly DEF Isolate, Attempt, Handshake, Execute, Respond, Recycle, Tidy, shared
<1>3. held[t] \in Slots
  BY <1>2 DEF IInv, TypeOK, Types, Phases, Serving
<1>4. ASSUME NEW why, Abandon(t, why), worker[t] # NoWorker PROVE Emptied(t)
  BY <1>1, <1>2, <1>4 DEF Abandon, Goto, Emptied, Bare
<1>5. pc[t] \in {"handshake", "execute", "inflight"} => worker[t] # NoWorker
  BY DEF IInv, TypeOK, Phases
<1>6. Emptied(t)
  <2>1. CASE Isolate(t)
    BY <1>1, <1>2, <2>1 DEF Isolate, Goto, Emptied, Bare
  <2>2. CASE Attempt(t)
    BY <1>1, <1>2, <2>2 DEF Attempt, Goto, Emptied, Bare
  <2>3. CASE Handshake(t)
    BY <1>1, <1>2, <1>4, <1>5, <2>3 DEF Handshake, Goto, Emptied, Bare
  <2>4. CASE Execute(t)
    BY <1>1, <1>2, <1>4, <1>5, <2>4 DEF Execute, Goto, Emptied, Bare
  <2>5. CASE Respond(t)
    BY <1>1, <1>2, <1>4, <1>5, <2>5 DEF Respond, Goto, Emptied, Bare
  <2>6. CASE Recycle(t) \/ Tidy(t)
    BY <1>1, <2>6 DEF Recycle, Tidy, Goto, Emptied, Bare
  <2> QED BY <2>1, <2>2, <2>3, <2>4, <2>5, <2>6
<1> QED BY <1>2, <1>3, <1>6, OnlyWorkerHomes

\* A new process takes the slot it is started for, which no other has.
LEMMA LaunchHomes ==
    ASSUME IInv, Reach, Homes, NEW t \in Callers, Launch(t) PROVE Homes'
<1>1. /\ UNCHANGED <<slots, available, opened, controls, held, cleaner, stop, stopped>>
      /\ pc[t] = "launch" /\ worker[t] = NoWorker
  BY DEF Launch, shared, Reach, ServedCovered
<1>2. /\ pc \in [Callers -> {"idle", "arriving", "queued", "isolate", "attempt", "launch",
                           "register", "handshake", "execute", "inflight", "recycle",
                           "tidy", "putback"}]
      /\ worker \in [Callers -> WorkerOrNone] /\ alive \in SUBSET Pids /\ opened \in Nat
  BY NoConfusion DEF IInv, TypeOK, Types
<1>3. held[t] \in Slots /\ held[t] # NoSlot
  BY <1>1, HeldWhenVacant, NoConfusion DEF Vacant
<1>4. CASE \E why \in {"crashed", "failed"} : Abandon(t, why)
  <2>1. OnlyWorker(t)
    BY <1>1, <1>4, AbandonOnly
  <2>2. Emptied(t)
    BY <1>1 DEF Emptied, Bare
  <2> QED BY <1>1, <1>3, <2>1, <2>2, OnlyWorkerHomes
<1>5. ASSUME NEW p \in Pids \ (Referenced \cup alive),
             worker' = [worker EXCEPT ![t] = [pid |-> p, root |-> call[t].root, contexts |-> {}]],
             alive' = alive \cup {p}, Goto(t, "register")
      PROVE  Homes'
  <2>1. PICK home \in [alive -> Slots] : Homed(home)
    BY DEF Homes
  <2>2. PICK h : h = [q \in alive' |-> IF q = p THEN held[t] ELSE home[q]]
    OBVIOUS
  <2>3. /\ h \in [alive' -> Slots] /\ h[p] = held[t] /\ p \notin alive
        /\ \A q \in alive : h[q] = home[q]
    BY <1>3, <1>5, <2>1, <2>2
  <2>4. Empty(held[t])
    BY <1>1 DEF Empty, Bare
  <2>5. \A q \in alive : home[q] # held[t]
    BY <1>3, <2>1, <2>4 DEF Homed
  <2>6. \A q, r \in alive' : h[q] = h[r] => q = r
    BY <1>5, <2>1, <2>3, <2>5 DEF Homed
  <2>7. \A i \in Slots : ~Refers(i, p)
    BY DEF Refers, Works, Referenced
  <2>8. /\ worker'[t] # NoWorker /\ worker'[t].pid = p /\ held'[t] = held[t] /\ pc'[t] = "register"
        /\ \A u \in Callers \ {t} : worker'[u] = worker[u] /\ held'[u] = held[u] /\ pc'[u] = pc[u]
    <3>1. [pid |-> p, root |-> call[t].root, contexts |-> {}].pid = p
      OBVIOUS
    <3>2. worker'[t] = [pid |-> p, root |-> call[t].root, contexts |-> {}]
      BY <1>2, <1>5
    <3>3. call[t] \in Call
      BY <1>1 DEF IInv, TypeOK, Types, Phases
    <3>4. worker'[t] \in Worker
      BY <3>2, <3>3 DEF Worker, Call
    <3> QED BY <1>1, <1>2, <1>5, <3>1, <3>2, <3>4, NoConfusion DEF Goto
  <2>9. ASSUME NEW i \in Slots, NEW q \in Pids, Works(i, q)'
        PROVE  Works(i, q) \/ (q = p /\ i = held[t])
    <3>1. CASE \E u \in Callers : held'[u] = i /\ worker'[u] # NoWorker /\ worker'[u].pid = q
      BY <2>8, <3>1 DEF Works
    <3> QED BY <1>1, <2>9, <3>1 DEF Works, cleaner
  <2>10. ASSUME NEW i \in Slots, Empty(i)' PROVE i # held[t] /\ Empty(i)
    <3>1. held[t] \notin available /\ held[t] <= opened /\ \A u \in Callers : held[u] = held[t] => u = t
      BY <1>3, HeldApart
    <3>2. CASE ~stopped /\ slots[i] = NoWorker /\ (i \in available \/ i > opened)
      BY <1>2, <1>3, <3>1, <3>2, NoConfusion DEF Empty
    <3>3. ASSUME NEW u \in Callers, held'[u] = i, Bare(u)' PROVE i # held[t] /\ Empty(i)
      <4>1. u # t
        BY <2>8, <3>3 DEF Bare
      <4>2. held[u] = i /\ Bare(u)
        BY <1>1, <2>8, <3>3, <4>1 DEF Bare
      <4> QED BY <3>1, <4>1, <4>2 DEF Empty
    <3> QED BY <1>1, <2>10, <3>2, <3>3 DEF Empty
  <2>11. ASSUME NEW q \in alive', NEW i \in Slots
         PROVE  /\ Refers(i, q)' => h[q] = i
                /\ Empty(i)' => h[q] # i
                /\ \A r \in Pids : Works(i, r)' /\ h[q] = i => q = r
    <3>1. Refers(i, q)' => Refers(i, q) \/ (q = p /\ i = held[t])
      BY <1>1, <1>2, <1>5, <2>9 DEF Refers
    <3>2. Refers(i, q)' => h[q] = i
      BY <1>5, <2>1, <2>3, <2>7, <3>1 DEF Homed
    <3>3. Empty(i)' => h[q] # i
      BY <1>5, <2>1, <2>3, <2>10 DEF Homed
    <3>4. ASSUME NEW r \in Pids, Works(i, r)', h[q] = i PROVE q = r
      <4>1. CASE r = p /\ i = held[t]
        BY <1>5, <2>3, <2>5, <3>4, <4>1
      <4>2. CASE Works(i, r)
        <5>1. i # held[t]
          <6>1. ASSUME i = held[t] PROVE ~Works(i, r)
            BY <1>1, <1>3, <6>1, HeldApart DEF Works, Reach, IdleCovered
          <6> QED BY <4>2, <6>1
        <5>2. q \in alive
          BY <1>5, <2>3, <3>4, <5>1
        <5> QED BY <2>1, <2>3, <3>4, <4>2, <5>2 DEF Homed
      <4> QED BY <2>9, <3>4, <4>1, <4>2
    <3> QED BY <3>2, <3>3, <3>4
  <2>12. Homed(h)'
    BY <2>6, <2>11 DEF Homed
  <2> QED BY <2>3, <2>12 DEF Homes
<1> QED BY <1>4, <1>5 DEF Launch

\* The control that is registered is that of the worker of the slot.
LEMMA RegisterHomes ==
    ASSUME IInv, Reach, Homes, NEW t \in Callers, Register(t) PROVE Homes'
<1>1. PICK home \in [alive -> Slots] : Homed(home)
  BY DEF Homes
<1>2. /\ UNCHANGED <<slots, available, opened, held, cleaner, stopped>> /\ pc[t] = "register"
      /\ pc \in [Callers -> {"idle", "arriving", "queued", "isolate", "attempt", "launch",
                           "register", "handshake", "execute", "inflight", "recycle",
                           "tidy", "putback"}]
      /\ worker \in [Callers -> WorkerOrNone] /\ held[t] \in Slots /\ worker[t] # NoWorker
      /\ controls \in [Slots -> Pids \cup {NoPid}] /\ alive \subseteq Pids
  BY HeldWhenVacant DEF Register, IInv, TypeOK, Types, Phases, Vacant
<1>3. /\ alive' \subseteq alive /\ pc'[t] \in {"recycle", "handshake"}
      /\ \A u \in Callers \ {t} : pc'[u] = pc[u] /\ worker'[u] = worker[u]
      /\ worker'[t] # NoWorker => worker'[t] = worker[t]
      /\ \A i \in Slots : controls'[i] = controls[i] \/ (i = held[t] /\ controls'[i] = worker[t].pid)
  BY <1>2 DEF Register, Goto
<1>4. ASSUME NEW p \in Pids, NEW i \in Slots, Works(i, p)' PROVE Works(i, p)
  <2>1. ASSUME NEW u \in Callers, held'[u] = i, worker'[u] # NoWorker, worker'[u].pid = p
        PROVE  held[u] = i /\ worker[u] # NoWorker /\ worker[u].pid = p
    BY <1>2, <1>3, <2>1
  <2> QED BY <1>2, <1>4, <2>1 DEF Works, cleaner
<1>5. ASSUME NEW p \in alive', NEW i \in Slots, controls'[i] = p PROVE Refers(i, p)
  BY <1>2, <1>3, <1>5 DEF Refers, Works
<1>6. ASSUME NEW p \in alive', NEW i \in Slots, Empty(i)' PROVE home[p] # i
  <2>1. ASSUME NEW u \in Callers, held'[u] = i, Bare(u)' PROVE held[u] = i /\ Bare(u)
    BY <1>2, <1>3, <2>1 DEF Bare
  <2>2. Empty(i)
    BY <1>2, <1>6, <2>1 DEF Empty
  <2> QED BY <1>1, <1>3, <2>2 DEF Homed
<1> QED BY <1>1, <1>2, <1>3, <1>4, <1>5, <1>6, HomesKept

\* A slot that changes hands takes its process along.
LEMMA AcquireHomes ==
    ASSUME IInv, Reach, Homes, NEW t \in Callers, Enqueue(t) \/ Retry(t) PROVE Homes'
<1>1. PICK home \in [alive -> Slots] : Homed(home)
  BY DEF Homes
<1>2. /\ pc[t] \in {"arriving", "queued"} /\ UNCHANGED <<cleaner, alive>>
      /\ stopped' = stopped /\ controls' = controls
      /\ pc \in [Callers -> {"idle", "arriving", "queued", "isolate", "attempt", "launch",
                           "register", "handshake", "execute", "inflight", "recycle",
                           "tidy", "putback"}]
      /\ worker \in [Callers -> WorkerOrNone] /\ held \in [Callers -> Slots \cup {NoSlot}]
      /\ slots \in [Slots -> WorkerOrNone] /\ alive \subseteq Pids /\ Types
  BY DEF Enqueue, Retry, AcquireTurn, shared, IInv, TypeOK, Types
<1>3. held[t] = NoSlot /\ call[t] \in Call
  BY <1>2 DEF IInv, TypeOK, Types, Phases, Serving
<1>4. CASE UNCHANGED <<shared, held, worker>> /\ (Goto(t, "idle") \/ Goto(t, "queued"))
  <2>1. \A u \in Callers : Bare(u)' => Bare(u)
    BY <1>2, <1>4 DEF Bare, Goto, shared
  <2>2. \A i \in Slots : (Empty(i)' => Empty(i)) /\ \A p \in Pids : Works(i, p)' => Works(i, p)
    BY <1>2, <1>4, <2>1 DEF Empty, Works, shared, cleaner
  <2> QED BY <1>1, <1>2, <2>2, HomesKept DEF Homed, Refers
<1>5. ASSUME NEW i \in Choices(call[t]), available' = available \ {i},
             opened' = IF i > opened THEN i ELSE opened,
             worker' = [worker EXCEPT ![t] = slots[i]], slots' = [slots EXCEPT ![i] = NoWorker],
             held' = [held EXCEPT ![t] = i], Goto(t, "isolate")
      PROVE  Homes'
  <2>1. i \in Slots /\ ((i \in available /\ i <= opened) \/ i = opened + 1)
    BY <1>2, <1>3, ChosenSlot
  <2>2. opened \in Nat /\ Slots \subseteq Nat /\ \A j \in available : j <= opened
    BY <1>2, NoConfusion DEF Types
  <2>3. /\ held'[t] = i /\ worker'[t] = slots[i] /\ pc'[t] = "isolate" /\ slots'[i] = NoWorker
        /\ \A u \in Callers \ {t} : held'[u] = held[u] /\ worker'[u] = worker[u] /\ pc'[u] = pc[u]
        /\ \A j \in Slots \ {i} : slots'[j] = slots[j]
    BY <1>2, <1>5, <2>1 DEF Goto
  <2>4. ASSUME NEW p \in Pids, NEW j \in Slots, Works(j, p)' PROVE Works(j, p)
    <3>1. CASE \E u \in Callers : held'[u] = j /\ worker'[u] # NoWorker /\ worker'[u].pid = p
      BY <2>1, <2>3, <3>1 DEF Works
    <3>2. CASE slots'[j] # NoWorker /\ slots'[j].pid = p
      BY <2>3, <3>2 DEF Works
    <3> QED BY <1>2, <2>4, <3>1, <3>2 DEF Works, cleaner
  <2>5. ASSUME NEW j \in Slots, Empty(j)' PROVE Empty(j)
    <3>1. ASSUME NEW u \in Callers, u # t, held'[u] = j, Bare(u)' PROVE held[u] = j /\ Bare(u)
      BY <1>2, <2>3, <3>1 DEF Bare
    <3>2. ASSUME held'[t] = j, Bare(t)'
          PROVE  ~stopped /\ slots[j] = NoWorker /\ (j \in available \/ j > opened)
      BY <1>2, <2>1, <2>2, <2>3, <3>2 DEF Bare
    <3>3. ASSUME ~stopped', slots'[j] = NoWorker, j \in available' \/ j > opened'
          PROVE  ~stopped /\ slots[j] = NoWorker /\ (j \in available \/ j > opened)
      BY <1>2, <1>5, <2>1, <2>2, <2>3, <3>3
    <3> QED BY <2>5, <3>1, <3>2, <3>3 DEF Empty
  <2> QED BY <1>1, <1>2, <2>4, <2>5, HomesKept DEF Homed, Refers
<1> QED BY <1>4, <1>5 DEF Enqueue, Retry, AcquireTurn

\* A slot that comes back empty has no control, and what ran for it and has nobody who
\* refers to it any more is killed.
LEMMA ReturnHomes ==
    ASSUME IInv, Reach, Stops, Homes, NEW i \in Slots, NEW w \in WorkerOrNone, Return(i, w),
           alive' = alive \cap Referenced', UNCHANGED stop,
           i \notin available, i <= opened, w # NoWorker => Works(i, w.pid),
           \A j \in Slots : cleanerHolds'[j] # NoWorker => j # i /\ cleanerHolds'[j] = cleanerHolds[j],
           \A u \in Callers :
               \/ /\ pc'[u] = pc[u] /\ held'[u] = held[u] /\ worker'[u] = worker[u]
                  /\ held[u] # i
               \/ pc'[u] = "idle" /\ worker'[u] = NoWorker
    PROVE  Homes'
<1>1. PICK home \in [alive -> Slots] : Homed(home)
  BY DEF Homes
<1>2. /\ slots \in [Slots -> WorkerOrNone] /\ controls \in [Slots -> Pids \cup {NoPid}]
      /\ alive \subseteq Pids /\ alive' \subseteq alive /\ NoPid \notin Pids
      /\ opened \in Nat /\ Slots \subseteq Nat
  BY PoolAssumption, NoConfusion DEF IInv, TypeOK, Types
<1>3. /\ \A j \in Slots \ {i} : slots'[j] = slots[j] /\ controls'[j] = controls[j]
      /\ available' = available \cup {i} /\ opened' = opened /\ slots'[i] = Kept(w)
      /\ stopped' = stopped /\ controls'[i] \in {controls[i], NoPid}
      /\ Kept(w) = NoWorker => controls'[i] = NoPid
      /\ Kept(w) # NoWorker => Kept(w) = w
  BY <1>2 DEF Return, Kept
<1>4. ASSUME NEW p \in Pids, NEW j \in Slots, Works(j, p)' PROVE Works(j, p)
  <2>1. ASSUME NEW u \in Callers, held'[u] = j, worker'[u] # NoWorker, worker'[u].pid = p
        PROVE  held[u] = j /\ worker[u] # NoWorker /\ worker[u].pid = p
    BY <2>1
  <2>2. CASE slots'[j] # NoWorker /\ slots'[j].pid = p
    <3>1. CASE j = i
      <4>1. w # NoWorker /\ w.pid = p
        BY <1>3, <2>2, <3>1
      <4> QED BY <3>1, <4>1
    <3> QED BY <1>3, <2>2, <3>1 DEF Works
  <2> QED BY <1>4, <2>1, <2>2 DEF Works
<1>5. ASSUME NEW p \in alive', NEW j \in Slots, controls'[j] = p PROVE Refers(j, p)
  BY <1>2, <1>3, <1>5 DEF Refers
<1>6. ASSUME NEW p \in alive', NEW j \in Slots, Empty(j)' PROVE home[p] # j
  <2>1. ASSUME NEW u \in Callers, held'[u] = j, Bare(u)' PROVE held[u] = j /\ Bare(u) /\ j # i
    BY <1>3, <2>1 DEF Bare
  <2>2. CASE j # i
    <3>1. Empty(j)
      BY <1>3, <1>6, <2>1, <2>2 DEF Empty
    <3> QED BY <1>1, <1>2, <3>1 DEF Homed
  <2>3. CASE j = i
    <3>1. ~stopped /\ slots'[i] = NoWorker /\ controls'[i] = NoPid
      BY <1>3, <1>6, <2>1, <2>3 DEF Empty
    <3>2. \A s \in Stoppers : p \notin stopTodo'[s]
      BY <3>1 DEF Stops, Reach, Ready, stop
    <3>3. ~Works(i, p)'
      <4>1. ASSUME NEW u \in Callers, held'[u] = i, worker'[u] # NoWorker PROVE FALSE
        BY <4>1
      <4> QED BY <3>1, <4>1 DEF Works
    <3>4. PICK k \in Slots : Refers(k, p)'
      <4>1. p \in Referenced'
        OBVIOUS
      <4>2. ASSUME NEW u \in Callers, worker'[u] # NoWorker, worker'[u].pid = p
            PROVE  \E k \in Slots : Refers(k, p)'
        <5>1. held'[u] = held[u] /\ worker[u] # NoWorker
          BY <4>2
        <5>2. held[u] \in Slots
          BY <5>1 DEF Reach, ServedCovered, IInv, TypeOK, Types
        <5>3. PICK k \in Slots : k = held'[u]
          BY <5>1, <5>2
        <5>4. Works(k, p)'
          BY <4>2, <5>3 DEF Works
        <5> QED BY <5>4 DEF Refers
      <4> QED BY <3>2, <4>1, <4>2 DEF Referenced, Refers, Works
    <3>5. k # i
      BY <1>2, <3>1, <3>3, <3>4 DEF Refers
    <3>6. Refers(k, p)
      BY <1>2, <1>4, <1>5, <3>4 DEF Refers
    <3> QED BY <1>1, <1>2, <2>3, <3>5, <3>6 DEF Homed
  <2> QED BY <2>2, <2>3
<1> QED BY <1>1, <1>2, <1>4, <1>5, <1>6, HomesKept

LEMMA PutBackHomes ==
    ASSUME IInv, Reach, Stops, Homes, NEW t \in Callers, PutBack(t) PROVE Homes'
<1>1. /\ pc[t] = "putback" /\ held[t] \in Slots /\ held[t] # NoSlot /\ Types
      /\ worker[t] \in WorkerOrNone
  BY NoConfusion DEF PutBack, IInv, TypeOK, Types, Phases, Serving
<1>2. /\ held[t] \notin available /\ held[t] \notin cleanerTodo /\ held[t] <= opened
      /\ \A u \in Callers : held[u] = held[t] => u = t
  BY <1>1, HeldApart
<1>3. worker[t] # NoWorker => Works(held[t], worker[t].pid)
  BY DEF Works
<1>4. \A j \in Slots : cleanerHolds'[j] # NoWorker => j # held[t] /\ cleanerHolds'[j] = cleanerHolds[j]
  BY <1>2 DEF PutBack, cleaner, Reach, IdleCovered
<1>5. \A u \in Callers :
          \/ /\ pc'[u] = pc[u] /\ held'[u] = held[u] /\ worker'[u] = worker[u]
             /\ held[u] # held[t]
          \/ pc'[u] = "idle" /\ worker'[u] = NoWorker
  BY <1>1, <1>2 DEF PutBack, Goto, Types
<1>6. Return(held[t], worker[t]) /\ alive' = alive \cap Referenced' /\ UNCHANGED stop
  BY DEF PutBack
<1> QED BY <1>1, <1>2, <1>3, <1>4, <1>5, <1>6, ReturnHomes

LEMMA CleanerHomes ==
    ASSUME IInv, Reach, Stops, Homes, CleanerStep PROVE Homes'
<1>1. PICK home \in [alive -> Slots] : Homed(home)
  BY DEF Homes
<1>2. Types /\ alive \subseteq Pids /\ opened \in Nat /\ Slots \subseteq Nat
      /\ cleanerHolds \in [Slots -> WorkerOrNone]
  BY NoConfusion DEF IInv, TypeOK, Types
<1>3. CASE GiveBack
  <2>1. cleanerAt \in cleanerTodo /\ cleanerAt \in Slots /\ cleanerHolds[cleanerAt] \in WorkerOrNone
    BY <1>2, <1>3 DEF Types, IInv, CleanerPhases, GiveBack
  <2>2. cleanerAt \notin available /\ cleanerAt <= opened /\ \A u \in Callers : held[u] # cleanerAt
    BY <2>1 DEF IInv, SlotOwnership
  <2>3. cleanerHolds[cleanerAt] # NoWorker => Works(cleanerAt, cleanerHolds[cleanerAt].pid)
    BY DEF Works
  <2>4. \A j \in Slots : cleanerHolds'[j] # NoWorker =>
            j # cleanerAt /\ cleanerHolds'[j] = cleanerHolds[j]
    BY <1>2, <1>3 DEF GiveBack
  <2>5. /\ Return(cleanerAt, cleanerHolds[cleanerAt]) /\ alive' = alive \cap Referenced'
        /\ UNCHANGED stop /\ UNCHANGED <<pc, held, worker>>
    BY <1>3 DEF GiveBack, frame
  <2> QED BY <2>1, <2>2, <2>3, <2>4, <2>5, ReturnHomes
<1>4. ASSUME UNCHANGED <<stopped, opened, controls, frame>>, alive' \subseteq alive,
             \A j \in Slots, p \in Pids :
                 \/ slots'[j] # NoWorker /\ slots'[j].pid = p
                 \/ cleanerHolds'[j] # NoWorker /\ cleanerHolds'[j].pid = p
                 => Works(j, p),
             \A j \in Slots : slots'[j] = NoWorker /\ (j \in available' \/ j > opened) =>
                              slots[j] = NoWorker /\ (j \in available \/ j > opened)
      PROVE  Homes'
  <2>1. \A j \in Slots, p \in Pids : Works(j, p)' => Works(j, p)
    BY <1>4 DEF Works, frame
  <2>2. \A t \in Callers : Bare(t)' => Bare(t)
    BY <1>4 DEF Bare, frame
  <2>3. \A j \in Slots : Empty(j)' => Empty(j)
    BY <1>4, <2>2 DEF Empty, frame
  <2> QED BY <1>1, <1>2, <1>4, <2>1, <2>3, HomesKept DEF Homed, Refers
<1>5. CASE Receive
  BY <1>4, <1>5 DEF Receive, shared, Works
<1>6. CASE Scan
  <2> DEFINE stale == {j \in available : Pending(slots[j])}
  <2>1. CASE UNCHANGED <<available, slots, cleanerTodo, cleanerHolds>>
    BY <1>4, <1>6, <2>1 DEF Scan, Works
  <2>2. CASE /\ cleanerHolds' = [j \in Slots |-> IF j \in stale THEN slots[j] ELSE NoWorker]
             /\ slots' = [j \in Slots |-> IF j \in stale THEN NoWorker ELSE slots[j]]
             /\ available' = available \ stale
    <3>1. stale \subseteq available /\ \A j \in available : j <= opened
      BY <1>2 DEF Types
    <3> HIDE DEF stale
    <3>2. \A j \in Slots, p \in Pids :
              \/ slots'[j] # NoWorker /\ slots'[j].pid = p
              \/ cleanerHolds'[j] # NoWorker /\ cleanerHolds'[j].pid = p
              => Works(j, p)
      BY <2>2 DEF Works
    <3>3. \A j \in Slots : slots'[j] = NoWorker /\ (j \in available' \/ j > opened) =>
                           slots[j] = NoWorker /\ (j \in available \/ j > opened)
      BY <1>2, <2>2, <3>1
    <3>4. UNCHANGED <<stopped, opened, controls, frame, alive>>
      BY <1>6 DEF Scan
    <3> QED BY <1>4, <3>2, <3>3, <3>4
  <2> QED BY <1>6, <2>1, <2>2 DEF Scan
<1>7. ASSUME NEW i \in Slots, Dispose(i) PROVE Homes'
  <2>1. cleanerHolds[i] # NoWorker =>
            cleanerHolds[i] \in Worker /\ Cleaned(cleanerHolds[i]).pid = cleanerHolds[i].pid
    BY <1>2, CleanedWorker DEF WorkerOrNone
  <2>2. cleanerHolds[i] # NoWorker /\ i \in cleanerTodo
    BY <1>7, NoConfusion DEF Dispose, IInv, CleanerPhases
  <2>3. \A j \in Slots : cleanerHolds'[j] # NoWorker =>
            cleanerHolds[j] # NoWorker /\ cleanerHolds'[j].pid = cleanerHolds[j].pid
    BY <1>2, <1>7, <2>1, <2>2 DEF Dispose
  <2>4. UNCHANGED <<stopped, opened, slots, available, controls, frame>> /\ alive' \subseteq alive
    BY <1>7 DEF Dispose, shared
  <2> QED BY <1>4, <2>3, <2>4 DEF Works
<1> QED BY <1>3, <1>5, <1>6, <1>7 DEF CleanerStep

\* A stop call takes controls and ends processes; it moves no worker.
LEMMA StopHomes ==
    ASSUME IInv, Homes, NEW s \in Stoppers, Begin(s) \/ StopStep(s) PROVE Homes'
<1>1. PICK home \in [alive -> Slots] : Homed(home)
  BY DEF Homes
<1>2. /\ UNCHANGED <<opened, slots, available, frame, cleaner>> /\ (stopped => stopped')
      /\ alive' \subseteq alive /\ alive \subseteq Pids /\ NoPid \notin Pids
      /\ \A i \in Slots : controls'[i] \in {controls[i], NoPid}
  BY PoolAssumption DEF Begin, StopStep, EndOne, Finish, shared, IInv, TypeOK, Types
<1>3. \A i \in Slots, p \in Pids : Works(i, p)' => Works(i, p)
  BY <1>2 DEF Works, frame, cleaner
<1>4. stopped' \in BOOLEAN /\ stopped \in BOOLEAN
  BY DEF Begin, StopStep, EndOne, Finish, shared, IInv, TypeOK, Types
<1>5. \A t \in Callers : Bare(t)' => Bare(t)
  BY <1>2, <1>4 DEF Bare, frame
<1>6. \A i \in Slots : Empty(i)' => Empty(i)
  BY <1>2, <1>4, <1>5 DEF Empty, frame
<1> QED BY <1>1, <1>2, <1>3, <1>6, HomesKept DEF Homed, Refers

LEMMA OtherHomes ==
    ASSUME IInv, Homes,
           \/ \E t \in Callers : Request(t)
           \/ \E c \in Contexts : RecordRelease(c) \/ NotifyRelease(c)
           \/ UNCHANGED vars
    PROVE  Homes'
<1>1. PICK home \in [alive -> Slots] : Homed(home)
  BY DEF Homes
<1>2. /\ UNCHANGED <<stopped, slots, available, opened, controls, held, worker, cleanerHolds, alive>>
      /\ \A t \in Callers : pc'[t] = pc[t] \/ pc'[t] = "arriving"
      /\ alive \subseteq Pids
  <2>1. ASSUME NEW t \in Callers, Request(t)
        PROVE  /\ UNCHANGED <<shared, held, worker, cleaner, alive>>
               /\ \A u \in Callers : pc'[u] = pc[u] \/ pc'[u] = "arriving"
    BY <2>1 DEF Request, Goto, IInv, TypeOK, Types
  <2>2. ASSUME NEW c \in Contexts, RecordRelease(c) \/ NotifyRelease(c)
        PROVE  UNCHANGED <<stopped, slots, available, opened, controls, frame, cleaner, alive>>
    BY <2>2 DEF RecordRelease, NotifyRelease, shared
  <2> QED BY <2>1, <2>2 DEF vars, shared, frame, cleaner, IInv, TypeOK, Types
<1>3. \A t \in Callers : Bare(t)' => Bare(t)
  BY <1>2 DEF Bare
<1>4. \A i \in Slots : (Empty(i)' => Empty(i)) /\ \A p \in Pids : Works(i, p)' => Works(i, p)
  BY <1>2, <1>3 DEF Empty, Works
<1> QED BY <1>1, <1>2, <1>4, HomesKept DEF Homed, Refers

LEMMA StepStops ==
    ASSUME IInv, Stops, [Next]_vars PROVE Stops'
<1>1. ASSUME NEW s \in Stoppers, Begin(s) PROVE Stops'
  BY <1>1 DEF Begin, Stops
<1>2. ASSUME NEW s \in Stoppers, StopStep(s) PROVE Stops'
  BY <1>2 DEF StopStep, EndOne, Finish, shared, Stops, IInv, TypeOK, Types
<1>3. CASE stopped' = stopped /\ stopPc' = stopPc
  BY <1>3 DEF Stops
<1>4. ASSUME NEW t \in Callers, Request(t) \/ CallerStep(t) PROVE stopped' = stopped /\ stopPc' = stopPc
  BY <1>4 DEF Request, CallerStep, Enqueue, Retry, AcquireTurn, Isolate, Attempt, Launch, Register,
     Handshake, Execute, Respond, Recycle, Tidy, PutBack, Return, shared, stop
<1>5. ASSUME NEW c \in Contexts, RecordRelease(c) \/ NotifyRelease(c)
      PROVE  stopped' = stopped /\ stopPc' = stopPc
  BY <1>5 DEF RecordRelease, NotifyRelease, shared, stop
<1>6. CASE CleanerStep
  <2>1. stopped' = stopped /\ stopPc' = stopPc
    BY <1>6 DEF CleanerStep, Receive, Scan, Dispose, GiveBack, Return, shared, stop
  <2> QED BY <1>3, <2>1
<1>7. CASE UNCHANGED vars
  BY <1>3, <1>7 DEF vars, shared, stop
<1> QED BY <1>1, <1>2, <1>3, <1>4, <1>5, <1>6, <1>7 DEF Next

LEMMA StepHomes == IInv /\ Reach /\ Stops /\ Homes /\ [Next]_vars => Homes' /\ Stops'
<1> SUFFICES ASSUME IInv, Reach, Stops, Homes, [Next]_vars PROVE Homes' /\ Stops'
  OBVIOUS
<1>1. ASSUME NEW t \in Callers, CallerStep(t) PROVE Homes'
  BY <1>1, ServedHomes, AcquireHomes, LaunchHomes, RegisterHomes, PutBackHomes DEF CallerStep
<1>2. Homes'
  BY <1>1, CleanerHomes, StopHomes, OtherHomes DEF Next
<1> QED BY <1>2, StepStops

LEMMA HomesBound == IInv /\ Homes => ProcessBound
<1> SUFFICES ASSUME IInv, Homes PROVE ProcessBound
  OBVIOUS
<1>1. PICK home \in [alive -> Slots] : Homed(home)
  BY DEF Homes
<1>2. home \in Injection(alive, Slots)
  BY <1>1 DEF Homed, Injection, IsInjective
<1>3. IsFiniteSet(Slots) /\ Cardinality(Slots) = Limit
  BY FS_Interval, PoolAssumption DEF Slots
<1>4. Cardinality(alive) <= Cardinality(Slots)
  BY <1>2, <1>3, FS_Injection
<1> QED BY <1>3, <1>4 DEF ProcessBound

\* Whatever crashes, is retried, changes its root, is recycled, survives a failed kill or is
\* stopped meanwhile: there are never more processes than PoolOptions::size.
THEOREM ProcessesBounded == Spec => []ProcessBound
<1>1. Spec => []Reach
  BY InitReach, StepReach, Invariant, PTL DEF Spec
<1>2. Init => Homes /\ Stops
  BY InitHomes
<1>3. Spec => [](Homes /\ Stops)
  BY <1>1, <1>2, StepHomes, Invariant, PTL DEF Spec
<1> QED BY <1>3, HomesBound, Invariant, PTL

-----------------------------------------------------------------------------
(* A context is loaded in one place *)

\* The worker of slot i, wherever it is, has loaded context c.
Has(i, c) ==
    \/ slots[i] # NoWorker /\ c \in slots[i].contexts
    \/ cleanerHolds[i] # NoWorker /\ c \in cleanerHolds[i].contexts
    \/ \E t \in Callers : held[t] = i /\ worker[t] # NoWorker /\ c \in worker[t].contexts

\* The request of caller t uses context c.
Needs(t, c) == call[t] # NoCall /\ call[t].context = c

\* What the pool knows of a context, and what a request uses, has a lease that lives.
Leased ==
    \A c \in Contexts : c \in contexts \/ (\E t \in Callers : Needs(t, c)) => lease[c] = "live"

\* The worker that loaded a context is in the slot the context has claimed.
Affine ==
    \A i \in Slots, c \in Contexts :
        Has(i, c) => lease[c] # "unused" /\ (lease[c] = "live" => affinity[c] = i)

\* So is the caller that is served for the context.
Claims ==
    \A t \in Callers, c \in Contexts :
        held[t] # NoSlot /\ Needs(t, c) => affinity[c] = held[t]

Loads == Leased /\ Affine /\ Claims

LEMMA InitLoads == Init => Loads
<1> SUFFICES ASSUME Init PROVE Loads
  OBVIOUS
<1>1. \A i \in Slots, c \in Contexts : ~Has(i, c)
  BY DEF Init, Has
<1> QED BY <1>1 DEF Init, Loads, Leased, Affine, Claims, Needs

\* A step that loads nothing and hands out no slot, and takes a claim only from a context
\* that is neither loaded nor needed in its slot.
LEMMA LoadsKept ==
    ASSUME Loads, \A i \in Slots, c \in Contexts : Has(i, c)' => Has(i, c),
           lease' = lease, contexts' \subseteq contexts, affinity \in [Contexts -> Slots \cup {NoSlot}],
           \A t \in Callers, c \in Contexts : Needs(t, c)' => Needs(t, c),
           \A t \in Callers : held'[t] \in {held[t], NoSlot},
           \A i \in Slots, c \in Contexts : affinity[c] = i /\ affinity'[c] # i =>
               ~Has(i, c)' /\ \A t \in Callers : held'[t] = i => ~Needs(t, c)',
           \A t \in Callers : held[t] \in Slots \cup {NoSlot}
    PROVE  Loads'
<1>1. Leased'
  BY DEF Loads, Leased
<1>2. Affine'
  <2> SUFFICES ASSUME NEW i \in Slots, NEW c \in Contexts, Has(i, c)'
               PROVE  lease'[c] # "unused" /\ (lease'[c] = "live" => affinity'[c] = i)
    BY DEF Affine
  <2> QED BY DEF Loads, Affine
<1>3. Claims'
  <2> SUFFICES ASSUME NEW t \in Callers, NEW c \in Contexts, held'[t] # NoSlot, Needs(t, c)'
               PROVE  affinity'[c] = held'[t]
    BY DEF Claims
  <2>1. held'[t] = held[t] /\ held[t] \in Slots /\ affinity[c] = held[t]
    BY DEF Loads, Claims
  <2> QED BY <2>1
<1> QED BY <1>1, <1>2, <1>3 DEF Loads

\* A caller that gives its worker up leaves nothing loaded in its slot.
LEMMA GivenUp ==
    ASSUME IInv, Reach, NEW t \in Callers, held[t] # NoSlot, worker'[t] = NoWorker,
           UNCHANGED <<slots, held, cleanerHolds>>, NEW c
    PROVE  \A i \in Slots : i = held[t] => ~Has(i, c)'
BY HeldApart DEF Has, Reach, IdleCovered

LEMMA ServedLoads ==
    ASSUME IInv, Reach, Loads, NEW t \in Callers,
           \/ Isolate(t) \/ Attempt(t) \/ Launch(t) \/ Register(t) \/ Handshake(t)
           \/ Respond(t) \/ Recycle(t) \/ Tidy(t)
    PROVE  Loads'
<1>1. /\ UNCHANGED <<slots, held, call, lease, contexts, cleanerHolds>> /\ Types
      /\ pc[t] \in Serving
  BY DEF Isolate, Attempt, Launch, Register, Handshake, Respond, Recycle, Tidy, shared, cleaner,
         Serving, IInv, TypeOK
<1>2. held[t] # NoSlot /\ held[t] \in Slots /\ call[t] \in Call
  BY <1>1 DEF IInv, TypeOK, Types, Phases, Serving
<1>3. /\ worker \in [Callers -> WorkerOrNone] /\ held \in [Callers -> Slots \cup {NoSlot}]
      /\ affinity \in [Contexts -> Slots \cup {NoSlot}]
  BY <1>1 DEF Types
<1>4. /\ \A u \in Callers \ {t} : worker'[u] = worker[u]
      /\ worker'[t] # NoWorker =>
            worker'[t].contexts = {} \/ (worker[t] # NoWorker /\ worker'[t].contexts \subseteq worker[t].contexts)
  <2>1. ASSUME NEW why, Abandon(t, why)
        PROVE  /\ \A u \in Callers \ {t} : worker'[u] = worker[u]
               /\ worker'[t] = NoWorker
    BY <1>3, <2>1 DEF Abandon
  <2>2. CASE Launch(t)
    <3>1. ASSUME NEW p \in Pids,
                 worker' = [worker EXCEPT ![t] = [pid |-> p, root |-> call[t].root, contexts |-> {}]]
          PROVE  /\ \A u \in Callers \ {t} : worker'[u] = worker[u]
                 /\ worker'[t].contexts = {}
      <4>1. [pid |-> p, root |-> call[t].root, contexts |-> {}].contexts = {}
        OBVIOUS
      <4> QED BY <1>3, <3>1, <4>1
    <3> QED BY <2>1, <2>2, <3>1 DEF Launch
  <2>3. CASE Tidy(t)
    <3>1. worker[t] # NoWorker => worker[t] \in Worker
      BY <1>3 DEF WorkerOrNone
    <3>2. ASSUME worker[t] \in Worker PROVE Cleaned(worker[t]).contexts \subseteq worker[t].contexts
      BY <3>2 DEF Cleaned, Worker
    <3> QED BY <1>3, <2>3, <3>1, <3>2 DEF Tidy, Pending
  <2>4. CASE Handshake(t) \/ Respond(t)
    BY <1>3, <2>1, <2>4 DEF Handshake, Respond
  <2>5. CASE Isolate(t) \/ Attempt(t) \/ Register(t) \/ Recycle(t)
    BY <1>3, <2>5 DEF Isolate, Attempt, Register, Recycle
  <2> QED BY <2>2, <2>3, <2>4, <2>5
<1>5. ASSUME NEW i \in Slots, NEW c \in Contexts, Has(i, c)' PROVE Has(i, c)
  <2>1. ASSUME NEW u \in Callers, held'[u] = i, worker'[u] # NoWorker, c \in worker'[u].contexts
        PROVE  held[u] = i /\ worker[u] # NoWorker /\ c \in worker[u].contexts
    <3>1. CASE u = t
      BY <1>1, <1>4, <2>1, <3>1
    <3> QED BY <1>1, <1>4, <2>1, <3>1
  <2> QED BY <1>1, <1>5, <2>1 DEF Has
<1>6. ASSUME NEW i \in Slots, NEW c \in Contexts, affinity[c] = i, affinity'[c] # i
      PROVE  ~Has(i, c)' /\ \A u \in Callers : held'[u] = i => ~Needs(u, c)'
  <2>1. ForgetOtherRoots(held[t], call[t].root) /\ worker'[t] = NoWorker
    <3>1. ~UNCHANGED affinity
      BY <1>6
    <3> QED BY <1>1, <1>3, <3>1 DEF Isolate, Attempt, Launch, Register, Handshake, Respond, Recycle,
                                   Tidy, shared
  <2>2. i = held[t] /\ ContextRoot[c] # call[t].root
    BY <1>6, <2>1 DEF ForgetOtherRoots
  <2>3. ~Has(i, c)'
    BY <1>1, <1>2, <2>1, <2>2, GivenUp
  <2>4. ASSUME NEW u \in Callers, held'[u] = i PROVE ~Needs(u, c)'
    <3>1. u = t
      BY <1>1, <1>2, <2>2, <2>4, HeldApart
    <3>2. c # NoContext
      BY PoolAssumption
    <3>3. call[t].context # c
      BY <1>2, <2>2, <3>2 DEF Call
    <3> QED BY <1>1, <3>1, <3>3 DEF Needs
  <2> QED BY <2>3, <2>4
<1>7. \A u \in Callers, c \in Contexts : Needs(u, c)' => Needs(u, c)
  BY <1>1 DEF Needs
<1> QED BY <1>1, <1>3, <1>5, <1>6, <1>7, LoadsKept

\* A request notes its context where it is claimed.
LEMMA ExecuteLoads ==
    ASSUME IInv, Reach, Loads, NEW t \in Callers, Execute(t) PROVE Loads'
<1>1. /\ UNCHANGED <<slots, held, call, lease, affinity, cleanerHolds>> /\ pc[t] = "execute"
      /\ worker \in [Callers -> WorkerOrNone] /\ held \in [Callers -> Slots \cup {NoSlot}]
      /\ affinity \in [Contexts -> Slots \cup {NoSlot}] /\ call[t] \in Call
      /\ worker[t] # NoWorker /\ held[t] # NoSlot
  BY DEF Execute, cleaner, IInv, TypeOK, Types, Phases, Serving
<1>2. \A u \in Callers, c \in Contexts : Needs(u, c)' <=> Needs(u, c)
  BY <1>1 DEF Needs
<1>3. CASE (\E why \in {"crashed", "failed", "cancelled"} : Abandon(t, why)) /\ UNCHANGED contexts
  <2>1. \A u \in Callers : worker'[u] = worker[u] \/ worker'[u] = NoWorker
    BY <1>1, <1>3 DEF Abandon
  <2>2. \A i \in Slots, c \in Contexts : Has(i, c)' => Has(i, c)
    BY <1>1, <2>1 DEF Has
  <2> QED BY <1>1, <1>2, <1>3, <2>2, LoadsKept
<1>4. ASSUME contexts' = contexts \cup ({call[t].context} \ {NoContext}),
             worker' = [worker EXCEPT ![t] = Loaded(@, call[t].context)]
      PROVE  Loads'
  <2>1. \A c \in Contexts : c \in contexts' => c \in contexts \/ Needs(t, c)
    BY <1>1, <1>4, NoConfusion DEF Needs
  <2>2. Leased'
    BY <1>1, <1>2, <2>1 DEF Loads, Leased
  <2>3. /\ \A u \in Callers \ {t} : worker'[u] = worker[u]
        /\ worker'[t] = Loaded(worker[t], call[t].context)
    BY <1>1, <1>4
  <2>4. \A c \in Contexts : c \in worker'[t].contexts => c \in worker[t].contexts \/ Needs(t, c)
    <3>1. worker[t] \in Worker
      BY <1>1 DEF WorkerOrNone
    <3>2. Loaded(worker[t], call[t].context).contexts =
              (worker[t].contexts \cap contexts) \cup ({call[t].context} \ {NoContext})
      BY <3>1 DEF Loaded, Worker
    <3> QED BY <1>1, <2>3, <3>2, NoConfusion DEF Needs
  <2>5. ASSUME NEW i \in Slots, NEW c \in Contexts, Has(i, c)'
        PROVE  Has(i, c) \/ (held[t] = i /\ Needs(t, c))
    BY <1>1, <2>3, <2>4, <2>5 DEF Has
  <2>6. Affine'
    <3> SUFFICES ASSUME NEW i \in Slots, NEW c \in Contexts, Has(i, c)'
                 PROVE  lease'[c] # "unused" /\ (lease'[c] = "live" => affinity'[c] = i)
      BY DEF Affine
    <3> QED BY <1>1, <2>5 DEF Loads, Leased, Affine, Claims
  <2>7. Claims'
    BY <1>1, <1>2 DEF Loads, Claims
  <2> QED BY <2>2, <2>6, <2>7 DEF Loads
<1> QED BY <1>3, <1>4 DEF Execute

\* A context that has claimed a slot is served there, and one that has not claims the slot
\* it is served in, where nothing else holds it.
LEMMA AcquireLoads ==
    ASSUME IInv, Reach, Loads, NEW t \in Callers, Enqueue(t) \/ Retry(t) PROVE Loads'
<1>1. /\ pc[t] \in {"arriving", "queued"} /\ UNCHANGED <<cleaner, lease>>
      /\ contexts' = contexts
      /\ worker \in [Callers -> WorkerOrNone] /\ held \in [Callers -> Slots \cup {NoSlot}]
      /\ slots \in [Slots -> WorkerOrNone] /\ affinity \in [Contexts -> Slots \cup {NoSlot}]
      /\ call \in [Callers -> Call \cup {NoCall}] /\ Types
  BY DEF Enqueue, Retry, AcquireTurn, shared, IInv, TypeOK, Types
<1>2. held[t] = NoSlot /\ call[t] \in Call
  BY <1>1 DEF IInv, TypeOK, Types, Phases, Serving
<1>3. ASSUME UNCHANGED <<shared, held, worker>>, \A u \in Callers : call'[u] \in {call[u], NoCall}
      PROVE  Loads'
  <2>1. \A i \in Slots, c \in Contexts : Has(i, c)' => Has(i, c)
    BY <1>1, <1>3 DEF Has, shared, cleaner
  <2>2. \A u \in Callers, c \in Contexts : Needs(u, c)' => Needs(u, c)
    BY <1>3 DEF Needs
  <2> QED BY <1>1, <1>3, <2>1, <2>2, LoadsKept DEF shared
<1>4. ASSUME NEW i \in Choices(call[t]), UNCHANGED call,
             affinity' = [c \in Contexts |-> IF c = call[t].context THEN i ELSE affinity[c]],
             worker' = [worker EXCEPT ![t] = slots[i]], slots' = [slots EXCEPT ![i] = NoWorker],
             held' = [held EXCEPT ![t] = i]
      PROVE  Loads'
  <2>1. i \in Slots /\ i # NoSlot /\ ((i \in available /\ i <= opened) \/ i = opened + 1)
    BY <1>1, <1>2, ChosenSlot, NoConfusion
  <2>2. /\ held'[t] = i /\ worker'[t] = slots[i] /\ slots'[i] = NoWorker
        /\ \A u \in Callers \ {t} : held'[u] = held[u] /\ worker'[u] = worker[u]
        /\ \A j \in Slots \ {i} : slots'[j] = slots[j]
    BY <1>1, <1>4, <2>1
  <2>3. ASSUME NEW j \in Slots, NEW c \in Contexts, Has(j, c)' PROVE Has(j, c)
    <3>1. CASE \E u \in Callers : held'[u] = j /\ worker'[u] # NoWorker /\ c \in worker'[u].contexts
      BY <2>1, <2>2, <3>1 DEF Has
    <3>2. CASE slots'[j] # NoWorker /\ c \in slots'[j].contexts
      BY <2>2, <3>2 DEF Has
    <3> QED BY <1>1, <2>3, <3>1, <3>2 DEF Has, cleaner
  <2>4. \A u \in Callers, c \in Contexts : Needs(u, c)' <=> Needs(u, c)
    BY <1>4 DEF Needs
  <2>5. \A c \in Contexts : affinity[c] # NoSlot => affinity'[c] = affinity[c]
    <3> SUFFICES ASSUME NEW c \in Contexts, affinity[c] # NoSlot, c = call[t].context
                 PROVE  i = affinity[c]
      BY <1>1, <1>4
    <3>1. Claimed(call[t].context)
      BY PoolAssumption DEF Claimed
    <3> QED BY <3>1 DEF Choices
  <2>6. Leased'
    BY <1>1, <2>4 DEF Loads, Leased
  <2>7. Affine'
    <3> SUFFICES ASSUME NEW j \in Slots, NEW c \in Contexts, Has(j, c)'
                 PROVE  lease'[c] # "unused" /\ (lease'[c] = "live" => affinity'[c] = j)
      BY DEF Affine
    <3> QED BY <1>1, <2>3, <2>5, NoConfusion DEF Loads, Affine
  <2>8. Claims'
    <3> SUFFICES ASSUME NEW u \in Callers, NEW c \in Contexts, held'[u] # NoSlot, Needs(u, c)'
                 PROVE  affinity'[c] = held'[u]
      BY DEF Claims
    <3>1. CASE u = t
      BY <1>1, <1>4, <2>2, <2>4, <3>1 DEF Needs
    <3>2. CASE u # t
      BY <2>2, <2>4, <2>5, <3>2 DEF Loads, Claims
    <3> QED BY <3>1, <3>2
  <2> QED BY <2>6, <2>7, <2>8 DEF Loads
<1>5. ASSUME call' = [call EXCEPT ![t] = NoCall] \/ call' = call
      PROVE  \A u \in Callers : call'[u] \in {call[u], NoCall}
  BY <1>1, <1>5
<1> QED BY <1>3, <1>4, <1>5 DEF Enqueue, Retry, AcquireTurn

LEMMA PutBackLoads ==
    ASSUME IInv, Reach, Loads, NEW t \in Callers, PutBack(t) PROVE Loads'
<1>1. /\ Types /\ UNCHANGED <<lease, contexts, affinity, cleaner>>
      /\ worker \in [Callers -> WorkerOrNone] /\ held \in [Callers -> Slots \cup {NoSlot}]
      /\ slots \in [Slots -> WorkerOrNone] /\ affinity \in [Contexts -> Slots \cup {NoSlot}]
      /\ call \in [Callers -> Call \cup {NoCall}] /\ held[t] \in Slots
  BY NoConfusion DEF PutBack, Return, IInv, TypeOK, Types, Phases, Serving
<1>2. /\ \A u \in Callers : /\ call'[u] \in {call[u], NoCall} /\ held'[u] \in {held[u], NoSlot}
                            /\ worker'[u] \in {worker[u], NoWorker}
      /\ \A j \in Slots : slots'[j] \in {slots[j], NoWorker} \/ (j = held[t] /\ slots'[j] = worker[t])
  BY <1>1 DEF PutBack, Return, Kept
<1>3. ASSUME NEW i \in Slots, NEW c \in Contexts, Has(i, c)' PROVE Has(i, c)
  <2>1. CASE slots'[i] # NoWorker /\ c \in slots'[i].contexts
    BY <1>2, <2>1 DEF Has
  <2>2. CASE \E u \in Callers : held'[u] = i /\ worker'[u] # NoWorker /\ c \in worker'[u].contexts
    BY <1>2, <2>2, NoConfusion DEF Has
  <2> QED BY <1>1, <1>3, <2>1, <2>2 DEF Has, cleaner
<1>4. \A u \in Callers, c \in Contexts : Needs(u, c)' => Needs(u, c)
  BY <1>2 DEF Needs
<1> QED BY <1>1, <1>2, <1>3, <1>4, LoadsKept

LEMMA CleanerLoads ==
    ASSUME IInv, Loads, CleanerStep PROVE Loads'
<1>1. /\ Types /\ UNCHANGED <<lease, contexts, affinity, frame>>
      /\ held \in [Callers -> Slots \cup {NoSlot}] /\ slots \in [Slots -> WorkerOrNone]
      /\ cleanerHolds \in [Slots -> WorkerOrNone] /\ affinity \in [Contexts -> Slots \cup {NoSlot}]
  BY DEF CleanerStep, Receive, Scan, Dispose, GiveBack, Return, shared, IInv, TypeOK, Types
<1>2. ASSUME \A i \in Slots, c \in Contexts :
                 \/ slots'[i] # NoWorker /\ c \in slots'[i].contexts
                 \/ cleanerHolds'[i] # NoWorker /\ c \in cleanerHolds'[i].contexts
                 => Has(i, c)
      PROVE  Loads'
  <2>1. \A i \in Slots, c \in Contexts : Has(i, c)' => Has(i, c)
    BY <1>1, <1>2 DEF Has, frame
  <2>2. \A t \in Callers, c \in Contexts : Needs(t, c)' => Needs(t, c)
    BY <1>1 DEF Needs, frame
  <2> QED BY <1>1, <2>1, <2>2, LoadsKept DEF frame
<1>3. CASE Receive
  BY <1>2, <1>3 DEF Receive, Has, shared
<1>4. CASE Scan
  BY <1>1, <1>2, <1>4 DEF Scan, Has
<1>5. ASSUME NEW i \in Slots, Dispose(i) PROVE Loads'
  <2>1. cleanerHolds[i] # NoWorker /\ i \in cleanerTodo
    BY <1>5, NoConfusion DEF Dispose, IInv, CleanerPhases
  <2>2. Cleaned(cleanerHolds[i]).contexts \subseteq cleanerHolds[i].contexts
    <3>1. cleanerHolds[i] \in Worker
      BY <1>1, <2>1 DEF WorkerOrNone
    <3> QED BY <3>1 DEF Cleaned, Worker
  <2>3. \A j \in Slots : cleanerHolds'[j] # NoWorker =>
            cleanerHolds[j] # NoWorker /\ cleanerHolds'[j].contexts \subseteq cleanerHolds[j].contexts
    BY <1>1, <1>5, <2>1, <2>2 DEF Dispose
  <2>4. slots' = slots
    BY <1>5 DEF Dispose, shared
  <2> QED BY <1>2, <2>3, <2>4 DEF Has
<1>6. CASE GiveBack
  <2>1. cleanerAt \in Slots
    BY <1>6 DEF IInv, TypeOK, Types, CleanerPhases, GiveBack
  <2>2. /\ \A j \in Slots : cleanerHolds'[j] \in {cleanerHolds[j], NoWorker}
        /\ \A j \in Slots : \/ slots'[j] \in {slots[j], NoWorker}
                            \/ j = cleanerAt /\ slots'[j] = cleanerHolds[cleanerAt]
    BY <1>1, <1>6, <2>1 DEF GiveBack, Return, Kept
  <2> QED BY <1>2, <2>2 DEF Has
<1> QED BY <1>3, <1>4, <1>5, <1>6 DEF CleanerStep

LEMMA StopLoads ==
    ASSUME IInv, Loads, (\E s \in Stoppers : Begin(s) \/ StopStep(s)) \/ UNCHANGED vars
    PROVE  Loads'
<1>1. UNCHANGED <<lease, contexts, affinity, slots, frame, cleaner>>
  BY DEF Begin, StopStep, EndOne, Finish, shared, vars
<1>2. \A i \in Slots, c \in Contexts : Has(i, c)' => Has(i, c)
  BY <1>1 DEF Has, frame, cleaner
<1>3. \A t \in Callers, c \in Contexts : Needs(t, c)' => Needs(t, c)
  BY <1>1 DEF Needs, frame
<1>4. /\ affinity \in [Contexts -> Slots \cup {NoSlot}]
      /\ held \in [Callers -> Slots \cup {NoSlot}]
  BY DEF IInv, TypeOK, Types
<1> QED BY <1>1, <1>2, <1>3, <1>4, LoadsKept DEF frame

\* A request begins with a lease that lives, and a lease drops when no request uses it.
LEMMA LeaseLoads ==
    ASSUME IInv, Loads,
           \/ \E t \in Callers : Request(t)
           \/ \E c \in Contexts : RecordRelease(c) \/ NotifyRelease(c)
    PROVE  Loads'
<1>1. /\ call \in [Callers -> Call \cup {NoCall}] /\ affinity \in [Contexts -> Slots \cup {NoSlot}]
      /\ lease \in [Contexts -> {"unused", "live", "recorded", "dropped"}]
      /\ contexts \subseteq Contexts
  BY DEF IInv, TypeOK, Types
<1>2. ASSUME NEW t \in Callers, Request(t) PROVE Loads'
  <2>1. PICK request \in Call :
          /\ MayUse(request.context)
          /\ call' = [call EXCEPT ![t] = request]
          /\ lease' = [c \in Contexts |-> IF c = request.context THEN "live" ELSE lease[c]]
    BY <1>2 DEF Request
  <2>2. /\ UNCHANGED <<contexts, affinity, slots, held, worker, cleanerHolds>> /\ held[t] = NoSlot
    BY <1>2 DEF Request, shared, cleaner, IInv, TypeOK, Types, Phases, Serving
  <2>3. \A u \in Callers, c \in Contexts : Needs(u, c)' => Needs(u, c) \/ (u = t /\ c = request.context)
    BY <1>1, <2>1 DEF Needs
  <2>4. \A c \in Contexts : lease'[c] = lease[c]
                            \/ (lease'[c] = "live" /\ lease[c] = "unused" /\ c = request.context)
    <3>1. \A c \in Contexts : c = request.context => lease[c] \in {"unused", "live"}
      BY <2>1, PoolAssumption DEF MayUse
    <3> QED BY <2>1, <3>1
  <2>5. \A i \in Slots, c \in Contexts : Has(i, c)' => Has(i, c)
    BY <2>2 DEF Has
  <2>6. Leased'
    <3>1. ASSUME NEW c \in Contexts, c = request.context PROVE lease'[c] = "live"
      BY <2>1, <3>1
    <3> QED BY <2>2, <2>3, <2>4, <3>1 DEF Loads, Leased
  <2>7. Affine'
    BY <2>2, <2>4, <2>5 DEF Loads, Affine
  <2>8. Claims'
    BY <2>2, <2>3 DEF Loads, Claims
  <2> QED BY <2>6, <2>7, <2>8 DEF Loads
<1>3. ASSUME NEW c \in Contexts, RecordRelease(c) \/ NotifyRelease(c) PROVE Loads'
  <2>1. /\ UNCHANGED <<slots, frame, cleaner>> /\ lease[c] \in {"live", "recorded"}
        /\ lease'[c] \in {"recorded", "dropped"} /\ (RecordRelease(c) => ~InUse(c))
        /\ \A d \in Contexts \ {c} : lease'[d] = lease[d] /\ affinity'[d] = affinity[d]
        /\ RecordRelease(c) => contexts' = contexts \ {c}
        /\ NotifyRelease(c) => contexts' = contexts /\ affinity' = affinity /\ lease[c] = "recorded"
    BY <1>1, <1>3 DEF RecordRelease, NotifyRelease, shared
  <2>2. \A t \in Callers : ~Needs(t, c)
    BY <1>3, <2>1 DEF InUse, Needs, Loads, Leased
  <2>3. \A i \in Slots, d \in Contexts : Has(i, d)' => Has(i, d)
    BY <2>1 DEF Has, frame, cleaner
  <2>4. \A t \in Callers, d \in Contexts : Needs(t, d)' => Needs(t, d) /\ d # c
    BY <2>1, <2>2 DEF Needs, frame
  <2>5. c \notin contexts'
    BY <1>3, <2>1 DEF Loads, Leased
  <2>6. Leased'
    <3>1. contexts' \subseteq contexts
      BY <1>3, <2>1
    <3> QED BY <2>1, <2>4, <2>5, <3>1 DEF Loads, Leased
  <2>7. Affine'
    <3> SUFFICES ASSUME NEW i \in Slots, NEW d \in Contexts, Has(i, d)'
                 PROVE  lease'[d] # "unused" /\ (lease'[d] = "live" => affinity'[d] = i)
      BY DEF Affine
    <3> QED BY <2>1, <2>3 DEF Loads, Affine
  <2>8. Claims'
    BY <2>1, <2>4 DEF Loads, Claims, frame
  <2> QED BY <2>6, <2>7, <2>8 DEF Loads
<1> QED BY <1>2, <1>3

LEMMA StepLoads == IInv /\ Reach /\ Loads /\ [Next]_vars => Loads'
<1> SUFFICES ASSUME IInv, Reach, Loads, [Next]_vars PROVE Loads'
  OBVIOUS
<1>1. ASSUME NEW t \in Callers, CallerStep(t) PROVE Loads'
  BY <1>1, ServedLoads, AcquireLoads, ExecuteLoads, PutBackLoads DEF CallerStep
<1> QED BY <1>1, CleanerLoads, StopLoads, LeaseLoads DEF Next

\* A context that is in use has one slot, and a slot has one worker.
LEMMA LoadsOnce == IInv /\ Reach /\ Loads => OneWorkerPerContext
<1> SUFFICES ASSUME IInv, Reach, Loads PROVE OneWorkerPerContext
  OBVIOUS
<1> DEFINE At(i, v) == \/ slots[i] = v
                       \/ cleanerHolds[i] = v
                       \/ \E t \in Callers : held[t] = i /\ worker[t] = v
           loaded   == {slots[i] : i \in Slots} \cup {worker[t] : t \in Callers}
                       \cup {cleanerHolds[i] : i \in Slots}
<1>1. ASSUME NEW v \in loaded \ {NoWorker} PROVE \E i \in Slots : At(i, v)
  <2>1. ASSUME NEW t \in Callers, worker[t] = v PROVE held[t] \in Slots
    BY <2>1 DEF Reach, ServedCovered, IInv, TypeOK, Types
  <2> QED BY <2>1
<1>2. ASSUME NEW i \in Slots, NEW v, NEW w, v # NoWorker, w # NoWorker, At(i, v), At(i, w) PROVE v = w
  <2>1. slots[i] # NoWorker => i \in available
    BY DEF Reach, IdleCovered
  <2>2. cleanerHolds[i] # NoWorker => i \in cleanerTodo
    BY DEF Reach, IdleCovered
  <2>3. \A t, u \in Callers : held[t] = i /\ held[u] = i => t = u
    BY DEF IInv, SlotOwnership
  <2>4. \A t \in Callers : held[t] = i => i \notin available /\ i \notin cleanerTodo
    BY DEF IInv, SlotOwnership
  <2>5. i \in available => i \notin cleanerTodo
    BY DEF IInv, SlotOwnership
  <2> QED BY <1>2, <2>1, <2>2, <2>3, <2>4, <2>5
<1>3. ASSUME NEW i \in Slots, NEW c \in contexts, NEW v, v # NoWorker, At(i, v), c \in v.contexts
      PROVE  affinity[c] = i
  <2>1. Has(i, c)
    BY <1>3 DEF Has
  <2>2. c \in Contexts /\ lease[c] = "live"
    BY DEF Loads, Leased, IInv, TypeOK, Types
  <2> QED BY <2>1, <2>2 DEF Loads, Affine
<1> HIDE DEF At
<1>4. ASSUME NEW v \in loaded \ {NoWorker}, NEW w \in loaded \ {NoWorker}, NEW c \in contexts,
             c \in v.contexts, c \in w.contexts
      PROVE  v = w
  <2>1. PICK i \in Slots : At(i, v)
    BY <1>1
  <2>2. PICK j \in Slots : At(j, w)
    BY <1>1
  <2>3. i = j
    BY <1>3, <1>4, <2>1, <2>2
  <2> QED BY <1>2, <2>1, <2>2, <2>3
<1>5. ASSUME NEW v \in loaded \ {NoWorker}, NEW w \in loaded \ {NoWorker},
             v.contexts \cap w.contexts \cap contexts # {}
      PROVE  v = w
  <2>1. PICK c \in contexts : c \in v.contexts /\ c \in w.contexts
    BY <1>5
  <2> QED BY <1>4, <2>1
<1> QED BY <1>5 DEF OneWorkerPerContext

\* Through recycling, root switches, releases and stops, no two processes ever hold a PostCSS
\* context that is in use: it is served by one process, which has its state.
THEOREM ContextsServedOnce == Spec => []OneWorkerPerContext
<1>1. Spec => []Reach
  BY InitReach, StepReach, Invariant, PTL DEF Spec
<1>2. Spec => []Loads
  BY <1>1, InitLoads, StepLoads, Invariant, PTL DEF Spec
<1> QED BY <1>1, <1>2, LoadsOnce, Invariant, PTL
=============================================================================
