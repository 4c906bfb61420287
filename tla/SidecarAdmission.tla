------------------------- MODULE SidecarAdmission --------------------------
(* The gate in front of the sidecar pool of `mokly serve` (serve_pool.rs): a   *)
(* mutex and a condition variable around two counters.  Current requests hold  *)
(* a foreground lease; HTTP pages hold one for their whole render; base        *)
(* requests wait until no lease is held, their attempt is cancelled or the     *)
(* gate closes.  The cancellation flags are read under the gate's mutex but    *)
(* written outside it, so looking at them and falling asleep are two steps.    *)
EXTENDS Integers, FiniteSets

CONSTANTS
    Current,     \* threads with a handle of pool(None)
    Base,        \* threads with a handle of pool(Some(token))
    Pages,       \* HTTP requests that enter() through Priority
    Attempts,    \* classifications, each with one cancellation token
    AttemptOf,   \* the attempt of a base thread
    Limit,       \* Gate::limit, the configured sidecar count
    Stoppers,    \* stop calls: cancel_requests, shutdown or abort
    Repeats,     \* threads that come back; the others come once
    Free

Callers == Current \cup Base
Threads == Callers \cup Pages

ASSUME AdmissionAssumption ==
    /\ IsFiniteSet(Current) /\ IsFiniteSet(Base) /\ IsFiniteSet(Pages)
    /\ Current \cap Base = {} /\ Current \cap Pages = {} /\ Base \cap Pages = {}
    /\ AttemptOf \in [Base -> Attempts]
    /\ Limit \in Nat \ {0}
    /\ Repeats \subseteq Threads
    /\ Free \notin Threads

VARIABLES
    lock,                                 \* the thread inside acquire's critical section
    active, foreground, waiting, closed,  \* State, guarded by the mutex
    asleep,                               \* threads in Condvar::wait
    pc,
    observed,                             \* attempts whose token knows the gate
    cancelled,                            \* ChangeToken::cancelled
    canceller,                            \* ChangeToken::cancel, per attempt
    stopper

gate == <<active, foreground, waiting, closed>>
outside == <<observed, cancelled, canceller, stopper>>
vars == <<lock, gate, asleep, pc, outside>>

Goto(t, to) == pc' = [pc EXCEPT ![t] = to]

NotifyAll == asleep' = {}

\* The mutex is free for a critical section of one step.
Locked == lock = Free /\ UNCHANGED lock

\* Where a thread goes when its call is over.
Over(t) == IF t \in Repeats THEN "idle" ELSE "done"

\* CombinedCancel::cancelled: the command, the generation or the attempt.
GivenUp(t) ==
    t \in Base /\ (AttemptOf[t] \in cancelled \/ \E s \in Stoppers : stopper[s] # "idle")

Init ==
    /\ lock = Free
    /\ active = 0 /\ foreground = 0 /\ waiting = 0 /\ closed = FALSE
    /\ asleep = {}
    /\ pc = [t \in Threads |-> "idle"]
    /\ observed = {} /\ cancelled = {}
    /\ canceller = [a \in Attempts |-> "idle"]
    /\ stopper = [s \in Stoppers |-> "idle"]

-----------------------------------------------------------------------------
(* Foreground leases *)

\* Gate::foreground.  The counter only closes the gate further, so that its
\* notification follows the unlock is of no consequence.
Enter(h) ==
    /\ pc[h] = "idle" /\ h \in Current \cup Pages
    /\ Locked
    /\ foreground' = foreground + 1
    /\ NotifyAll
    /\ Goto(h, "entered")
    /\ UNCHANGED <<active, waiting, closed, outside>>

\* Lease::drop of a foreground lease: a page's when its render ends, a current
\* call's after its admission dropped or was refused.
Exit(h) ==
    /\ \/ h \in Pages /\ pc[h] = "entered"
       \/ h \in Current /\ pc[h] = "exit"
    /\ Locked
    /\ foreground' = foreground - 1
    /\ NotifyAll
    /\ Goto(h, Over(h))
    /\ UNCHANGED <<active, waiting, closed, outside>>

-----------------------------------------------------------------------------
(* ScheduledPool::request *)

\* Gate::acquire up to its loop.
Arrive(t) ==
    /\ \/ t \in Current /\ pc[t] = "entered"
       \/ t \in Base /\ pc[t] = "idle" /\ AttemptOf[t] \in observed
    /\ lock = Free /\ lock' = t
    /\ waiting' = waiting + 1
    /\ NotifyAll
    /\ Goto(t, "look")
    /\ UNCHANGED <<active, foreground, closed, outside>>

\* Where a refused call goes: `?` drops the lease of a current call.
Refused(t) == IF t \in Current THEN "exit" ELSE Over(t)

\* Mistake: a refused call stays counted as waiting.
LookKeepsWaiting(t) ==
    /\ lock = t /\ pc[t] = "look"
    /\ \/ /\ closed \/ GivenUp(t)
          /\ NotifyAll
          /\ lock' = Free
          /\ Goto(t, Refused(t))
       \/ /\ ~closed /\ ~GivenUp(t)
          /\ Goto(t, "decide")
          /\ UNCHANGED <<lock, asleep>>
    /\ UNCHANGED <<gate, outside>>

\* The loop's first test.
Look(t) ==
    /\ lock = t /\ pc[t] = "look"
    /\ \/ /\ closed \/ GivenUp(t)
          /\ waiting' = waiting - 1
          /\ NotifyAll
          /\ lock' = Free
          /\ Goto(t, Refused(t))
       \/ /\ ~closed /\ ~GivenUp(t)
          /\ Goto(t, "decide")
          /\ UNCHANGED <<lock, waiting, asleep>>
    /\ UNCHANGED <<active, foreground, closed, outside>>

\* Mistake: base calls do not yield.
AdmissibleAlways(t) == active < Limit

Admissible(t) == active < Limit /\ (t \in Current \/ foreground = 0)

\* The loop's second test: admitted, or asleep with the mutex released.
Decide(t) ==
    /\ lock = t /\ pc[t] = "decide"
    /\ lock' = Free
    /\ \/ /\ Admissible(t)
          /\ active' = active + 1
          /\ waiting' = waiting - 1
          /\ Goto(t, "inside")
          /\ UNCHANGED asleep
       \/ /\ ~Admissible(t)
          /\ asleep' = asleep \cup {t}
          /\ Goto(t, "asleep")
          /\ UNCHANGED <<active, waiting>>
    /\ UNCHANGED <<foreground, closed, outside>>

\* Condvar::wait returns with the mutex held, and the loop starts over.
Wake(t) ==
    /\ pc[t] = "asleep" /\ t \notin asleep
    /\ lock = Free /\ lock' = t
    /\ Goto(t, "look")
    /\ UNCHANGED <<gate, asleep, outside>>

\* A wakeup nobody sent, which condition variables permit.
WakeSpuriously(t) ==
    /\ t \in asleep
    /\ asleep' = asleep \ {t}
    /\ UNCHANGED <<lock, gate, pc, outside>>

\* inner.request returns, with an answer or an error.
Answer(t) ==
    /\ pc[t] = "inside"
    /\ Goto(t, "leaving")
    /\ UNCHANGED <<lock, gate, asleep, outside>>

\* Mistake: a base call that leaves wakes nobody.
LeaveSilently(t) ==
    /\ pc[t] = "leaving"
    /\ Locked
    /\ active' = active - 1
    /\ Goto(t, Refused(t))
    /\ UNCHANGED <<foreground, waiting, closed, asleep, outside>>

\* Lease::drop of the admission, before that of the foreground lease.
Leave(t) ==
    /\ pc[t] = "leaving"
    /\ Locked
    /\ active' = active - 1
    /\ NotifyAll
    /\ Goto(t, Refused(t))
    /\ UNCHANGED <<foreground, waiting, closed, outside>>

-----------------------------------------------------------------------------
(* Cancellation and stops *)

\* PoolScheduling::pool: the token learns of the gate and, when it was cancelled
\* before, notifies at once.
Observe(a) ==
    /\ a \notin observed
    /\ observed' = observed \cup {a}
    /\ \/ a \notin cancelled /\ UNCHANGED <<lock, asleep>>
       \/ a \in cancelled /\ Locked /\ NotifyAll
    /\ UNCHANGED <<gate, pc, cancelled, canceller, stopper>>

\* ChangeToken::cancel sets the flag...
Cancel(a) ==
    /\ canceller[a] = "idle"
    /\ cancelled' = cancelled \cup {a}
    /\ canceller' = [canceller EXCEPT ![a] = "notify"]
    /\ UNCHANGED <<lock, gate, asleep, pc, observed, stopper>>

\* Mistake: the gate is notified without its mutex.
SignalUnlocked(a) ==
    /\ canceller[a] = "notify"
    /\ canceller' = [canceller EXCEPT ![a] = "done"]
    /\ \/ a \in observed /\ NotifyAll
       \/ a \notin observed /\ UNCHANGED asleep
    /\ UNCHANGED <<lock, gate, pc, observed, cancelled, stopper>>

\* ... and then calls its listeners: Gate::notify takes the mutex first.
Signal(a) ==
    /\ canceller[a] = "notify"
    /\ canceller' = [canceller EXCEPT ![a] = "done"]
    /\ \/ a \in observed /\ Locked /\ NotifyAll
       \/ a \notin observed /\ UNCHANGED <<lock, asleep>>
    /\ UNCHANGED <<gate, pc, observed, cancelled, stopper>>

\* The command is asked to stop: base tokens see that without a notification.
RequestStop(s) ==
    /\ stopper[s] = "idle"
    /\ stopper' = [stopper EXCEPT ![s] = "close"]
    /\ UNCHANGED <<lock, gate, asleep, pc, observed, cancelled, canceller>>

\* Gate::close sets the flag under the mutex and notifies after releasing it.
Close(s) ==
    /\ stopper[s] = "close"
    /\ Locked
    /\ closed' = TRUE
    /\ stopper' = [stopper EXCEPT ![s] = "notify"]
    /\ UNCHANGED <<active, foreground, waiting, asleep, pc, observed, cancelled, canceller>>

NotifyClosed(s) ==
    /\ stopper[s] = "notify"
    /\ stopper' = [stopper EXCEPT ![s] = "done"]
    /\ NotifyAll
    /\ UNCHANGED <<lock, gate, pc, observed, cancelled, canceller>>

-----------------------------------------------------------------------------
AtGate(t) == Arrive(t) \/ Look(t) \/ Decide(t) \/ Wake(t) \/ Leave(t)

StopStep(s) == Close(s) \/ NotifyClosed(s)

Next ==
    \/ \E h \in Current \cup Pages : Enter(h) \/ Exit(h)
    \/ \E t \in Callers : AtGate(t) \/ Answer(t) \/ WakeSpuriously(t)
    \/ \E a \in Attempts : Observe(a) \/ Cancel(a) \/ Signal(a)
    \/ \E s \in Stoppers : RequestStop(s) \/ StopStep(s)

Spec == Init /\ [][Next]_vars

\* Threads at the gate run.  Fairness is strong because most of their steps lock
\* the mutex: a thread that finds it free again and again gets it at last.
\* Nothing makes a request come, a call inside the pool return, a page end, an
\* attempt be cancelled or the command stop.
Fairness ==
    /\ \A t \in Callers : SF_vars(pc[t] # "idle" /\ AtGate(t))
    /\ \A h \in Current : SF_vars(Exit(h))
    /\ \A a \in Attempts : SF_vars(Signal(a))
    /\ \A s \in Stoppers : SF_vars(StopStep(s))

FairSpec == Spec /\ Fairness

-----------------------------------------------------------------------------
(* Properties *)

Inside == {t \in Callers : pc[t] \in {"inside", "leaving"}}
Waiting == {t \in Callers : pc[t] \in {"look", "decide", "asleep"}}

\* The threads that hold a foreground lease.
Holding ==
    {h \in Current : pc[h] \notin {"idle", "done"}} \cup {h \in Pages : pc[h] = "entered"}

\* Types, and that exactly the thread in acquire's critical section holds the mutex.
TypeOK ==
    /\ lock \in Callers \cup {Free}
    /\ active \in Nat /\ foreground \in Nat /\ waiting \in Nat /\ closed \in BOOLEAN
    /\ pc \in [Threads -> {"idle", "entered", "look", "decide", "asleep", "inside",
                           "leaving", "exit", "done"}]
    /\ asleep \subseteq {t \in Callers : pc[t] = "asleep"}
    /\ \A t \in Callers : lock = t <=> pc[t] \in {"look", "decide"}
    /\ \A t \in Base : pc[t] \notin {"entered", "exit"}
    /\ \A p \in Pages : pc[p] \in {"idle", "entered", "done"}
    /\ observed \subseteq Attempts /\ cancelled \subseteq Attempts
    /\ canceller \in [Attempts -> {"idle", "notify", "done"}]
    /\ stopper \in [Stoppers -> {"idle", "close", "notify", "done"}]

\* The counters are those of the threads, whichever way a call ends: a lease
\* dropped twice or never would leave base work locked out for good or let it
\* overtake the foreground (Gate::acquire, Lease::drop).
CountersExact ==
    /\ active = Cardinality(Inside)
    /\ foreground = Cardinality(Holding)
    /\ waiting = Cardinality(Waiting)

\* No thread sleeps although it could go on, unless a notification is still to
\* come: from the canceller of its attempt or from a stop (Condvar::wait against
\* Gate::notify, Gate::close and Lease::drop).
NoLostWakeup ==
    \A t \in asleep :
        /\ ~Admissible(t)
        /\ closed => \E s \in Stoppers : stopper[s] = "notify"
        /\ t \in Base /\ AttemptOf[t] \in cancelled => canceller[AttemptOf[t]] = "notify"

\* The gate implements the abstract admission: at most Limit calls inside, and
\* base calls yield to every foreground lease.
Promise == INSTANCE ForegroundFirst WITH inside <- Inside, holding <- Holding
AdmissionSpec == Promise!Spec

CallHangs == \E t \in Callers : <>[](pc[t] = "inside")
PageHangs == \E p \in Pages : <>[](pc[p] = "entered")

\* However much base work there is, a foreground call that entered ends, unless
\* a call hangs in the pool ("a foreground render that needs a sidecar does not
\* wait behind queued background renders", docs/protocol/mokly-on-demand.md:36).
ForegroundServed ==
    (\A t \in Current : pc[t] = "entered" ~> pc[t] \in {"idle", "done"}) \/ CallHangs

\* A call that waits at a closed gate, and a base call whose attempt is cancelled
\* or whose command stops, leave it even if no lease and no admission is ever
\* dropped (serve_pool_tests.rs:97, "cancellation wakes queued base work without
\* waiting for the foreground").
GivenUpReturns ==
    \A t \in Callers : t \in Waiting /\ (closed \/ GivenUp(t)) ~> t \notin Waiting

\* Base work goes on once the foreground is done, unless something hangs: of the
\* base calls that wait, one gets in or all give up.
BaseServed ==
    \/ Base \cap Waiting # {} ~> Base \cap Inside # {} \/ Base \cap Waiting = {}
    \/ CallHangs \/ PageHangs

\* Nobody is left at the gate who could go on or has given up: the three together.
CallsEnd == ForegroundServed /\ GivenUpReturns /\ BaseServed
=============================================================================
