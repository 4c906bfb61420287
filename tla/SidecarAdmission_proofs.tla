---------------------- MODULE SidecarAdmission_proofs ----------------------
(***************************************************************************)
(* Theorems about admission to the sidecars, for any number of callers,    *)
(* pages, attempts and stops and for every limit.                          *)
(***************************************************************************)
EXTENDS SidecarAdmission, FiniteSetTheorems, TLAPS

-----------------------------------------------------------------------------
(* The inductive invariant *)

\* A base thread that came to the gate has a token that knows it.
Listening == \A t \in Base : pc[t] \notin {"idle", "done"} => AttemptOf[t] \in observed

\* Between the two tests of acquire the gate stays open, since closing it takes
\* the mutex; an attempt cancelled meanwhile has its notification ahead of it.
Deciding ==
    \A t \in Callers : pc[t] = "decide" =>
        /\ ~closed
        /\ t \in Base /\ AttemptOf[t] \in cancelled => canceller[AttemptOf[t]] = "notify"

IInv == TypeOK /\ CountersExact /\ Listening /\ Deciding /\ NoLostWakeup

-----------------------------------------------------------------------------
(* Counting *)

Bit(b) == IF b THEN 1 ELSE 0

\* A set that changes in one element at most.
LEMMA OneElement ==
    ASSUME NEW S, NEW T, NEW t, IsFiniteSet(S), T \ {t} = S \ {t}
    PROVE  /\ Cardinality(T) = Cardinality(S) - Bit(t \in S) + Bit(t \in T)
           /\ Cardinality(S) \in Nat /\ Cardinality(T) \in Nat
<1> DEFINE R == S \ {t}
<1>1. IsFiniteSet(R) /\ Cardinality(R) = Cardinality(S) - Bit(t \in S)
  BY FS_RemoveElement, FS_CardinalityType DEF Bit
<1>2. Cardinality(S) \in Nat /\ Cardinality(R) \in Nat
  BY <1>1, FS_CardinalityType
<1>3. CASE t \in T
  <2>1. T = R \cup {t} /\ t \notin R
    BY <1>3
  <2>2. Cardinality(T) = Cardinality(R) + 1
    BY <1>1, <2>1, FS_AddElement
  <2> QED
    BY <1>1, <1>2, <1>3, <2>2 DEF Bit
<1>4. CASE t \notin T
  <2>1. T = R
    BY <1>4
  <2> QED
    BY <1>1, <1>2, <1>4, <2>1 DEF Bit
<1> QED
  BY <1>3, <1>4

LEMMA Finite == IsFiniteSet(Inside) /\ IsFiniteSet(Holding) /\ IsFiniteSet(Waiting)
<1>1. IsFiniteSet(Callers) /\ IsFiniteSet(Current \cup Pages)
  BY AdmissionAssumption, FS_Union DEF Callers
<1>2. Inside \in SUBSET Callers /\ Waiting \in SUBSET Callers
      /\ Holding \in SUBSET (Current \cup Pages)
  BY DEF Inside, Waiting, Holding
<1> QED
  BY <1>1, <1>2, FS_Subset

\* A step of one thread changes each of the three sets in that thread at most.
LEMMA Counted ==
    ASSUME TypeOK, NEW t \in Threads, NEW to, Goto(t, to)
    PROVE  /\ Cardinality(Inside') = Cardinality(Inside) - Bit(t \in Inside) + Bit(t \in Inside')
           /\ Cardinality(Holding') = Cardinality(Holding) - Bit(t \in Holding) + Bit(t \in Holding')
           /\ Cardinality(Waiting') = Cardinality(Waiting) - Bit(t \in Waiting) + Bit(t \in Waiting')
           /\ Cardinality(Inside') \in Nat /\ Cardinality(Holding') \in Nat
           /\ Cardinality(Waiting') \in Nat
<1>1. \A u \in Threads : u # t => pc'[u] = pc[u]
  BY DEF TypeOK, Goto
<1>2. Inside' \ {t} = Inside \ {t} /\ Waiting' \ {t} = Waiting \ {t}
  BY <1>1 DEF Inside, Waiting, Threads
<1>3. Holding' \ {t} = Holding \ {t}
  BY <1>1 DEF Holding, Threads, Callers
<1> QED
  BY <1>2, <1>3, Finite, OneElement

-----------------------------------------------------------------------------
(* The invariant is inductive *)

LEMMA InitInv == Init => IInv
<1> SUFFICES ASSUME Init PROVE IInv
  OBVIOUS
<1>1. Inside = {} /\ Holding = {} /\ Waiting = {}
  BY DEF Init, Inside, Holding, Waiting, Threads, Callers
<1>2. CountersExact
  BY <1>1, FS_EmptySet DEF CountersExact, Init
<1>3. TypeOK
  BY AdmissionAssumption DEF TypeOK, Init, Threads, Callers
<1>4. Listening /\ Deciding /\ NoLostWakeup
  BY DEF Listening, Deciding, NoLostWakeup, Init, Threads, Callers
<1> QED
  BY <1>2, <1>3, <1>4 DEF IInv

\* What the steps of the gate owe to the invariant, action by action.
LEMMA EnterInv == ASSUME IInv, NEW h \in Current \cup Pages, Enter(h) PROVE IInv'
<1> USE AdmissionAssumption DEF IInv, Enter, Locked, NotifyAll, outside
<1>1. TypeOK'
  BY DEF TypeOK, Goto, Threads, Callers
<1>2. CountersExact'
  <2>1. h \in Threads /\ h \notin Base /\ Goto(h, "entered") /\ pc[h] = "idle"
    BY DEF Threads, Callers
  <2>2. h \notin Inside /\ h \notin Waiting /\ h \notin Holding
    BY <2>1 DEF Inside, Waiting, Holding
  <2>3. h \notin Inside' /\ h \notin Waiting' /\ h \in Holding'
    BY <2>1 DEF TypeOK, Goto, Inside, Waiting, Holding
  <2> QED
    BY <2>1, <2>2, <2>3, Counted DEF CountersExact, Bit, TypeOK
<1>3. Listening'
  BY DEF Listening, TypeOK, Goto, Threads, Callers
<1>4. Deciding'
  BY DEF Deciding, TypeOK, Goto, Threads, Callers
<1>5. NoLostWakeup'
  BY DEF NoLostWakeup
<1> QED
  BY <1>1, <1>2, <1>3, <1>4, <1>5

LEMMA ExitInv == ASSUME IInv, NEW h \in Current \cup Pages, Exit(h) PROVE IInv'
<1> USE AdmissionAssumption DEF IInv, Exit, Locked, NotifyAll, outside
<1>0. h \in Threads /\ h \notin Base /\ Goto(h, Over(h)) /\ Over(h) \in {"idle", "done"}
  BY DEF Threads, Callers, Over
<1>2. CountersExact' /\ foreground' \in Nat
  <2>1. pc'[h] = Over(h)
    BY <1>0 DEF TypeOK, Goto
  <2>2. h \notin Inside /\ h \notin Waiting /\ h \in Holding
    BY DEF Inside, Waiting, Holding, Callers
  <2>3. h \notin Inside' /\ h \notin Waiting' /\ h \notin Holding'
    BY <1>0, <2>1 DEF Inside, Waiting, Holding
  <2> QED
    BY <1>0, <2>2, <2>3, Counted DEF CountersExact, Bit, TypeOK
<1>1. TypeOK'
  BY <1>0, <1>2 DEF TypeOK, Goto, Threads, Callers
<1>3. Listening'
  BY <1>0 DEF Listening, TypeOK, Goto, Threads, Callers
<1>4. Deciding'
  BY <1>0 DEF Deciding, TypeOK, Goto, Threads, Callers
<1>5. NoLostWakeup'
  BY DEF NoLostWakeup
<1> QED
  BY <1>1, <1>2, <1>3, <1>4, <1>5

LEMMA ArriveInv == ASSUME IInv, NEW t \in Callers, Arrive(t) PROVE IInv'
<1> USE AdmissionAssumption DEF IInv, Arrive, NotifyAll, outside
<1>0. t \in Threads /\ Goto(t, "look") /\ pc'[t] = "look" /\ pc[t] \in {"idle", "entered"}
  BY DEF Threads, TypeOK, Goto
<1>1. TypeOK'
  BY <1>0 DEF TypeOK, Goto, Threads, Callers
<1>2. CountersExact'
  <2>1. t \notin Inside /\ t \notin Waiting /\ t \notin Inside' /\ t \in Waiting'
    BY <1>0 DEF Inside, Waiting
  <2>2. t \in Holding <=> t \in Holding'
    BY <1>0 DEF Holding, Callers
  <2> QED
    BY <1>0, <2>1, <2>2, Counted DEF CountersExact, Bit, TypeOK
<1>3. Listening'
  BY DEF Listening, TypeOK, Goto, Threads, Callers
<1>4. Deciding'
  BY DEF Deciding, TypeOK, Goto, Threads, Callers
<1>5. NoLostWakeup'
  BY DEF NoLostWakeup
<1> QED
  BY <1>1, <1>2, <1>3, <1>4, <1>5

LEMMA LookInv == ASSUME IInv, NEW t \in Callers, Look(t) PROVE IInv'
<1> USE AdmissionAssumption DEF IInv, NotifyAll, outside
<1>0. t \in Threads /\ pc[t] = "look" /\ lock = t
  BY DEF Threads, Look
<1>a. CASE closed \/ GivenUp(t)
  <2>0. /\ Goto(t, Refused(t)) /\ lock' = Free /\ waiting' = waiting - 1 /\ asleep' = {}
        /\ Refused(t) \in {"exit", "idle", "done"}
        /\ t \in Current <=> Refused(t) = "exit"
        /\ UNCHANGED <<active, foreground, closed, outside>>
    BY <1>a DEF Look, Refused, Over
  <2>1. pc'[t] = Refused(t)
    BY <1>0, <2>0 DEF TypeOK, Goto
  <2>2. t \notin Inside /\ t \in Waiting /\ t \notin Inside' /\ t \notin Waiting'
    BY <1>0, <2>0, <2>1 DEF Inside, Waiting
  <2>3. t \in Holding <=> t \in Holding'
    BY <1>0, <2>0, <2>1 DEF Holding, Callers
  <2>4. CountersExact' /\ waiting' \in Nat
    BY <1>0, <2>0, <2>2, <2>3, Counted DEF CountersExact, Bit, TypeOK
  <2>5. TypeOK'
    BY <1>0, <2>0, <2>4 DEF TypeOK, Goto, Threads, Callers
  <2>6. Listening' /\ Deciding'
    BY <1>0, <2>0 DEF Listening, Deciding, TypeOK, Goto, Threads, Callers
  <2>7. NoLostWakeup'
    BY <2>0 DEF NoLostWakeup
  <2> QED
    BY <2>4, <2>5, <2>6, <2>7
<1>b. CASE ~closed /\ ~GivenUp(t)
  <2>0. /\ Goto(t, "decide") /\ pc'[t] = "decide"
        /\ UNCHANGED <<lock, gate, asleep, outside>>
    BY <1>0, <1>b DEF Look, gate, TypeOK, Goto
  <2>2. t \notin Inside /\ t \in Waiting /\ t \notin Inside' /\ t \in Waiting'
    BY <1>0, <2>0 DEF Inside, Waiting
  <2>3. t \in Holding <=> t \in Holding'
    BY <1>0, <2>0 DEF Holding, Callers
  <2>4. CountersExact'
    BY <1>0, <2>0, <2>2, <2>3, Counted DEF CountersExact, Bit, TypeOK, gate
  <2>5. TypeOK'
    BY <1>0, <2>0 DEF TypeOK, Goto, Threads, Callers, gate
  <2>6. Listening'
    BY <1>0, <2>0 DEF Listening, TypeOK, Goto, Threads, Callers
  <2>8. Deciding'
    BY <1>0, <1>b, <2>0 DEF Deciding, GivenUp, TypeOK, Goto, Threads, Callers, gate
  <2>7. NoLostWakeup'
    BY <2>0 DEF NoLostWakeup, Admissible, gate
  <2> QED
    BY <2>4, <2>5, <2>6, <2>7, <2>8
<1> QED
  BY <1>a, <1>b DEF Look

LEMMA DecideInv == ASSUME IInv, NEW t \in Callers, Decide(t) PROVE IInv'
<1> USE AdmissionAssumption DEF IInv, outside
<1>0. t \in Threads /\ pc[t] = "decide" /\ lock = t /\ lock' = Free
      /\ UNCHANGED <<foreground, closed, outside>>
  BY DEF Threads, Decide
<1>a. CASE Admissible(t)
  <2>0. /\ Goto(t, "inside") /\ pc'[t] = "inside"
        /\ active' = active + 1 /\ waiting' = waiting - 1 /\ UNCHANGED asleep
    BY <1>0, <1>a DEF Decide, TypeOK, Goto
  <2>2. t \notin Inside /\ t \in Waiting /\ t \in Inside' /\ t \notin Waiting'
    BY <1>0, <2>0 DEF Inside, Waiting
  <2>3. t \in Holding <=> t \in Holding'
    BY <1>0, <2>0 DEF Holding, Callers
  <2>4. CountersExact' /\ waiting' \in Nat
    BY <1>0, <2>0, <2>2, <2>3, Counted DEF CountersExact, Bit, TypeOK
  <2>5. TypeOK'
    BY <1>0, <2>0, <2>4 DEF TypeOK, Goto, Threads, Callers
  <2>6. Listening' /\ Deciding'
    BY <1>0, <2>0 DEF Listening, Deciding, TypeOK, Goto, Threads, Callers
  <2>7. NoLostWakeup'
    BY <1>0, <2>0 DEF NoLostWakeup, Admissible, TypeOK
  <2> QED
    BY <2>4, <2>5, <2>6, <2>7
<1>b. CASE ~Admissible(t)
  <2>0. /\ Goto(t, "asleep") /\ pc'[t] = "asleep"
        /\ asleep' = asleep \cup {t} /\ UNCHANGED <<active, waiting>>
    BY <1>0, <1>b DEF Decide, TypeOK, Goto
  <2>2. t \notin Inside /\ t \in Waiting /\ t \notin Inside' /\ t \in Waiting'
    BY <1>0, <2>0 DEF Inside, Waiting
  <2>3. t \in Holding <=> t \in Holding'
    BY <1>0, <2>0 DEF Holding, Callers
  <2>4. CountersExact'
    BY <1>0, <2>0, <2>2, <2>3, Counted DEF CountersExact, Bit, TypeOK
  <2>5. TypeOK'
    BY <1>0, <2>0 DEF TypeOK, Goto, Threads, Callers
  <2>6. Listening' /\ Deciding'
    BY <1>0, <2>0 DEF Listening, Deciding, TypeOK, Goto, Threads, Callers
  <2>7. NoLostWakeup'
    BY <1>0, <1>b, <2>0 DEF NoLostWakeup, Deciding, Admissible
  <2> QED
    BY <2>4, <2>5, <2>6, <2>7
<1> QED
  BY <1>a, <1>b

LEMMA WakeInv == ASSUME IInv, NEW t \in Callers, Wake(t) PROVE IInv'
<1> USE AdmissionAssumption DEF IInv, Wake, outside, gate
<1>0. t \in Threads /\ Goto(t, "look") /\ pc'[t] = "look" /\ pc[t] = "asleep"
  BY DEF Threads, TypeOK, Goto
<1>1. TypeOK'
  BY <1>0 DEF TypeOK, Goto, Threads, Callers
<1>2. CountersExact'
  <2>1. t \notin Inside /\ t \in Waiting /\ t \notin Inside' /\ t \in Waiting'
    BY <1>0 DEF Inside, Waiting
  <2>2. t \in Holding <=> t \in Holding'
    BY <1>0 DEF Holding, Callers
  <2> QED
    BY <1>0, <2>1, <2>2, Counted DEF CountersExact, Bit, TypeOK
<1>3. Listening' /\ Deciding'
  BY <1>0 DEF Listening, Deciding, TypeOK, Goto, Threads, Callers
<1>5. NoLostWakeup'
  BY DEF NoLostWakeup, Admissible
<1> QED
  BY <1>1, <1>2, <1>3, <1>5

LEMMA AnswerInv == ASSUME IInv, NEW t \in Callers, Answer(t) PROVE IInv'
<1> USE AdmissionAssumption DEF IInv, Answer, outside, gate
<1>0. t \in Threads /\ Goto(t, "leaving") /\ pc'[t] = "leaving" /\ pc[t] = "inside"
  BY DEF Threads, TypeOK, Goto
<1>1. TypeOK'
  BY <1>0 DEF TypeOK, Goto, Threads, Callers
<1>2. CountersExact'
  <2>1. t \in Inside /\ t \notin Waiting /\ t \in Inside' /\ t \notin Waiting'
    BY <1>0 DEF Inside, Waiting
  <2>2. t \in Holding <=> t \in Holding'
    BY <1>0 DEF Holding, Callers
  <2> QED
    BY <1>0, <2>1, <2>2, Counted DEF CountersExact, Bit, TypeOK
<1>3. Listening' /\ Deciding'
  BY <1>0 DEF Listening, Deciding, TypeOK, Goto, Threads, Callers
<1>5. NoLostWakeup'
  BY DEF NoLostWakeup, Admissible
<1> QED
  BY <1>1, <1>2, <1>3, <1>5

LEMMA LeaveInv == ASSUME IInv, NEW t \in Callers, Leave(t) PROVE IInv'
<1> USE AdmissionAssumption DEF IInv, Leave, Locked, NotifyAll, outside
<1>0. /\ t \in Threads /\ Goto(t, Refused(t)) /\ pc[t] = "leaving"
      /\ Refused(t) \in {"exit", "idle", "done"}
      /\ t \in Current <=> Refused(t) = "exit"
  BY DEF Threads, Refused, Over
<1>1. pc'[t] = Refused(t)
  BY <1>0 DEF TypeOK, Goto
<1>2. CountersExact' /\ active' \in Nat
  <2>1. t \in Inside /\ t \notin Waiting /\ t \notin Inside' /\ t \notin Waiting'
    BY <1>0, <1>1 DEF Inside, Waiting
  <2>2. t \in Holding <=> t \in Holding'
    BY <1>0, <1>1 DEF Holding, Callers
  <2> QED
    BY <1>0, <2>1, <2>2, Counted DEF CountersExact, Bit, TypeOK
<1>3. TypeOK'
  BY <1>0, <1>2 DEF TypeOK, Goto, Threads, Callers
<1>4. Listening' /\ Deciding'
  BY <1>0 DEF Listening, Deciding, TypeOK, Goto, Threads, Callers
<1>5. NoLostWakeup'
  BY DEF NoLostWakeup
<1> QED
  BY <1>2, <1>3, <1>4, <1>5

\* The steps that leave the program counters and the counters alone.
LEMMA SameCounters ==
    ASSUME IInv, UNCHANGED <<pc, active, foreground, waiting>>
    PROVE  CountersExact'
BY DEF IInv, CountersExact, Inside, Holding, Waiting

LEMMA SignalsInv ==
    ASSUME IInv, NEW a \in Attempts, Observe(a) \/ Cancel(a) \/ Signal(a)
    PROVE  IInv'
<1> USE DEF IInv, Locked, NotifyAll
<1>1. CASE Observe(a)
  <2> USE <1>1 DEF Observe, gate
  <2>1. TypeOK' /\ Listening' /\ Deciding'
    BY DEF TypeOK, Listening, Deciding
  <2>2. NoLostWakeup'
    BY DEF NoLostWakeup, Admissible
  <2> QED
    BY <2>1, <2>2, SameCounters
<1>2. CASE Cancel(a)
  <2> USE <1>2 DEF Cancel, gate
  <2>1. TypeOK' /\ Listening'
    BY DEF TypeOK, Listening
  <2>2. Deciding'
    BY AdmissionAssumption DEF TypeOK, Deciding
  <2>3. NoLostWakeup'
    BY AdmissionAssumption DEF TypeOK, NoLostWakeup, Admissible
  <2> QED
    BY <2>1, <2>2, <2>3, SameCounters
<1>3. CASE Signal(a)
  <2> USE <1>3 DEF Signal, gate
  <2>1. TypeOK' /\ Listening'
    BY DEF TypeOK, Listening
  <2>2. Deciding'
    <3>1. CASE a \in observed
      <4>1. \A t \in Callers : pc[t] # "decide"
        BY <3>1, AdmissionAssumption DEF TypeOK, Threads
      <4> QED
        BY <4>1 DEF Deciding
    <3>2. CASE a \notin observed
      BY <3>2, AdmissionAssumption DEF TypeOK, Deciding, Listening
    <3> QED
      BY <3>1, <3>2
  <2>3. NoLostWakeup'
    <3>1. CASE a \in observed
      BY <3>1 DEF NoLostWakeup
    <3>2. CASE a \notin observed
      BY <3>2, AdmissionAssumption DEF TypeOK, NoLostWakeup, Listening, Admissible, Callers
    <3> QED
      BY <3>1, <3>2
  <2> QED
    BY <2>1, <2>2, <2>3, SameCounters
<1> QED
  BY <1>1, <1>2, <1>3

LEMMA StopsInv ==
    ASSUME IInv, NEW s \in Stoppers, RequestStop(s) \/ Close(s) \/ NotifyClosed(s)
    PROVE  IInv'
<1> USE DEF IInv, Locked, NotifyAll
<1>1. CASE RequestStop(s)
  <2> USE <1>1 DEF RequestStop, gate
  <2>1. TypeOK' /\ Listening' /\ Deciding'
    BY DEF TypeOK, Listening, Deciding
  <2>2. NoLostWakeup'
    BY DEF TypeOK, NoLostWakeup, Admissible
  <2> QED
    BY <2>1, <2>2, SameCounters
<1>2. CASE Close(s)
  <2> USE <1>2 DEF Close
  <2>1. TypeOK' /\ Listening'
    BY DEF TypeOK, Listening
  <2>2. Deciding'
    BY AdmissionAssumption DEF TypeOK, Deciding, Threads
  <2>3. NoLostWakeup'
    BY DEF TypeOK, NoLostWakeup, Admissible
  <2> QED
    BY <2>1, <2>2, <2>3, SameCounters
<1>3. CASE NotifyClosed(s)
  <2> USE <1>3 DEF NotifyClosed, gate
  <2>1. TypeOK' /\ Listening' /\ Deciding'
    BY DEF TypeOK, Listening, Deciding
  <2>2. NoLostWakeup'
    BY DEF NoLostWakeup
  <2> QED
    BY <2>1, <2>2, SameCounters
<1> QED
  BY <1>1, <1>2, <1>3

LEMMA SpuriousInv == ASSUME IInv, NEW t \in Callers, WakeSpuriously(t) PROVE IInv'
<1> USE DEF IInv, WakeSpuriously, outside, gate
<1>1. TypeOK' /\ Listening' /\ Deciding'
  BY DEF TypeOK, Listening, Deciding
<1>2. NoLostWakeup'
  BY DEF NoLostWakeup, Admissible
<1> QED
  BY <1>1, <1>2, SameCounters

LEMMA StutterInv == ASSUME IInv, UNCHANGED vars PROVE IInv'
<1> USE DEF IInv, vars, outside, gate
<1>1. TypeOK' /\ Listening' /\ Deciding' /\ NoLostWakeup'
  BY DEF TypeOK, Listening, Deciding, NoLostWakeup, Admissible
<1> QED
  BY <1>1, SameCounters

LEMMA NextInv == IInv /\ [Next]_vars => IInv'
<1> SUFFICES ASSUME IInv, [Next]_vars PROVE IInv'
  OBVIOUS
<1> QED
  BY EnterInv, ExitInv, ArriveInv, LookInv, DecideInv, WakeInv, AnswerInv, LeaveInv,
     SignalsInv, StopsInv, SpuriousInv, StutterInv
  DEF Next, AtGate, StopStep

\* The inductive invariant holds in every reachable state of the gate.
THEOREM Invariant == Spec => []IInv
BY InitInv, NextInv, PTL DEF Spec

\* Types, and that exactly the thread inside acquire's critical section holds
\* the gate's mutex.
THEOREM TypeCorrect == Spec => []TypeOK
<1>1. IInv => TypeOK
  BY DEF IInv
<1> QED
  BY <1>1, Invariant, PTL

\* active, foreground and waiting count the threads they stand for, however many
\* calls are admitted, refused, cancelled and dropped (Gate, Lease::drop).
THEOREM CountersAreExact == Spec => []CountersExact
<1>1. IInv => CountersExact
  BY DEF IInv
<1> QED
  BY <1>1, Invariant, PTL

\* No caller sleeps through its turn, its cancellation or the closing of the gate.
THEOREM WakeupsReachSleepers == Spec => []NoLostWakeup
<1>1. IInv => NoLostWakeup
  BY DEF IInv
<1> QED
  BY <1>1, Invariant, PTL

-----------------------------------------------------------------------------
(* The gate implements the abstract admission *)

LEMMA StepImplements == IInv /\ IInv' /\ [Next]_vars => [Promise!Next]_<<Inside, Holding>>
<1> SUFFICES ASSUME IInv, IInv', Next
             PROVE  Promise!Next \/ UNCHANGED <<Inside, Holding>>
  BY DEF vars, Inside, Holding
<1> USE AdmissionAssumption DEF IInv
<1>1. ASSUME NEW h \in Current \cup Pages, Enter(h) PROVE Promise!Hold(h)
  BY <1>1 DEF Enter, TypeOK, Goto, Promise!Hold, Inside, Holding, Threads, Callers
<1>2. ASSUME NEW h \in Current \cup Pages, Exit(h) PROVE Promise!Release(h)
  BY <1>2 DEF Exit, Over, TypeOK, Goto, Promise!Release, Inside, Holding, Threads, Callers
<1>3. ASSUME NEW t \in Callers, Arrive(t) PROVE UNCHANGED <<Inside, Holding>>
  BY <1>3 DEF Arrive, TypeOK, Goto, Inside, Holding, Threads, Callers
<1>4. ASSUME NEW t \in Callers, Look(t) PROVE UNCHANGED <<Inside, Holding>>
  BY <1>4 DEF Look, Refused, Over, TypeOK, Goto, Inside, Holding, Threads, Callers
<1>5. ASSUME NEW t \in Callers, Decide(t), Admissible(t) PROVE Promise!Admit(t)
  <2>0. t \in Threads /\ pc[t] = "decide" /\ pc' = [pc EXCEPT ![t] = "inside"]
    BY <1>5 DEF Decide, Goto, Threads
  <2>1. Inside' = Inside \cup {t} /\ t \notin Inside
    BY <2>0 DEF Inside, TypeOK, Threads
  <2>2. Holding' = Holding /\ (t \in Current => t \in Holding)
    BY <2>0 DEF Holding, TypeOK, Threads, Callers
  <2>3. Cardinality(Inside) < Limit
    BY <1>5 DEF Admissible, CountersExact
  <2>4. t \in Base => Holding = {}
    BY <1>5, Finite, FS_EmptySet DEF Admissible, CountersExact
  <2>5. Promise!Cardinality(Inside) = Cardinality(Inside)
    BY DEF Promise!Cardinality, Cardinality
  <2> QED
    BY <2>1, <2>2, <2>3, <2>4, <2>5 DEF Promise!Admit, Callers
<1>6. ASSUME NEW t \in Callers, Decide(t), ~Admissible(t) PROVE UNCHANGED <<Inside, Holding>>
  BY <1>6 DEF Decide, TypeOK, Goto, Inside, Holding, Threads, Callers
<1>7. ASSUME NEW t \in Callers, Wake(t) \/ Answer(t) PROVE UNCHANGED <<Inside, Holding>>
  BY <1>7 DEF Wake, Answer, TypeOK, Goto, Inside, Holding, Threads, Callers
<1>8. ASSUME NEW t \in Callers, Leave(t) PROVE Promise!Leave(t)
  <2>0. t \in Threads /\ pc[t] = "leaving" /\ pc' = [pc EXCEPT ![t] = Refused(t)]
        /\ Refused(t) \in {"exit", "idle", "done"} /\ (t \in Current <=> Refused(t) = "exit")
    BY <1>8 DEF Leave, Goto, Threads, Refused, Over
  <2>1. Inside' = Inside \ {t} /\ t \in Inside
    BY <2>0 DEF Inside, TypeOK, Threads
  <2>2. Holding' = Holding
    BY <2>0 DEF Holding, TypeOK, Threads, Callers
  <2> QED
    BY <2>1, <2>2 DEF Promise!Leave
<1>9. ASSUME UNCHANGED pc PROVE UNCHANGED <<Inside, Holding>>
  BY <1>9 DEF Inside, Holding
<1>10. ASSUME NEW t \in Callers, WakeSpuriously(t) PROVE UNCHANGED pc
  BY <1>10 DEF WakeSpuriously
<1>11. ASSUME NEW a \in Attempts, Observe(a) \/ Cancel(a) \/ Signal(a) PROVE UNCHANGED pc
  BY <1>11 DEF Observe, Cancel, Signal
<1>12. ASSUME NEW s \in Stoppers, RequestStop(s) \/ StopStep(s) PROVE UNCHANGED pc
  BY <1>12 DEF RequestStop, StopStep, Close, NotifyClosed
<1> QED
  BY <1>1, <1>2, <1>3, <1>4, <1>5, <1>6, <1>7, <1>8, <1>9, <1>10, <1>11, <1>12
  DEF Next, AtGate, Promise!Next, Callers

\* The gate keeps its promise for every number of callers and every limit: at most
\* Limit calls are inside, and none of the base side enters while the foreground
\* holds a lease.
THEOREM AdmissionKept == Spec => AdmissionSpec
<1>1. Init => Promise!Init
  BY DEF Init, Promise!Init, Inside, Holding, Threads, Callers
<1> QED
  BY <1>1, Invariant, StepImplements, PTL DEF Spec, AdmissionSpec, Promise!Spec
=============================================================================
