--------------------------- MODULE Workers_proofs ---------------------------
(* Proofs about the scheduler of the live server, for any number of calls, of  *)
(* pages and of workers.  The inductive invariant says where every call stands *)
(* and with which permits: the permits of workers that are taken are as many   *)
(* as the calls that have one, the foreground counter counts the guards, every *)
(* queue holds just the calls that wait in it, once, and the turn and the      *)
(* gates are with the one call that thinks so.  From that follow the page that *)
(* stays as long as a call of it has not answered, the numbers of its edits,   *)
(* the one background render that may overtake and the stop that waits for     *)
(* everybody.                                                                  *)
EXTENDS Workers, TLAPS, SequenceTheorems, FiniteSetTheorems

-----------------------------------------------------------------------------
(* The inductive invariant *)

DeliveryPhases ==
    {"idle", "entered", "looked", "queued", "permitted", "rendering", "released", "done"}

\* A background render that has the turn.
TurnPhases == {"turn", "listening", "open", "quiet", "waiting"}

BackgroundPhases == {"idle", "turnQueued", "rendering", "released", "done"} \cup TurnPhases

\* A preview that has the permit of its page.
GatePhases == {"gated", "workerQueued", "chosen", "rendering"}

PreviewPhases ==
    {"idle", "numbered", "announced", "begun", "gateQueued", "released", "done"} \cup GatePhases

Phases ==
    /\ pc \in [Calls -> DeliveryPhases \cup BackgroundPhases \cup PreviewPhases]
    /\ \A t \in Deliveries : pc[t] \in DeliveryPhases
    /\ \A t \in Backgrounds : pc[t] \in BackgroundPhases
    /\ \A j \in Previews : pc[j] \in PreviewPhases

Values ==
    /\ closed \in BOOLEAN /\ foreground \in Nat /\ free \in Nat
    /\ queue \in Seq(Calls \cup {Stop}) /\ turnQueue \in Seq(Backgrounds)
    /\ next \in [Pages -> Nat] /\ gate \in [Pages -> Previews \cup {Free}]
    /\ gateQueue \in [Pages -> Seq(Previews)] /\ sequence \in [Previews -> Nat]
    /\ hearing \subseteq Previews /\ told \subseteq Previews
    /\ outcome \in [Previews -> {"none", "rendered", "failed", "stale", "capacity"}]
    /\ stopper \in {"idle", "closed", "draining", "stopped"}
    /\ overtaken \in [Foregrounds -> Nat]

\* Every permit is free or with a call, and every guard of a foreground call counts once.
Permits == IsFiniteSet(Permitted) /\ free + Cardinality(Permitted) = Parallelism

Guards == IsFiniteSet(Guarded) /\ foreground = Cardinality(Guarded)

\* Calls that wait for a worker.
Queued == {t \in Calls : pc[t] \in {"queued", "workerQueued"}}

\* Whoever waits for a worker, for the turn or for a page is in that queue once.
Lines ==
    /\ IsInjective(queue)
    /\ ToSet(queue) = Queued \cup (IF stopper = "draining" THEN {Stop} ELSE {})

TurnLine ==
    /\ IsInjective(turnQueue)
    /\ ToSet(turnQueue) = {t \in Calls : pc[t] = "turnQueued"}

GateLines ==
    \A p \in Pages :
        /\ IsInjective(gateQueue[p])
        /\ ToSet(gateQueue[p]) = {j \in Previews : PageOf[j] = p /\ pc[j] = "gateQueued"}

\* One background render has the turn, and one preview of a page its gate.
Turns == \A t \in Backgrounds : turn = t <=> pc[t] \in TurnPhases

Gates ==
    /\ \A j \in Previews : gate[PageOf[j]] = j <=> pc[j] \in GatePhases
    /\ \A p \in Pages : gate[p] # Free => PageOf[gate[p]] = p

\* A call that has not come to its render has not answered either, so its page stays.
Unanswered ==
    \A j \in Previews :
        pc[j] \notin {"idle", "rendering", "released", "done"} => outcome[j] = "none"

\* A stop closes first, and ends when no call has a permit.
Stops == (stopper # "idle" => closed) /\ ForegroundDrained

\* Once it was overtaken, a foreground call waits for nobody who looked before it came.
Overtakes ==
    \A t \in Guarded :
        /\ overtaken[t] <= 1
        /\ overtaken[t] = 1 => \A b \in Backgrounds : pc[b] # "quiet"

\* No edit of a page has a number that the page has not reached.
Numbers == \A j \in Previews : j \in Holding(PageOf[j]) => sequence[j] <= next[PageOf[j]]

IInv ==
    /\ Phases /\ Values /\ Permits /\ Guards /\ Lines /\ TurnLine /\ GateLines
    /\ Turns /\ Gates /\ Unanswered /\ Stops /\ Overtakes /\ Numbers

LEMMA Disjoint ==
    /\ Calls = Deliveries \cup Previews \cup Backgrounds
    /\ Deliveries \cap Previews = {} /\ Deliveries \cap Backgrounds = {}
    /\ Previews \cap Backgrounds = {}
    /\ Stop \notin Calls /\ Free \notin Calls
    /\ Foregrounds = Deliveries \cup Previews
    /\ PageOf \in [Previews -> Pages]
    /\ Parallelism \in Nat
BY WorkersAssumption DEF Calls, Foregrounds
-----------------------------------------------------------------------------
(* Lemmas on queues *)

\* A call that joins a queue is in it once, behind the others.
LEMMA Joined ==
    ASSUME NEW S, NEW q \in Seq(S), NEW t \in S, IsInjective(q), t \notin ToSet(q)
    PROVE  /\ Append(q, t) \in Seq(S) /\ IsInjective(Append(q, t))
           /\ ToSet(Append(q, t)) = ToSet(q) \cup {t}
<1>1. /\ Append(q, t) \in Seq(S) /\ Len(Append(q, t)) = Len(q) + 1 /\ Len(q) \in Nat
      /\ \A k \in 1..Len(q) : Append(q, t)[k] = q[k]
      /\ Append(q, t)[Len(q) + 1] = t
  BY AppendProperties, LenProperties
<1>2. DOMAIN q = 1..Len(q) /\ DOMAIN Append(q, t) = 1..(Len(q) + 1)
  BY <1>1, LenProperties
<1> QED BY <1>1, <1>2 DEF IsInjective, ToSet

\* The first of a queue is gone when it is served.
LEMMA ServedFirst ==
    ASSUME NEW S, NEW q \in Seq(S), q # <<>>, IsInjective(q)
    PROVE  /\ Tail(q) \in Seq(S) /\ IsInjective(Tail(q))
           /\ Head(q) \in ToSet(q) /\ ToSet(Tail(q)) = ToSet(q) \ {Head(q)}
<1>1. /\ Tail(q) \in Seq(S) /\ Len(Tail(q)) = Len(q) - 1 /\ Len(q) \in Nat /\ Len(q) > 0
      /\ \A k \in 1..(Len(q) - 1) : Tail(q)[k] = q[k + 1]
      /\ Head(q) = q[1]
  BY HeadTailProperties, EmptySeq, LenProperties
<1>2. DOMAIN q = 1..Len(q) /\ DOMAIN Tail(q) = 1..(Len(q) - 1)
  BY <1>1, LenProperties
<1>3. IsInjective(Tail(q)) /\ Head(q) \in ToSet(q)
  BY <1>1, <1>2 DEF IsInjective, ToSet
<1>4. ASSUME NEW u \in ToSet(Tail(q)) PROVE u \in ToSet(q) \ {Head(q)}
  <2>1. PICK k \in 1..(Len(q) - 1) : u = q[k + 1]
    BY <1>1, <1>2 DEF ToSet
  <2> QED BY <1>1, <1>2, <2>1 DEF ToSet, IsInjective
<1>5. ASSUME NEW u \in ToSet(q) \ {Head(q)} PROVE u \in ToSet(Tail(q))
  <2>1. PICK k \in 1..Len(q) : u = q[k]
    BY <1>2 DEF ToSet
  <2>2. k - 1 \in 1..(Len(q) - 1) /\ Tail(q)[k - 1] = u
    BY <1>1, <1>5, <2>1
  <2> QED BY <1>2, <2>2 DEF ToSet
<1> QED BY <1>1, <1>3, <1>4, <1>5

\* A call that no longer waits leaves no place behind.
LEMMA LeftQueue ==
    ASSUME NEW S, NEW q \in Seq(S), NEW t, t \in ToSet(q), IsInjective(q)
    PROVE  /\ RemoveFirst(q, t) \in Seq(S) /\ IsInjective(RemoveFirst(q, t))
           /\ ToSet(RemoveFirst(q, t)) = ToSet(q) \ {t}
<1>1. Len(q) \in Nat /\ DOMAIN q = 1..Len(q) /\ \A i \in 1..Len(q) : q[i] \in S
  BY LenProperties, ElementOfSeq
<1>2. PICK n \in 1..Len(q) : q[n] = t
  BY <1>1 DEF ToSet
<1>3. {i \in 1..Len(q) : q[i] = t} = {n}
  BY <1>1, <1>2 DEF IsInjective
<1>4. SelectInSeq(q, LAMBDA v : v = t) = n
  <2>1. Min({n}) = n
    BY <1>2 DEF Min
  <2> QED BY <1>3, <2>1 DEF SelectInSeq
<1> DEFINE before == SubSeq(q, 1, n - 1)
           after  == SubSeq(q, n + 1, Len(q))
           r      == before \o after
<1>5. RemoveFirst(q, t) = r
  BY <1>2, <1>4 DEF RemoveFirst, RemoveAt
<1>6. /\ before \in Seq(S) /\ Len(before) = n - 1
      /\ \A i \in 1..(n - 1) : before[i] = q[i]
  BY <1>1, <1>2, SubSeqProperties
<1>7. /\ after \in Seq(S) /\ Len(after) = Len(q) - n
      /\ \A i \in 1..(Len(q) - n) : after[i] = q[n + i]
  <2>1. n + 1 \in Int /\ Len(q) \in Int /\ \A i \in (n + 1)..Len(q) : q[i] \in S
    BY <1>1, <1>2
  <2>2. /\ after \in Seq(S) /\ Len(after) = IF n + 1 <= Len(q) THEN Len(q) - (n + 1) + 1 ELSE 0
        /\ \A i \in 1..(Len(q) - (n + 1) + 1) : after[i] = q[(n + 1) + i - 1]
    BY <2>1, SubSeqProperties
  <2> HIDE DEF after
  <2>3. ASSUME NEW i \in 1..(Len(q) - n) PROVE after[i] = q[n + i]
    <3>1. i \in 1..(Len(q) - (n + 1) + 1) /\ (n + 1) + i - 1 = n + i
      BY <1>1, <1>2
    <3> QED BY <2>2, <3>1
  <2>4. Len(after) = Len(q) - n
    <3> DEFINE l == Len(q)
    <3>1. l \in Int /\ n \in Int /\ n <= l
      BY <1>1, <1>2
    <3> HIDE DEF l
    <3>2. ~(n + 1 <= l) => n = l
      BY <3>1
    <3>3. CASE n + 1 <= Len(q)
      <4>1. Len(after) = Len(q) - (n + 1) + 1
        BY <2>2, <3>3
      <4> QED BY <1>1, <4>1
    <3>4. CASE ~(n + 1 <= Len(q))
      <4>1. Len(after) = 0
        BY <2>2, <3>4
      <4>2. n = Len(q)
        BY <3>2, <3>4 DEF l
      <4> QED BY <1>1, <4>1, <4>2
    <3> QED BY <3>3, <3>4
  <2> QED BY <2>2, <2>3, <2>4
<1> HIDE DEF before, after
<1>8. /\ r \in Seq(S) /\ Len(r) = Len(q) - 1 /\ DOMAIN r = 1..(Len(q) - 1)
      /\ \A i \in 1..(Len(q) - 1) : r[i] = IF i < n THEN q[i] ELSE q[i + 1]
  <2>1. /\ r \in Seq(S) /\ Len(r) = Len(before) + Len(after)
        /\ \A i \in 1..(Len(before) + Len(after)) :
               r[i] = IF i <= Len(before) THEN before[i] ELSE after[i - Len(before)]
    BY <1>6, <1>7, ConcatProperties
  <2>2. DOMAIN r = 1..Len(r)
    BY <2>1, LenProperties
  <2> HIDE DEF r
  <2>3. ASSUME NEW i \in 1..(Len(q) - 1) PROVE r[i] = IF i < n THEN q[i] ELSE q[i + 1]
    <3>1. CASE i < n
      BY <1>1, <1>2, <1>6, <1>7, <2>1, <3>1
    <3>2. CASE ~(i < n)
      <4>1. PICK k \in 1..(Len(q) - n) : k = i - (n - 1) /\ n + k = i + 1
        BY <1>1, <1>2, <3>2
      <4>2. after[k] = q[i + 1]
        BY <1>7, <4>1
      <4>3. i \in 1..(Len(before) + Len(after)) /\ ~(i <= Len(before)) /\ i - Len(before) = k
        BY <1>1, <1>2, <1>6, <1>7, <3>2, <4>1
      <4>4. r[i] = after[k]
        BY <2>1, <4>3
      <4> QED BY <3>2, <4>2, <4>4
    <3> QED BY <3>1, <3>2
  <2> QED BY <1>1, <1>2, <1>6, <1>7, <2>1, <2>2, <2>3
<1> HIDE DEF r
<1>9. IsInjective(r)
  BY <1>1, <1>2, <1>8 DEF IsInjective
<1>10. ASSUME NEW u \in ToSet(r) PROVE u \in ToSet(q) \ {t}
  <2>1. PICK k \in 1..(Len(q) - 1) : u = r[k]
    BY <1>8 DEF ToSet
  <2>2. PICK m \in 1..Len(q) : m # n /\ u = q[m]
    BY <1>1, <1>2, <1>8, <2>1
  <2> QED BY <1>1, <1>2, <2>2 DEF ToSet, IsInjective
<1>11. ASSUME NEW u \in ToSet(q) \ {t} PROVE u \in ToSet(r)
  <2>1. PICK m \in 1..Len(q) : u = q[m] /\ m # n
    BY <1>1, <1>2, <1>11 DEF ToSet
  <2>2. CASE m < n
    <3>1. m \in 1..(Len(q) - 1) /\ r[m] = u
      BY <1>1, <1>2, <1>8, <2>1, <2>2
    <3> QED BY <1>8, <3>1 DEF ToSet
  <2>3. CASE m > n
    <3>1. m - 1 \in 1..(Len(q) - 1) /\ r[m - 1] = u
      BY <1>1, <1>2, <1>8, <2>1, <2>3
    <3> QED BY <1>8, <3>1 DEF ToSet
  <2> QED BY <1>1, <1>2, <2>1, <2>2, <2>3
<1> QED BY <1>5, <1>8, <1>9, <1>10, <1>11
-----------------------------------------------------------------------------
(* What a step does to the phases of the calls *)

\* No call but t moves.
Only(t) == \A u \in Calls : u # t => pc'[u] = pc[u]

LEMMA Moved ==
    ASSUME Phases, NEW t \in Calls, NEW to, Goto(t, to) PROVE Only(t) /\ pc'[t] = to
BY DEF Phases, Goto, Only

\* A call moves within the phases of its kind.
LEMMA MovedPhases ==
    ASSUME Phases, NEW t \in Calls, NEW to, Goto(t, to),
           t \in Deliveries => to \in DeliveryPhases,
           t \in Backgrounds => to \in BackgroundPhases,
           t \in Previews => to \in PreviewPhases
    PROVE  Phases'
<1>1. to \in DeliveryPhases \cup BackgroundPhases \cup PreviewPhases
  BY Disjoint
<1>2. pc' \in [Calls -> DeliveryPhases \cup BackgroundPhases \cup PreviewPhases]
  BY <1>1 DEF Phases, Goto
<1>3. Only(t) /\ pc'[t] = to
  BY Moved
<1> QED BY <1>2, <1>3, Disjoint DEF Phases, Only

LEMMA DeliveryMoves ==
    ASSUME Phases, NEW t \in Deliveries, Deliver(t) \/ DeliveryStep(t) \/ Disconnect(t)
    PROVE  /\ Phases' /\ Only(t)
           /\ Deliver(t) => pc[t] = "idle" /\ pc'[t] = "entered"
           /\ Look(t) => pc[t] = "entered" /\ pc'[t] \in {"released", "looked"}
           /\ Ask(t) => pc[t] = "looked" /\ pc'[t] \in {"permitted", "queued"}
           /\ Granted(t) => pc[t] = "queued" /\ pc'[t] = "permitted"
           /\ Render(t) => pc[t] = "permitted" /\ pc'[t] \in {"released", "rendering"}
           /\ Disconnect(t) => pc[t] = "queued" /\ pc'[t] = "released"
           /\ RenderEnds(t) => pc[t] = "rendering" /\ pc'[t] = "released"
           /\ Unguard(t) => pc[t] = "released" /\ pc'[t] \in {"idle", "done"}
<1>1. t \in Calls /\ t \notin Backgrounds /\ t \notin Previews
  BY Disjoint
<1>2. ASSUME NEW to \in DeliveryPhases, Goto(t, to) PROVE Phases' /\ Only(t) /\ pc'[t] = to
  BY <1>1, <1>2, Moved, MovedPhases
<1>3. {"idle", "entered", "looked", "queued", "permitted", "rendering", "released", "done"}
         \subseteq DeliveryPhases
  BY DEF DeliveryPhases
<1>4. \E to \in DeliveryPhases : Goto(t, to)
  BY <1>3 DEF Deliver, DeliveryStep, Look, Ask, Granted, Render, Disconnect, RenderEnds, Unguard,
              AcquireWorker, Over
<1>5. Phases' /\ Only(t)
  BY <1>2, <1>4
<1>6. \A to : Goto(t, to) => pc'[t] = to
  BY <1>1, Moved
<1> QED BY <1>5, <1>6 DEF Deliver, DeliveryStep, Look, Ask, Granted, Render, Disconnect,
             RenderEnds, Unguard, AcquireWorker, Over

LEMMA BackgroundMoves ==
    ASSUME Phases, NEW t \in Backgrounds, BackgroundStep(t) \/ DropPass(t)
    PROVE  /\ Phases' /\ Only(t)
           /\ TakeTurn(t) => pc[t] \in {"idle", "turnQueued"} /\ pc'[t] \in {"turn", "turnQueued"}
           /\ Listen(t) => pc[t] = "turn" /\ pc'[t] = "listening"
           /\ LookClosed(t) => pc[t] = "listening" /\ pc'[t] \in {"idle", "done", "open"}
           /\ LookIdle(t) => pc[t] = "open" /\ pc'[t] \in {"quiet", "waiting"}
           /\ TryAcquire(t) => pc[t] = "quiet" /\ pc'[t] \in {"rendering", "waiting"}
           /\ Again(t) => pc[t] = "waiting" /\ pc'[t] = "turn"
           /\ DropPass(t) => pc[t] \in {"turnQueued", "waiting"} /\ pc'[t] \in {"idle", "done"}
           /\ RenderEnds(t) => pc[t] = "rendering" /\ pc'[t] = "released"
           /\ Unguard(t) => pc[t] = "released" /\ pc'[t] \in {"idle", "done"}
<1>1. t \in Calls /\ t \notin Deliveries /\ t \notin Previews
  BY Disjoint
<1>2. ASSUME NEW to \in BackgroundPhases, Goto(t, to) PROVE Phases' /\ Only(t) /\ pc'[t] = to
  BY <1>1, <1>2, Moved, MovedPhases
<1>3. {"idle", "turnQueued", "turn", "listening", "open", "quiet", "waiting", "rendering", "released",
       "done"} \subseteq BackgroundPhases
  BY DEF BackgroundPhases, TurnPhases
<1>4. \E to \in BackgroundPhases : Goto(t, to)
  BY <1>3 DEF BackgroundStep, TakeTurn, Listen, LookClosed, LookIdle, TryAcquire, Again, DropPass,
              RenderEnds, Unguard, Over
<1>5. Phases' /\ Only(t)
  BY <1>2, <1>4
<1>6. \A to : Goto(t, to) => pc'[t] = to
  BY <1>1, Moved
<1> QED BY <1>5, <1>6 DEF BackgroundStep, TakeTurn, Listen, LookClosed, LookIdle, TryAcquire, Again,
             DropPass, RenderEnds, Unguard, Over

LEMMA PreviewMoves ==
    ASSUME Phases, NEW j \in Previews, Number(j) \/ PreviewStep(j) \/ GiveUp(j)
    PROVE  /\ Phases' /\ Only(j)
           /\ Number(j) => pc[j] = "idle" /\ pc'[j] \in {"idle", "done", "numbered"}
           /\ Announce(j) => pc[j] = "numbered" /\ pc'[j] = "announced"
           /\ Hear(j) => pc[j] = "announced" /\ pc'[j] = "begun"
           /\ Queue(j) => pc[j] = "begun" /\ pc'[j] \in {"released", "gated", "gateQueued"}
           /\ Gated(j) => pc[j] = "gateQueued" /\ pc'[j] = "gated"
           /\ AskPreview(j) => \/ pc[j] = "gated" /\ pc'[j] \in {"chosen", "workerQueued"}
                               \/ pc[j] = "workerQueued" /\ pc'[j] = "chosen"
           /\ Start(j) => pc[j] = "chosen" /\ pc'[j] \in {"released", "rendering"}
           /\ PreviewEnds(j) => pc[j] = "rendering" /\ pc'[j] = "released"
           /\ GiveUp(j) => \/ pc[j] = "rendering" /\ pc'[j] = "rendering"
                           \/ pc[j] = "begun" /\ pc'[j] \in {"idle", "done"}
                           \/ pc[j] \in {"gateQueued", "workerQueued"} /\ pc'[j] = "released"
           /\ Unguard(j) => pc[j] = "released" /\ pc'[j] \in {"idle", "done"}
<1>1. j \in Calls /\ j \notin Deliveries /\ j \notin Backgrounds
  BY Disjoint
<1>2. ASSUME NEW to \in PreviewPhases, Goto(j, to) PROVE Phases' /\ Only(j) /\ pc'[j] = to
  BY <1>1, <1>2, Moved, MovedPhases
<1>3. {"idle", "numbered", "announced", "begun", "gateQueued", "gated", "workerQueued", "chosen",
       "rendering", "released", "done"} \subseteq PreviewPhases
  BY DEF PreviewPhases, GatePhases
<1>4. (\E to \in PreviewPhases : Goto(j, to)) \/ (pc' = pc /\ GiveUp(j) /\ pc[j] = "rendering")
  BY <1>3 DEF PreviewStep, Number, Announce, Hear, Queue, Gated, AskPreview, AcquireWorker, Start,
              PreviewEnds, GiveUp, Unguard, Over
<1>5. Phases' /\ Only(j)
  BY <1>2, <1>4 DEF Only, Phases
<1>6. \A to : Goto(j, to) => pc'[j] = to
  BY <1>1, Moved
<1> QED BY <1>5, <1>6 DEF PreviewStep, Number, Announce, Hear, Queue, Gated, AskPreview,
             AcquireWorker, Start, PreviewEnds, GiveUp, Unguard, Over

\* The stop, and nothing, move no call.
LEMMA StopMoves ==
    ASSUME Close \/ StopStep \/ UNCHANGED vars PROVE pc' = pc
BY DEF Close, StopStep, NotifyClosed, Drained, vars
-----------------------------------------------------------------------------
(* Permits and guards *)

HasPermit(t) == pc[t] \in {"permitted", "chosen", "rendering"}

\* Whoever takes a permit was without one, and whoever returns one had it.
LEMMA PermitsMove ==
    ASSUME Permits, free \in Nat, NEW t \in Calls, Only(t),
           \/ (HasPermit(t) <=> HasPermit(t)') /\ free' = free
           \/ ~HasPermit(t) /\ HasPermit(t)' /\ free > 0 /\ free' = free - 1
           \/ HasPermit(t) /\ ~HasPermit(t)' /\ free' = free + 1
    PROVE  Permits' /\ free' \in Nat
<1>1. IsFiniteSet(Permitted) /\ Cardinality(Permitted) \in Nat
  BY FS_CardinalityType DEF Permits
<1>2. CASE (HasPermit(t) <=> HasPermit(t)') /\ free' = free
  <2>1. Permitted' = Permitted
    BY <1>2 DEF Permitted, HasPermit, Only
  <2> QED BY <1>2, <2>1 DEF Permits
<1>3. CASE ~HasPermit(t) /\ HasPermit(t)' /\ free > 0 /\ free' = free - 1
  <2>1. Permitted' = Permitted \cup {t} /\ t \notin Permitted
    BY <1>3 DEF Permitted, HasPermit, Only
  <2>2. IsFiniteSet(Permitted') /\ Cardinality(Permitted') = Cardinality(Permitted) + 1
    BY <1>1, <2>1, FS_AddElement
  <2> QED BY <1>1, <1>3, <2>2, Disjoint DEF Permits
<1>4. CASE HasPermit(t) /\ ~HasPermit(t)' /\ free' = free + 1
  <2>1. Permitted' = Permitted \ {t} /\ t \in Permitted
    BY <1>4 DEF Permitted, HasPermit, Only
  <2>2. IsFiniteSet(Permitted') /\ Cardinality(Permitted') = Cardinality(Permitted) - 1
    BY <1>1, <2>1, FS_RemoveElement
  <2> QED BY <1>1, <1>4, <2>2, Disjoint DEF Permits
<1> QED BY <1>2, <1>3, <1>4

\* A foreground call with a guard.
HasGuard(t) ==
    \/ t \in Deliveries /\ pc[t] \notin {"idle", "done"}
    \/ t \in Previews /\ pc[t] \notin {"idle", "numbered", "announced", "begun", "done"}

LEMMA GuardsMove ==
    ASSUME Guards, NEW t \in Calls, Only(t),
           \/ (HasGuard(t) <=> HasGuard(t)') /\ foreground' = foreground
           \/ ~HasGuard(t) /\ HasGuard(t)' /\ foreground' = foreground + 1
           \/ HasGuard(t) /\ ~HasGuard(t)' /\ foreground' = foreground - 1
    PROVE  Guards' /\ foreground' \in Nat
<1>1. IsFiniteSet(Guarded) /\ Cardinality(Guarded) \in Nat
  BY FS_CardinalityType DEF Guards
<1>2. CASE (HasGuard(t) <=> HasGuard(t)') /\ foreground' = foreground
  <2>1. Guarded' = Guarded
    BY <1>2, Disjoint DEF Guarded, HasGuard, Only
  <2> QED BY <1>1, <1>2, <2>1 DEF Guards
<1>3. CASE ~HasGuard(t) /\ HasGuard(t)' /\ foreground' = foreground + 1
  <2>1. Guarded' = Guarded \cup {t} /\ t \notin Guarded
    BY <1>3, Disjoint DEF Guarded, HasGuard, Only
  <2>2. IsFiniteSet(Guarded') /\ Cardinality(Guarded') = Cardinality(Guarded) + 1
    BY <1>1, <2>1, FS_AddElement
  <2> QED BY <1>1, <1>3, <2>2 DEF Guards
<1>4. CASE HasGuard(t) /\ ~HasGuard(t)' /\ foreground' = foreground - 1
  <2>1. Guarded' = Guarded \ {t} /\ t \in Guarded
    BY <1>4, Disjoint DEF Guarded, HasGuard, Only
  <2>2. IsFiniteSet(Guarded') /\ Cardinality(Guarded') = Cardinality(Guarded) - 1
    BY <1>1, <2>1, FS_RemoveElement
  <2>3. Cardinality(Guarded') \in Nat
    BY <2>2, FS_CardinalityType
  <2> QED BY <1>1, <1>4, <2>2, <2>3 DEF Guards
<1> QED BY <1>2, <1>3, <1>4

LEMMA DeliveryCounts ==
    ASSUME IInv, NEW t \in Deliveries, Deliver(t) \/ DeliveryStep(t) \/ Disconnect(t)
    PROVE  Permits' /\ Guards' /\ free' \in Nat /\ foreground' \in Nat
<1>1. t \in Calls /\ t \in Foregrounds /\ t \notin Previews /\ t \notin Backgrounds
      /\ Permits /\ Guards /\ free \in Nat
  BY Disjoint DEF IInv, Values
<1>2. Phases
  BY DEF IInv
<1>3. CASE Deliver(t)
  <2>1. Only(t) /\ pc[t] = "idle" /\ pc'[t] = "entered"
    BY <1>2, <1>3, DeliveryMoves
  <2>2. free' = free /\ foreground' = foreground + 1
    BY <1>3 DEF Deliver, Enter
  <2> QED BY <1>1, <2>1, <2>2, PermitsMove, GuardsMove DEF HasPermit, HasGuard
<1>4. CASE Look(t)
  <2>1. Only(t) /\ pc[t] = "entered" /\ pc'[t] \in {"released", "looked"}
    BY <1>2, <1>4, DeliveryMoves DEF DeliveryStep
  <2>2. free' = free /\ foreground' = foreground
    BY <1>4 DEF Look
  <2> QED BY <1>1, <2>1, <2>2, PermitsMove, GuardsMove DEF HasPermit, HasGuard
<1>5. CASE Ask(t)
  <2>1. Only(t) /\ pc[t] = "looked" /\ pc'[t] \in {"permitted", "queued"}
    BY <1>2, <1>5, DeliveryMoves DEF DeliveryStep
  <2>2. /\ foreground' = foreground
        /\ \/ pc'[t] = "permitted" /\ free > 0 /\ free' = free - 1
           \/ pc'[t] = "queued" /\ free' = free
    BY <1>1, <1>2, <1>5, Moved DEF Ask, AcquireWorker
  <2> QED BY <1>1, <2>1, <2>2, PermitsMove, GuardsMove DEF HasPermit, HasGuard
<1>6. CASE Granted(t)
  <2>1. Only(t) /\ pc[t] = "queued" /\ pc'[t] = "permitted"
    BY <1>2, <1>6, DeliveryMoves DEF DeliveryStep
  <2>2. free > 0 /\ free' = free - 1 /\ foreground' = foreground
    BY <1>6 DEF Granted, GrantedWorker
  <2> QED BY <1>1, <2>1, <2>2, PermitsMove, GuardsMove DEF HasPermit, HasGuard
<1>7. CASE Render(t)
  <2>1. Only(t) /\ pc[t] = "permitted"
    BY <1>2, <1>7, DeliveryMoves DEF DeliveryStep
  <2>2. /\ foreground' = foreground
        /\ \/ pc'[t] = "released" /\ free' = free + 1
           \/ pc'[t] = "rendering" /\ free' = free
    BY <1>1, <1>2, <1>7, Moved DEF Render
  <2> QED BY <1>1, <2>1, <2>2, PermitsMove, GuardsMove DEF HasPermit, HasGuard
<1>8. CASE Disconnect(t)
  <2>1. Only(t) /\ pc[t] = "queued" /\ pc'[t] = "released"
    BY <1>2, <1>8, DeliveryMoves
  <2>2. free' = free /\ foreground' = foreground
    BY <1>8 DEF Disconnect
  <2> QED BY <1>1, <2>1, <2>2, PermitsMove, GuardsMove DEF HasPermit, HasGuard
<1>9. CASE RenderEnds(t)
  <2>1. Only(t) /\ pc[t] = "rendering" /\ pc'[t] = "released"
    BY <1>2, <1>9, DeliveryMoves DEF DeliveryStep
  <2>2. free' = free + 1 /\ foreground' = foreground
    BY <1>9 DEF RenderEnds
  <2> QED BY <1>1, <2>1, <2>2, PermitsMove, GuardsMove DEF HasPermit, HasGuard
<1>10. CASE Unguard(t)
  <2>1. Only(t) /\ pc[t] = "released" /\ pc'[t] \in {"idle", "done"}
    BY <1>2, <1>10, DeliveryMoves DEF DeliveryStep
  <2>2. free' = free /\ foreground' = foreground - 1
    BY <1>1, <1>10 DEF Unguard
  <2> QED BY <1>1, <2>1, <2>2, PermitsMove, GuardsMove DEF HasPermit, HasGuard
<1> QED BY <1>3, <1>4, <1>5, <1>6, <1>7, <1>8, <1>9, <1>10 DEF DeliveryStep

LEMMA BackgroundCounts ==
    ASSUME IInv, NEW t \in Backgrounds, BackgroundStep(t) \/ DropPass(t)
    PROVE  Permits' /\ Guards' /\ free' \in Nat /\ foreground' \in Nat
<1>1. t \in Calls /\ t \notin Foregrounds /\ t \notin Previews /\ t \notin Deliveries
      /\ Permits /\ Guards /\ free \in Nat /\ Phases
  BY Disjoint DEF IInv, Values
<1>2. Only(t)
  BY <1>1, BackgroundMoves
<1>3. foreground' = foreground
  BY <1>1 DEF BackgroundStep, TakeTurn, Listen, LookClosed, LookIdle, TryAcquire, Again, DropPass,
              RenderEnds, Unguard
<1>4. Guards' /\ foreground' \in Nat
  BY <1>1, <1>2, <1>3, GuardsMove DEF HasGuard
<1>5. CASE TryAcquire(t)
  <2>1. \/ pc[t] = "quiet" /\ pc'[t] = "rendering" /\ free > 0 /\ free' = free - 1
        \/ pc[t] = "quiet" /\ pc'[t] = "waiting" /\ free' = free
    BY <1>1, <1>5, Moved DEF TryAcquire
  <2> QED BY <1>1, <1>2, <1>4, <2>1, PermitsMove DEF HasPermit
<1>6. CASE RenderEnds(t)
  <2>1. pc[t] = "rendering" /\ pc'[t] = "released" /\ free' = free + 1
    BY <1>1, <1>6, Moved DEF RenderEnds
  <2> QED BY <1>1, <1>2, <1>4, <2>1, PermitsMove DEF HasPermit
<1>7. CASE TakeTurn(t) \/ Listen(t) \/ LookClosed(t) \/ LookIdle(t) \/ Again(t) \/ DropPass(t) \/ Unguard(t)
  <2>1. free' = free
    BY <1>7 DEF TakeTurn, Listen, LookClosed, LookIdle, Again, DropPass, Unguard
  <2>2. ~HasPermit(t) /\ ~HasPermit(t)'
    BY <1>1, <1>7, BackgroundMoves DEF BackgroundStep, HasPermit
  <2> QED BY <1>1, <1>2, <1>4, <2>1, <2>2, PermitsMove
<1> QED BY <1>5, <1>6, <1>7 DEF BackgroundStep

LEMMA PreviewCounts ==
    ASSUME IInv, NEW j \in Previews, Number(j) \/ PreviewStep(j) \/ GiveUp(j)
    PROVE  Permits' /\ Guards' /\ free' \in Nat /\ foreground' \in Nat
<1>1. j \in Calls /\ j \in Foregrounds /\ j \notin Deliveries /\ j \notin Backgrounds
      /\ Permits /\ Guards /\ free \in Nat /\ foreground \in Nat /\ Phases
  BY Disjoint DEF IInv, Values
<1>2. Only(j)
  BY <1>1, PreviewMoves
<1>3. CASE Number(j) \/ Announce(j) \/ Hear(j)
  <2>1. free' = free /\ foreground' = foreground
    BY <1>3 DEF Number, Announce, Hear
  <2>2. {pc[j], pc'[j]} \subseteq {"idle", "numbered", "announced", "begun", "done"}
    BY <1>1, <1>3, PreviewMoves DEF PreviewStep
  <2> QED BY <1>1, <1>2, <2>1, <2>2, PermitsMove, GuardsMove DEF HasPermit, HasGuard
<1>4. CASE Queue(j)
  <2>1. free' = free /\ foreground' = foreground + 1
    BY <1>4 DEF Queue, Enter
  <2>2. pc[j] = "begun" /\ pc'[j] \in {"released", "gated", "gateQueued"}
    BY <1>1, <1>4, PreviewMoves DEF PreviewStep
  <2> QED BY <1>1, <1>2, <2>1, <2>2, PermitsMove, GuardsMove DEF HasPermit, HasGuard
<1>5. CASE Gated(j)
  <2>1. free' = free /\ foreground' = foreground
    BY <1>5 DEF Gated
  <2>2. pc[j] = "gateQueued" /\ pc'[j] = "gated"
    BY <1>1, <1>5, PreviewMoves DEF PreviewStep
  <2> QED BY <1>1, <1>2, <2>1, <2>2, PermitsMove, GuardsMove DEF HasPermit, HasGuard
<1>6. CASE AskPreview(j)
  <2>1. /\ foreground' = foreground /\ pc[j] \in {"gated", "workerQueued"}
        /\ \/ pc'[j] = "chosen" /\ free > 0 /\ free' = free - 1
           \/ pc'[j] = "workerQueued" /\ free' = free
    BY <1>1, <1>6, Moved DEF AskPreview, AcquireWorker, GrantedWorker
  <2> QED BY <1>1, <1>2, <2>1, PermitsMove, GuardsMove DEF HasPermit, HasGuard
<1>7. CASE Start(j)
  <2>1. /\ foreground' = foreground /\ pc[j] = "chosen"
        /\ \/ pc'[j] = "released" /\ free' = free + 1
           \/ pc'[j] = "rendering" /\ free' = free
    BY <1>1, <1>7, Moved DEF Start
  <2> QED BY <1>1, <1>2, <2>1, PermitsMove, GuardsMove DEF HasPermit, HasGuard
<1>8. CASE PreviewEnds(j)
  <2>1. foreground' = foreground /\ free' = free + 1 /\ pc[j] = "rendering" /\ pc'[j] = "released"
    BY <1>1, <1>8, Moved DEF PreviewEnds
  <2> QED BY <1>1, <1>2, <2>1, PermitsMove, GuardsMove DEF HasPermit, HasGuard
<1>9. CASE GiveUp(j)
  <2>1. free' = free /\ foreground' = foreground
    BY <1>9 DEF GiveUp
  <2>2. \/ pc[j] = "rendering" /\ pc'[j] = "rendering"
        \/ pc[j] = "begun" /\ pc'[j] \in {"idle", "done"}
        \/ pc[j] \in {"gateQueued", "workerQueued"} /\ pc'[j] = "released"
    BY <1>1, <1>9, PreviewMoves
  <2> QED BY <1>1, <1>2, <2>1, <2>2, PermitsMove, GuardsMove DEF HasPermit, HasGuard
<1>10. CASE Unguard(j)
  <2>1. free' = free /\ foreground' = foreground - 1
    BY <1>1, <1>10 DEF Unguard
  <2>2. pc[j] = "released" /\ pc'[j] \in {"idle", "done"}
    BY <1>1, <1>10, PreviewMoves DEF PreviewStep
  <2> QED BY <1>1, <1>2, <2>1, <2>2, PermitsMove, GuardsMove DEF HasPermit, HasGuard
<1> QED BY <1>3, <1>4, <1>5, <1>6, <1>7, <1>8, <1>9, <1>10 DEF PreviewStep
-----------------------------------------------------------------------------
(* The queue of the workers semaphore *)

\* The stop waits for the workers as well.
Draining == IF stopper = "draining" THEN {Stop} ELSE {}

\* Calls join the queue and leave it, and nobody else changes their places.
LEMMA LinesMove ==
    ASSUME Lines, queue \in Seq(Calls \cup {Stop}), NEW t \in Calls, Only(t), stopper' = stopper,
           \/ queue' = queue /\ (t \in Queued <=> t \in Queued')
           \/ queue' = Append(queue, t) /\ t \notin Queued /\ t \in Queued'
           \/ queue # <<>> /\ Head(queue) = t /\ queue' = Tail(queue) /\ t \notin Queued'
           \/ queue' = RemoveFirst(queue, t) /\ t \in Queued /\ t \notin Queued'
    PROVE  Lines' /\ queue' \in Seq(Calls \cup {Stop})
<1>1. IsInjective(queue) /\ ToSet(queue) = Queued \cup Draining /\ t \notin Draining
      /\ Draining' = Draining
  BY Disjoint DEF Lines, Draining
<1>2. CASE queue' = queue /\ (t \in Queued <=> t \in Queued')
  <2>1. Queued' = Queued
    BY <1>2 DEF Queued, Only
  <2> QED BY <1>1, <1>2, <2>1 DEF Lines, Draining
<1>3. CASE queue' = Append(queue, t) /\ t \notin Queued /\ t \in Queued'
  <2>1. Queued' = Queued \cup {t}
    BY <1>3 DEF Queued, Only
  <2>2. /\ queue' \in Seq(Calls \cup {Stop}) /\ IsInjective(queue')
        /\ ToSet(queue') = ToSet(queue) \cup {t}
    BY <1>1, <1>3, Joined
  <2> QED BY <1>1, <2>1, <2>2 DEF Lines, Draining
<1>4. CASE queue # <<>> /\ Head(queue) = t /\ queue' = Tail(queue) /\ t \notin Queued'
  <2>1. Queued' = Queued \ {t}
    BY <1>4 DEF Queued, Only
  <2>2. /\ queue' \in Seq(Calls \cup {Stop}) /\ IsInjective(queue')
        /\ ToSet(queue') = ToSet(queue) \ {t}
    BY <1>1, <1>4, ServedFirst
  <2> QED BY <1>1, <2>1, <2>2 DEF Lines, Draining
<1>5. CASE queue' = RemoveFirst(queue, t) /\ t \in Queued /\ t \notin Queued'
  <2>1. Queued' = Queued \ {t}
    BY <1>5 DEF Queued, Only
  <2>2. /\ queue' \in Seq(Calls \cup {Stop}) /\ IsInjective(queue')
        /\ ToSet(queue') = ToSet(queue) \ {t}
    BY <1>1, <1>5, LeftQueue
  <2> QED BY <1>1, <2>1, <2>2 DEF Lines, Draining
<1> QED BY <1>2, <1>3, <1>4, <1>5

LEMMA DeliveryLines ==
    ASSUME IInv, NEW t \in Deliveries, Deliver(t) \/ DeliveryStep(t) \/ Disconnect(t)
    PROVE  Lines' /\ queue' \in Seq(Calls \cup {Stop})
<1>1. t \in Calls /\ Lines /\ queue \in Seq(Calls \cup {Stop}) /\ Phases
  BY Disjoint DEF IInv, Values
<1>2. Only(t) /\ stopper' = stopper
  BY <1>1, DeliveryMoves DEF Deliver, DeliveryStep, Look, Ask, Granted, Render, Disconnect, RenderEnds, Unguard
<1>3. CASE Deliver(t) \/ Look(t) \/ Render(t) \/ RenderEnds(t) \/ Unguard(t)
  <2>1. queue' = queue
    BY <1>3 DEF Deliver, Look, Render, RenderEnds, Unguard
  <2>2. t \notin Queued /\ t \notin Queued'
    BY <1>1, <1>3, DeliveryMoves DEF DeliveryStep, Queued
  <2> QED BY <1>1, <1>2, <2>1, <2>2, LinesMove
<1>4. CASE Ask(t)
  <2>1. \/ pc[t] = "looked" /\ pc'[t] = "permitted" /\ queue' = queue
        \/ pc[t] = "looked" /\ pc'[t] = "queued" /\ queue' = Append(queue, t)
    BY <1>1, <1>4, Moved DEF Ask, AcquireWorker
  <2> QED BY <1>1, <1>2, <2>1, LinesMove DEF Queued
<1>5. CASE Granted(t)
  <2>1. pc'[t] = "permitted" /\ queue # <<>> /\ Head(queue) = t /\ queue' = Tail(queue)
    BY <1>1, <1>5, Moved DEF Granted, GrantedWorker
  <2> QED BY <1>1, <1>2, <2>1, LinesMove DEF Queued
<1>6. CASE Disconnect(t)
  <2>1. pc[t] = "queued" /\ pc'[t] = "released" /\ queue' = RemoveFirst(queue, t)
    BY <1>1, <1>6, Moved DEF Disconnect
  <2> QED BY <1>1, <1>2, <2>1, LinesMove DEF Queued
<1> QED BY <1>3, <1>4, <1>5, <1>6 DEF DeliveryStep

LEMMA BackgroundLines ==
    ASSUME IInv, NEW t \in Backgrounds, BackgroundStep(t) \/ DropPass(t)
    PROVE  Lines' /\ queue' \in Seq(Calls \cup {Stop})
<1>1. t \in Calls /\ Lines /\ queue \in Seq(Calls \cup {Stop}) /\ Phases
  BY Disjoint DEF IInv, Values
<1>2. Only(t) /\ stopper' = stopper /\ queue' = queue /\ Phases'
  BY <1>1, BackgroundMoves DEF BackgroundStep, TakeTurn, Listen, LookClosed, LookIdle, TryAcquire, Again,
     DropPass, RenderEnds, Unguard
<1>3. t \notin Queued /\ t \notin Queued'
  BY <1>1, <1>2 DEF Phases, BackgroundPhases, TurnPhases, Queued
<1> QED BY <1>1, <1>2, <1>3, LinesMove

LEMMA PreviewLines ==
    ASSUME IInv, NEW j \in Previews, Number(j) \/ PreviewStep(j) \/ GiveUp(j)
    PROVE  Lines' /\ queue' \in Seq(Calls \cup {Stop})
<1>1. j \in Calls /\ Lines /\ queue \in Seq(Calls \cup {Stop}) /\ Phases
  BY Disjoint DEF IInv, Values
<1>2. Only(j) /\ stopper' = stopper
  BY <1>1, PreviewMoves DEF Number, PreviewStep, GiveUp, Announce, Hear, Queue, Gated, AskPreview,
     Start, PreviewEnds, Unguard
<1>3. CASE \/ Number(j) \/ Announce(j) \/ Hear(j) \/ Queue(j) \/ Gated(j) \/ Start(j)
           \/ PreviewEnds(j) \/ Unguard(j)
  <2>1. queue' = queue
    BY <1>3 DEF Number, Announce, Hear, Queue, Gated, Start, PreviewEnds, Unguard
  <2>2. j \notin Queued /\ j \notin Queued'
    BY <1>1, <1>3, PreviewMoves DEF PreviewStep, Queued
  <2> QED BY <1>1, <1>2, <2>1, <2>2, LinesMove
<1>4. CASE AskPreview(j)
  <2>1. \/ pc[j] = "gated" /\ pc'[j] = "chosen" /\ queue' = queue
        \/ pc[j] = "gated" /\ pc'[j] = "workerQueued" /\ queue' = Append(queue, j)
        \/ pc'[j] = "chosen" /\ queue # <<>> /\ Head(queue) = j /\ queue' = Tail(queue)
    BY <1>1, <1>4, Moved DEF AskPreview, AcquireWorker, GrantedWorker
  <2> QED BY <1>1, <1>2, <2>1, LinesMove DEF Queued
<1>5. CASE GiveUp(j)
  <2>1. \/ pc[j] = "rendering" /\ pc'[j] = "rendering" /\ queue' = queue
        \/ pc[j] = "begun" /\ pc'[j] \in {"idle", "done"} /\ queue' = queue
        \/ pc[j] = "gateQueued" /\ pc'[j] = "released" /\ queue' = queue
        \/ pc[j] = "workerQueued" /\ pc'[j] = "released" /\ queue' = RemoveFirst(queue, j)
    BY <1>1, <1>5, Moved DEF GiveUp, Over
  <2> QED BY <1>1, <1>2, <2>1, LinesMove DEF Queued
<1> QED BY <1>3, <1>4, <1>5 DEF PreviewStep

\* The stop joins the queue and leaves it as the last to be served.
LEMMA StopLines ==
    ASSUME IInv, Close \/ StopStep \/ UNCHANGED vars
    PROVE  Lines' /\ queue' \in Seq(Calls \cup {Stop})
<1>1. /\ IsInjective(queue) /\ queue \in Seq(Calls \cup {Stop})
      /\ ToSet(queue) = Queued \cup Draining
  BY DEF IInv, Values, Lines, Draining
<1>2. Queued' = Queued /\ Stop \notin Queued
  BY StopMoves, Disjoint DEF Queued
<1>3. CASE Close \/ UNCHANGED vars
  <2>1. queue' = queue /\ Draining' = Draining
    BY <1>3 DEF Close, vars, Draining
  <2> QED BY <1>1, <1>2, <2>1 DEF Lines, Draining
<1>4. CASE NotifyClosed
  <2>1. queue' = Append(queue, Stop) /\ Draining = {} /\ Draining' = {Stop}
    BY <1>4 DEF NotifyClosed, Draining
  <2>2. /\ queue' \in Seq(Calls \cup {Stop}) /\ IsInjective(queue')
        /\ ToSet(queue') = ToSet(queue) \cup {Stop}
    BY <1>1, <1>2, <2>1, Joined
  <2> QED BY <1>1, <1>2, <2>1, <2>2 DEF Lines, Draining
<1>5. CASE Drained
  <2>1. Head(queue) = Stop /\ queue' = Tail(queue) /\ Draining = {Stop} /\ Draining' = {}
    BY <1>5 DEF Drained, Draining
  <2>2. queue # <<>>
    <3>1. PICK k \in DOMAIN queue : queue[k] = Stop
      BY <1>1, <2>1 DEF ToSet
    <3> QED BY <1>1, <3>1, EmptySeq, LenProperties
  <2>3. /\ queue' \in Seq(Calls \cup {Stop}) /\ IsInjective(queue')
        /\ ToSet(queue') = ToSet(queue) \ {Stop}
    BY <1>1, <2>1, <2>2, ServedFirst
  <2> QED BY <1>1, <1>2, <2>1, <2>3 DEF Lines, Draining
<1> QED BY <1>3, <1>4, <1>5 DEF StopStep
-----------------------------------------------------------------------------
(* The turn of background renders *)

\* A step of another call, or of none, leaves the turn alone.
LEMMA TurnsKept ==
    ASSUME IInv, UNCHANGED <<turn, turnQueue>>,
           \A t \in Backgrounds : pc'[t] = pc[t],
           \A t \in Calls : pc[t] = "turnQueued" <=> pc'[t] = "turnQueued"
    PROVE  Turns' /\ TurnLine' /\ turnQueue' \in Seq(Backgrounds)
<1>1. Turns /\ TurnLine /\ turnQueue \in Seq(Backgrounds)
  BY DEF IInv, Values
<1>2. Turns'
  BY <1>1 DEF Turns
<1>3. {t \in Calls : pc[t] = "turnQueued"}' = {t \in Calls : pc[t] = "turnQueued"}
  OBVIOUS
<1> QED BY <1>1, <1>2, <1>3 DEF TurnLine

\* The turn goes to one render at a time.
LEMMA BackgroundTurns ==
    ASSUME IInv, NEW t \in Backgrounds, BackgroundStep(t) \/ DropPass(t)
    PROVE  Turns' /\ TurnLine' /\ turnQueue' \in Seq(Backgrounds)
<1> DEFINE waits == {u \in Calls : pc[u] = "turnQueued"}
<1>1. /\ t \in Calls /\ Phases /\ turnQueue \in Seq(Backgrounds) /\ t # Free
      /\ IsInjective(turnQueue) /\ ToSet(turnQueue) = waits
      /\ \A u \in Backgrounds : u \in Calls /\ (turn = u <=> pc[u] \in TurnPhases)
  BY Disjoint DEF IInv, Values, Turns, TurnLine
<1>2. Only(t)
  BY <1>1, BackgroundMoves
<1>3. TurnPhases = {"turn", "listening", "open", "quiet", "waiting"}
  BY DEF TurnPhases
<1>4. ASSUME \/ turn' = turn /\ (pc[t] \in TurnPhases <=> pc'[t] \in TurnPhases)
             \/ turn = Free /\ turn' = t /\ pc'[t] \in TurnPhases
             \/ turn' = Free /\ pc[t] \in TurnPhases /\ pc'[t] \notin TurnPhases
      PROVE  Turns'
  <2>1. ASSUME NEW u \in Backgrounds, u # t PROVE u # Free /\ (turn' = u <=> pc'[u] \in TurnPhases)
    BY <1>1, <1>2, <1>4, <2>1, Disjoint DEF Only
  <2>2. turn' = t <=> pc'[t] \in TurnPhases
    BY <1>1, <1>4
  <2> QED BY <2>1, <2>2 DEF Turns
<1>5. ASSUME \/ turnQueue' = turnQueue /\ (pc[t] = "turnQueued" <=> pc'[t] = "turnQueued")
             \/ turnQueue' = Append(turnQueue, t) /\ pc[t] # "turnQueued" /\ pc'[t] = "turnQueued"
             \/ turnQueue # <<>> /\ Head(turnQueue) = t /\ turnQueue' = Tail(turnQueue)
                /\ pc'[t] # "turnQueued"
             \/ turnQueue' = RemoveFirst(turnQueue, t) /\ pc[t] = "turnQueued" /\ pc'[t] # "turnQueued"
      PROVE  TurnLine' /\ turnQueue' \in Seq(Backgrounds)
  <2>1. CASE turnQueue' = turnQueue /\ (pc[t] = "turnQueued" <=> pc'[t] = "turnQueued")
    <3>1. waits' = waits
      BY <1>2, <2>1 DEF Only
    <3> QED BY <1>1, <2>1, <3>1 DEF TurnLine
  <2>2. CASE turnQueue' = Append(turnQueue, t) /\ pc[t] # "turnQueued" /\ pc'[t] = "turnQueued"
    <3>1. waits' = waits \cup {t} /\ t \notin waits
      BY <1>1, <1>2, <2>2 DEF Only
    <3>2. /\ turnQueue' \in Seq(Backgrounds) /\ IsInjective(turnQueue')
          /\ ToSet(turnQueue') = ToSet(turnQueue) \cup {t}
      BY <1>1, <2>2, <3>1, Joined
    <3> QED BY <1>1, <3>1, <3>2 DEF TurnLine
  <2>3. CASE turnQueue # <<>> /\ Head(turnQueue) = t /\ turnQueue' = Tail(turnQueue)
             /\ pc'[t] # "turnQueued"
    <3>1. waits' = waits \ {t}
      BY <1>2, <2>3 DEF Only
    <3>2. /\ turnQueue' \in Seq(Backgrounds) /\ IsInjective(turnQueue')
          /\ ToSet(turnQueue') = ToSet(turnQueue) \ {t}
      BY <1>1, <2>3, ServedFirst
    <3> QED BY <1>1, <3>1, <3>2 DEF TurnLine
  <2>4. CASE turnQueue' = RemoveFirst(turnQueue, t) /\ pc[t] = "turnQueued" /\ pc'[t] # "turnQueued"
    <3>1. waits' = waits \ {t} /\ t \in waits
      BY <1>1, <1>2, <2>4 DEF Only
    <3>2. /\ turnQueue' \in Seq(Backgrounds) /\ IsInjective(turnQueue')
          /\ ToSet(turnQueue') = ToSet(turnQueue) \ {t}
      BY <1>1, <2>4, <3>1, LeftQueue
    <3> QED BY <1>1, <3>1, <3>2 DEF TurnLine
  <2> QED BY <1>5, <2>1, <2>2, <2>3, <2>4
<1>6. CASE TakeTurn(t)
  <2>1. \/ /\ pc[t] = "idle" /\ turn = Free /\ turn' = t /\ turnQueue' = turnQueue /\ pc'[t] = "turn"
        \/ /\ pc[t] = "idle" /\ turn' = turn /\ turnQueue' = Append(turnQueue, t)
           /\ pc'[t] = "turnQueued"
        \/ /\ pc[t] = "turnQueued" /\ turn = Free /\ Head(turnQueue) = t
           /\ turn' = t /\ turnQueue' = Tail(turnQueue) /\ pc'[t] = "turn"
    BY <1>1, <1>6, Moved DEF TakeTurn
  <2>2. pc[t] = "turnQueued" => turnQueue # <<>>
    BY <1>1 DEF ToSet
  <2> QED BY <1>3, <1>4, <1>5, <2>1, <2>2
<1>7. CASE Listen(t) \/ LookIdle(t) \/ Again(t) \/ RenderEnds(t) \/ Unguard(t)
  <2>1. turn' = turn /\ turnQueue' = turnQueue
    BY <1>7 DEF Listen, LookIdle, Again, RenderEnds, Unguard
  <2>2. \/ {pc[t], pc'[t]} \subseteq TurnPhases
        \/ {pc[t], pc'[t]} \subseteq {"rendering", "released", "idle", "done"}
    BY <1>1, <1>3, <1>7, BackgroundMoves DEF BackgroundStep
  <2>3. pc[t] # "turnQueued" /\ pc'[t] # "turnQueued"
        /\ (pc[t] \in TurnPhases <=> pc'[t] \in TurnPhases)
    BY <1>3, <2>2
  <2> QED BY <1>4, <1>5, <2>1, <2>3
<1>8. CASE LookClosed(t) \/ TryAcquire(t) \/ DropPass(t)
  <2>1. \/ /\ turn' = turn /\ turnQueue' = turnQueue /\ pc[t] \in TurnPhases /\ pc'[t] \in TurnPhases
        \/ /\ turn' = Free /\ turnQueue' = turnQueue /\ pc[t] \in TurnPhases
           /\ pc'[t] \in {"idle", "done", "rendering"}
        \/ /\ turn' = turn /\ turnQueue' = RemoveFirst(turnQueue, t) /\ pc[t] = "turnQueued"
           /\ pc'[t] \in {"idle", "done"}
    BY <1>1, <1>3, <1>8, Moved DEF LookClosed, TryAcquire, DropPass, Over
  <2> QED BY <1>3, <1>4, <1>5, <2>1
<1> QED BY <1>6, <1>7, <1>8 DEF BackgroundStep
-----------------------------------------------------------------------------
(* Pages: their gates, the calls that wait for them and the numbers of edits *)

PageTypes ==
    /\ next \in [Pages -> Nat] /\ sequence \in [Previews -> Nat]
    /\ hearing \subseteq Previews /\ told \subseteq Previews
    /\ outcome \in [Previews -> {"none", "rendered", "failed", "stale", "capacity"}]

GateTypes == gate \in [Pages -> Previews \cup {Free}] /\ gateQueue \in [Pages -> Seq(Previews)]

\* Steps that are not of a preview leave the pages alone.
LEMMA PagesKept ==
    ASSUME IInv, UNCHANGED <<page, outcome>>, \A j \in Previews : pc'[j] = pc[j]
    PROVE  /\ PageTypes' /\ GateTypes' /\ Gates' /\ GateLines'
           /\ Unanswered' /\ Numbers'
<1>1. PageTypes /\ GateTypes /\ Gates /\ GateLines /\ Unanswered /\ Numbers
  BY DEF IInv, Values, PageTypes, GateTypes
<1>2. /\ next' = next /\ gate' = gate /\ gateQueue' = gateQueue /\ sequence' = sequence
      /\ hearing' = hearing /\ told' = told /\ outcome' = outcome
  BY DEF page
<1>3. \A p : Holding(p)' = Holding(p)
  BY <1>2 DEF Holding
<1>4. \A p : {j \in Previews : PageOf[j] = p /\ pc[j] = "gateQueued"}'
             = {j \in Previews : PageOf[j] = p /\ pc[j] = "gateQueued"}
  OBVIOUS
<1>5. Gates'
  BY <1>1, <1>2 DEF Gates
<1>6. GateLines'
  BY <1>1, <1>2, <1>4 DEF GateLines
<1>7. Unanswered'
  BY <1>1, <1>2 DEF Unanswered
<1>8. Numbers'
  BY <1>1, <1>2, <1>3 DEF Numbers
<1> QED BY <1>1, <1>2, <1>5, <1>6, <1>7, <1>8 DEF PageTypes, GateTypes

\* A gate is taken when it is free, by whoever it is then with, and freed by that one.
LEMMA GatesMove ==
    ASSUME IInv, NEW j \in Previews, Only(j),
           \/ gate' = gate /\ (pc[j] \in GatePhases <=> pc'[j] \in GatePhases)
           \/ /\ gate[PageOf[j]] = Free /\ gate' = [gate EXCEPT ![PageOf[j]] = j]
              /\ pc'[j] \in GatePhases
           \/ /\ pc[j] \in GatePhases /\ gate' = [gate EXCEPT ![PageOf[j]] = Free]
              /\ pc'[j] \notin GatePhases
    PROVE  Gates' /\ gate' \in [Pages -> Previews \cup {Free}]
<1>1. /\ gate \in [Pages -> Previews \cup {Free}] /\ j \in Calls /\ PageOf[j] \in Pages
      /\ \A i \in Previews : gate[PageOf[i]] = i <=> pc[i] \in GatePhases
      /\ \A p \in Pages : gate[p] # Free => PageOf[gate[p]] = p
      /\ \A i \in Previews : i \in Calls /\ i # Free /\ PageOf[i] \in Pages
  BY Disjoint DEF IInv, Values, Gates
<1>2. \A i \in Previews : i # j => pc'[i] = pc[i]
  BY <1>1 DEF Only
<1>3. CASE gate' = gate /\ (pc[j] \in GatePhases <=> pc'[j] \in GatePhases)
  BY <1>1, <1>2, <1>3 DEF Gates
<1>4. CASE /\ gate[PageOf[j]] = Free /\ gate' = [gate EXCEPT ![PageOf[j]] = j]
           /\ pc'[j] \in GatePhases
  <2>1. \A i \in Previews : gate'[PageOf[i]] = i <=> pc'[i] \in GatePhases
    BY <1>1, <1>2, <1>4
  <2>2. \A p \in Pages : gate'[p] # Free => PageOf[gate'[p]] = p
    BY <1>1, <1>4
  <2> QED BY <1>1, <1>4, <2>1, <2>2 DEF Gates
<1>5. CASE /\ pc[j] \in GatePhases /\ gate' = [gate EXCEPT ![PageOf[j]] = Free]
           /\ pc'[j] \notin GatePhases
  <2>1. \A i \in Previews : gate'[PageOf[i]] = i <=> pc'[i] \in GatePhases
    BY <1>1, <1>2, <1>5
  <2>2. \A p \in Pages : gate'[p] # Free => PageOf[gate'[p]] = p
    BY <1>1, <1>5
  <2> QED BY <1>1, <1>5, <2>1, <2>2 DEF Gates
<1> QED BY <1>3, <1>4, <1>5

\* Previews join the queue of their page and leave it.
LEMMA GateLinesMove ==
    ASSUME IInv, NEW j \in Previews, NEW p, p = PageOf[j], Only(j),
           \/ gateQueue' = gateQueue /\ (pc[j] = "gateQueued" <=> pc'[j] = "gateQueued")
           \/ /\ gateQueue' = [gateQueue EXCEPT ![p] = Append(gateQueue[p], j)]
              /\ pc[j] # "gateQueued" /\ pc'[j] = "gateQueued"
           \/ /\ gateQueue[p] # <<>> /\ Head(gateQueue[p]) = j
              /\ gateQueue' = [gateQueue EXCEPT ![p] = Tail(gateQueue[p])]
              /\ pc'[j] # "gateQueued"
           \/ /\ gateQueue' = [gateQueue EXCEPT ![p] = RemoveFirst(gateQueue[p], j)]
              /\ pc[j] = "gateQueued" /\ pc'[j] # "gateQueued"
    PROVE  GateLines' /\ gateQueue' \in [Pages -> Seq(Previews)]
<1> DEFINE line(x) == {i \in Previews : PageOf[i] = x /\ pc[i] = "gateQueued"}
<1>1. /\ gateQueue \in [Pages -> Seq(Previews)] /\ j \in Calls /\ p \in Pages
      /\ \A i \in Previews : i \in Calls
      /\ \A x \in Pages : IsInjective(gateQueue[x]) /\ ToSet(gateQueue[x]) = line(x)
  BY Disjoint DEF IInv, Values, GateLines
<1>2. \A i \in Previews : i # j => pc'[i] = pc[i]
  BY <1>1 DEF Only
<1>3. ASSUME NEW q \in Seq(Previews), IsInjective(q), ToSet(q) = line(p)',
             gateQueue' = [gateQueue EXCEPT ![p] = q]
      PROVE  GateLines' /\ gateQueue' \in [Pages -> Seq(Previews)]
  <2>1. ASSUME NEW x \in Pages, x # p PROVE line(x)' = line(x) /\ gateQueue'[x] = gateQueue[x]
    BY <1>1, <1>2, <1>3, <2>1
  <2>2. gateQueue'[p] = q
    BY <1>1, <1>3
  <2>3. \A x \in Pages : IsInjective(gateQueue'[x]) /\ ToSet(gateQueue'[x]) = line(x)'
    BY <1>1, <1>3, <2>1, <2>2
  <2> QED BY <1>1, <1>3, <2>3 DEF GateLines
<1>4. CASE gateQueue' = gateQueue /\ (pc[j] = "gateQueued" <=> pc'[j] = "gateQueued")
  <2>1. line(p)' = line(p)
    BY <1>2, <1>4
  <2>2. gateQueue[p] \in Seq(Previews) /\ gateQueue' = [gateQueue EXCEPT ![p] = gateQueue[p]]
    BY <1>1, <1>4
  <2> QED BY <1>1, <1>3, <2>1, <2>2
<1>5. CASE /\ gateQueue' = [gateQueue EXCEPT ![p] = Append(gateQueue[p], j)]
           /\ pc[j] # "gateQueued" /\ pc'[j] = "gateQueued"
  <2>1. line(p)' = line(p) \cup {j} /\ j \notin line(p)
    BY <1>2, <1>5
  <2>2. gateQueue[p] \in Seq(Previews)
    BY <1>1
  <2>3. PICK q : q = Append(gateQueue[p], j)
    OBVIOUS
  <2>4. q \in Seq(Previews) /\ IsInjective(q) /\ ToSet(q) = ToSet(gateQueue[p]) \cup {j}
    BY <1>1, <2>1, <2>2, <2>3, Joined
  <2> QED BY <1>1, <1>3, <1>5, <2>1, <2>3, <2>4
<1>6. CASE /\ gateQueue[p] # <<>> /\ Head(gateQueue[p]) = j
           /\ gateQueue' = [gateQueue EXCEPT ![p] = Tail(gateQueue[p])]
           /\ pc'[j] # "gateQueued"
  <2>1. line(p)' = line(p) \ {j}
    BY <1>2, <1>6
  <2>2. gateQueue[p] \in Seq(Previews)
    BY <1>1
  <2>3. PICK q : q = Tail(gateQueue[p])
    OBVIOUS
  <2>4. q \in Seq(Previews) /\ IsInjective(q) /\ ToSet(q) = ToSet(gateQueue[p]) \ {j}
    BY <1>1, <1>6, <2>2, <2>3, ServedFirst
  <2> QED BY <1>1, <1>3, <1>6, <2>1, <2>3, <2>4
<1>7. CASE /\ gateQueue' = [gateQueue EXCEPT ![p] = RemoveFirst(gateQueue[p], j)]
           /\ pc[j] = "gateQueued" /\ pc'[j] # "gateQueued"
  <2>1. line(p)' = line(p) \ {j} /\ j \in line(p)
    BY <1>2, <1>7
  <2>2. gateQueue[p] \in Seq(Previews)
    BY <1>1
  <2>3. PICK q : q = RemoveFirst(gateQueue[p], j)
    OBVIOUS
  <2>4. q \in Seq(Previews) /\ IsInjective(q) /\ ToSet(q) = ToSet(gateQueue[p]) \ {j}
    BY <1>1, <2>1, <2>2, <2>3, LeftQueue
  <2> QED BY <1>1, <1>3, <1>7, <2>1, <2>3, <2>4
<1> QED BY <1>4, <1>5, <1>6, <1>7

\* A page that is made anew had a free gate: whoever has one keeps the page.
LEMMA NewPageFree ==
    ASSUME IInv, NEW p \in Pages, Holding(p) = {} PROVE gate[p] = Free
<1>1. SUFFICES ASSUME gate[p] # Free PROVE FALSE
  OBVIOUS
<1>2. PICK i \in Previews : gate[p] = i /\ PageOf[i] = p
  BY <1>1 DEF IInv, Values, Gates
<1>3. pc[i] \in GatePhases
  BY <1>2 DEF IInv, Gates
<1>4. pc[i] = "rendering" \/ (pc[i] \notin {"idle", "done"} /\ outcome[i] = "none")
  BY <1>3 DEF IInv, Unanswered, GatePhases
<1>5. i \in Holding(p)
  BY <1>2, <1>4 DEF Holding
<1> QED BY <1>5

LEMMA PreviewGates ==
    ASSUME IInv, NEW j \in Previews, Number(j) \/ PreviewStep(j) \/ GiveUp(j)
    PROVE  Gates' /\ GateLines' /\ GateTypes'
<1> DEFINE p == PageOf[j]
<1>1. /\ j \in Calls /\ p \in Pages /\ Phases /\ gate \in [Pages -> Previews \cup {Free}]
      /\ ToSet(gateQueue[p]) = {i \in Previews : PageOf[i] = p /\ pc[i] = "gateQueued"}
      /\ gateQueue[p] \in Seq(Previews)
  BY Disjoint DEF IInv, Values, GateLines
<1>2. Only(j)
  BY <1>1, PreviewMoves
<1>3. GatePhases = {"gated", "workerQueued", "chosen", "rendering"}
  BY DEF GatePhases
<1>4. ASSUME Gates' /\ gate' \in [Pages -> Previews \cup {Free}],
             GateLines' /\ gateQueue' \in [Pages -> Seq(Previews)]
      PROVE  Gates' /\ GateLines' /\ GateTypes'
  BY <1>4 DEF GateTypes
<1>5. CASE Number(j)
  <2>1. pc[j] = "idle" /\ pc'[j] \in {"idle", "done", "numbered"} /\ gateQueue' = gateQueue
    BY <1>1, <1>5, PreviewMoves DEF Number
  <2>2. gate' = gate
    <3>1. gate' = gate \/ (Holding(p) = {} /\ gate' = [gate EXCEPT ![p] = Free])
      BY <1>5 DEF Number
    <3>2. Holding(p) = {} => gate[p] = Free
      BY <1>1, NewPageFree
    <3> QED BY <1>1, <3>1, <3>2
  <2> QED BY <1>2, <1>3, <1>4, <2>1, <2>2, GatesMove, GateLinesMove
<1>6. CASE Announce(j) \/ Hear(j) \/ AskPreview(j) \/ Unguard(j)
  <2>1. gate' = gate /\ gateQueue' = gateQueue
    BY <1>6 DEF Announce, Hear, AskPreview, Unguard, page
  <2>2. (pc[j] \in GatePhases <=> pc'[j] \in GatePhases)
        /\ pc[j] # "gateQueued" /\ pc'[j] # "gateQueued"
    BY <1>1, <1>3, <1>6, PreviewMoves DEF PreviewStep
  <2> QED BY <1>2, <1>4, <2>1, <2>2, GatesMove, GateLinesMove
<1>7. CASE Queue(j)
  <2>1. /\ pc[j] = "begun"
        /\ \/ pc'[j] = "released" /\ gate' = gate /\ gateQueue' = gateQueue
           \/ /\ gate[p] = Free /\ gate' = [gate EXCEPT ![p] = j] /\ pc'[j] = "gated"
              /\ gateQueue' = gateQueue
           \/ /\ gateQueue' = [gateQueue EXCEPT ![p] = Append(gateQueue[p], j)]
              /\ pc'[j] = "gateQueued" /\ gate' = gate
    BY <1>1, <1>7, Moved DEF Queue
  <2> QED BY <1>2, <1>3, <1>4, <2>1, GatesMove, GateLinesMove
<1>8. CASE Gated(j)
  <2>1. /\ pc[j] = "gateQueued" /\ gate[p] = Free /\ Head(gateQueue[p]) = j
        /\ gate' = [gate EXCEPT ![p] = j] /\ pc'[j] = "gated"
        /\ gateQueue' = [gateQueue EXCEPT ![p] = Tail(gateQueue[p])]
    BY <1>1, <1>8, Moved DEF Gated
  <2>2. gateQueue[p] # <<>>
    <3>1. PICK k \in DOMAIN gateQueue[p] : gateQueue[p][k] = j
      BY <1>1, <2>1 DEF ToSet
    <3> QED BY <1>1, <3>1, EmptySeq, LenProperties
  <2> QED BY <1>2, <1>3, <1>4, <2>1, <2>2, GatesMove, GateLinesMove
<1>9. CASE Start(j) \/ PreviewEnds(j)
  <2>1. /\ pc[j] \in {"chosen", "rendering"} /\ gateQueue' = gateQueue
        /\ \/ pc'[j] = "released" /\ gate' = [gate EXCEPT ![p] = Free]
           \/ pc'[j] = "rendering" /\ gate' = gate
    BY <1>1, <1>9, Moved DEF Start, PreviewEnds
  <2> QED BY <1>2, <1>3, <1>4, <2>1, GatesMove, GateLinesMove
<1>10. CASE GiveUp(j)
  <2>1. \/ /\ pc[j] = "rendering" /\ pc'[j] = "rendering" /\ gate' = gate /\ gateQueue' = gateQueue
        \/ /\ pc[j] = "begun" /\ pc'[j] \in {"idle", "done"} /\ gate' = gate
           /\ gateQueue' = gateQueue
        \/ /\ pc[j] = "gateQueued" /\ pc'[j] = "released" /\ gate' = gate
           /\ gateQueue' = [gateQueue EXCEPT ![p] = RemoveFirst(gateQueue[p], j)]
        \/ /\ pc[j] = "workerQueued" /\ pc'[j] = "released" /\ gateQueue' = gateQueue
           /\ gate' = [gate EXCEPT ![p] = Free]
    BY <1>1, <1>10, Moved DEF GiveUp, Over
  <2> QED BY <1>2, <1>3, <1>4, <2>1, GatesMove, GateLinesMove
<1> QED BY <1>5, <1>6, <1>7, <1>8, <1>9, <1>10 DEF PreviewStep

\* What a call does to the answers: they are given once, with the render's end at the latest.
LEMMA PreviewAnswers ==
    ASSUME IInv, NEW j \in Previews, PreviewStep(j) \/ GiveUp(j)
    PROVE  /\ UNCHANGED <<next, sequence>> /\ PageTypes' /\ pc[j] \notin {"idle", "done"}
           /\ \A i \in Previews : i # j => outcome'[i] = outcome[i]
           /\ outcome'[j] = "none" => outcome[j] = "none"
           /\ pc'[j] \notin {"idle", "rendering", "released", "done"} => outcome'[j] = outcome[j]
           /\ pc'[j] = "rendering" => pc[j] \in {"chosen", "rendering"}
<1>1. PageTypes /\ Phases /\ j \in Calls
  BY Disjoint DEF IInv, Values, PageTypes
<1>2. UNCHANGED <<next, sequence>> /\ hearing' \subseteq Previews /\ told' \subseteq Previews
  BY <1>1 DEF PreviewStep, GiveUp, Announce, Hear, Queue, Gated, AskPreview, Start, PreviewEnds,
     Unguard, Deaf, page, PageTypes
<1>3. outcome' = outcome \/ \E how \in {"rendered", "failed", "stale", "capacity"} : Answer(j, how)
  BY DEF PreviewStep, GiveUp, Announce, Hear, Queue, Gated, AskPreview, Start, PreviewEnds, Unguard
<1>4. PageTypes' /\ (\A i \in Previews : i # j => outcome'[i] = outcome[i])
      /\ (outcome'[j] = "none" => outcome[j] = "none")
  BY <1>1, <1>2, <1>3 DEF PageTypes, Answer
<1>5. pc[j] \notin {"idle", "done"} /\ (pc'[j] = "rendering" => pc[j] \in {"chosen", "rendering"})
  BY <1>1, PreviewMoves DEF PreviewStep
<1>6. pc'[j] \notin {"idle", "rendering", "released", "done"} => outcome'[j] = outcome[j]
  <2>1. CASE Announce(j) \/ Hear(j) \/ Gated(j) \/ AskPreview(j) \/ Unguard(j)
    BY <2>1 DEF Announce, Hear, Gated, AskPreview, Unguard
  <2>2. CASE Queue(j)
    BY <1>1, <2>2, Moved DEF Queue
  <2>3. CASE Start(j) \/ PreviewEnds(j) \/ GiveUp(j)
    BY <1>1, <2>3, PreviewMoves DEF PreviewStep
  <2> QED BY <2>1, <2>2, <2>3 DEF PreviewStep
<1> QED BY <1>2, <1>4, <1>5, <1>6

\* Edits of a page count up as long as one of them keeps it.
LEMMA PreviewNumbers ==
    ASSUME IInv, NEW j \in Previews, Number(j) \/ PreviewStep(j) \/ GiveUp(j)
    PROVE  PageTypes' /\ Unanswered' /\ Numbers'
<1> DEFINE p == PageOf[j]
<1>1. /\ PageTypes /\ Phases /\ j \in Calls /\ Unanswered /\ Numbers /\ p \in Pages
      /\ \A i \in Previews : i \in Calls /\ PageOf[i] \in Pages
  BY Disjoint DEF IInv, Values, PageTypes
<1>2. \A i \in Previews : i # j => pc'[i] = pc[i]
  BY <1>1, PreviewMoves DEF Only
<1>3. CASE Number(j)
  <2>1. \A i \in Previews : i # j => outcome'[i] = outcome[i]
    BY <1>1, <1>3 DEF Number, Answer, PageTypes
  <2>2. ASSUME NEW i \in Previews, i # j, i \in Holding(PageOf[i])'
        PROVE  i \in Holding(PageOf[i])
    BY <1>2, <2>1, <2>2 DEF Holding
  <2>3. CASE pc'[j] \in {"idle", "done"}
    <3>1. ~Goto(j, "numbered")
      BY <1>1, <2>3, Moved
    <3>2. UNCHANGED <<next, sequence, hearing, told>> /\ PageTypes'
      BY <1>1, <1>3, <3>1 DEF Number, PageTypes, Answer
    <3>3. Unanswered'
      BY <1>1, <1>2, <2>1, <2>3 DEF Unanswered
    <3>4. j \notin Holding(p)'
      BY <2>3 DEF Holding
    <3> QED BY <1>1, <2>2, <3>2, <3>3, <3>4 DEF Numbers
  <2>4. CASE pc'[j] \notin {"idle", "done"}
    <3>1. ~Goto(j, Over(j))
      BY <1>1, <2>4, Moved DEF Over
    <3>2. PICK edit : /\ edit = IF Holding(p) = {} THEN 1 ELSE next[p] + 1
                      /\ next' = [next EXCEPT ![p] = edit]
                      /\ sequence' = [sequence EXCEPT ![j] = edit]
                      /\ outcome'[j] = "none" /\ UNCHANGED <<hearing, told>>
                      /\ outcome' \in [Previews -> {"none", "rendered", "failed", "stale", "capacity"}]
      BY <1>1, <1>3, <3>1 DEF Number, Answer, PageTypes
    <3>3. edit \in Nat
      BY <1>1, <3>2 DEF PageTypes
    <3>4. PageTypes'
      BY <1>1, <3>2, <3>3 DEF PageTypes
    <3>5. Unanswered'
      BY <1>1, <1>2, <2>1, <3>2 DEF Unanswered
    <3>6. next'[p] = edit /\ sequence'[j] = edit
      BY <1>1, <3>2 DEF PageTypes
    <3>7. ASSUME NEW i \in Previews, i # j, i \in Holding(PageOf[i])'
          PROVE  sequence'[i] <= next'[PageOf[i]]
      <4>1. sequence[i] <= next[PageOf[i]] /\ i \in Holding(PageOf[i])
        BY <1>1, <2>2, <3>7 DEF Numbers
      <4>2. sequence'[i] = sequence[i] /\ sequence[i] \in Nat /\ next[PageOf[i]] \in Nat
        BY <1>1, <3>2, <3>7 DEF PageTypes
      <4>3. CASE PageOf[i] = p
        <5>1. edit = next[p] + 1
          BY <3>2, <4>1, <4>3
        <5> QED BY <3>6, <4>1, <4>2, <4>3, <5>1
      <4>4. CASE PageOf[i] # p
        <5>1. next'[PageOf[i]] = next[PageOf[i]]
          BY <1>1, <3>2, <4>4 DEF PageTypes
        <5> QED BY <4>1, <4>2, <5>1
      <4> QED BY <4>3, <4>4
    <3> QED BY <3>3, <3>4, <3>5, <3>6, <3>7 DEF Numbers
  <2> QED BY <2>3, <2>4
<1>4. CASE PreviewStep(j) \/ GiveUp(j)
  <2>1. /\ UNCHANGED <<next, sequence>> /\ PageTypes' /\ pc[j] \notin {"idle", "done"}
        /\ \A i \in Previews : i # j => outcome'[i] = outcome[i]
        /\ outcome'[j] = "none" => outcome[j] = "none"
        /\ pc'[j] \notin {"idle", "rendering", "released", "done"} => outcome'[j] = outcome[j]
        /\ pc'[j] = "rendering" => pc[j] \in {"chosen", "rendering"}
    BY <1>4, PreviewAnswers
  <2>2. pc'[j] \notin {"idle", "rendering", "released", "done"} => outcome'[j] = "none"
    <3>1. pc'[j] \notin {"idle", "rendering", "released", "done"} =>
             pc[j] \notin {"idle", "rendering", "released", "done"}
      BY <1>1, <1>4, PreviewMoves DEF PreviewStep
    <3> QED BY <1>1, <2>1, <3>1 DEF Unanswered
  <2>3. Unanswered'
    BY <1>1, <1>2, <2>1, <2>2 DEF Unanswered
  <2>4. ASSUME NEW i \in Previews, i \in Holding(PageOf[i])' PROVE i \in Holding(PageOf[i])
    <3>1. CASE i # j
      BY <1>2, <2>1, <2>4, <3>1 DEF Holding
    <3>2. CASE i = j
      <4>1. pc'[j] = "rendering" \/ outcome'[j] = "none"
        BY <2>4, <3>2 DEF Holding
      <4>2. pc[j] = "rendering" \/ outcome[j] = "none"
        BY <1>1, <2>1, <4>1 DEF Unanswered
      <4> QED BY <2>1, <3>2, <4>2 DEF Holding
    <3> QED BY <3>1, <3>2
  <2> QED BY <1>1, <2>1, <2>3, <2>4 DEF Numbers
<1> QED BY <1>3, <1>4
-----------------------------------------------------------------------------
(* The stop, and the background renders that overtake *)

StopTypes == closed \in BOOLEAN /\ stopper \in {"idle", "closed", "draining", "stopped"}

\* Nothing that a stopped scheduler admits renders in the foreground.
LEMMA StopsKept ==
    ASSUME IInv, UNCHANGED <<closed, stopper>>,
           \A t \in Foregrounds : pc'[t] = "rendering" => pc[t] = "rendering" \/ ~closed
    PROVE  Stops' /\ StopTypes'
BY DEF IInv, Values, Stops, StopTypes, ForegroundDrained

LEMMA DeliveryStops ==
    ASSUME IInv, NEW t \in Deliveries, Deliver(t) \/ DeliveryStep(t) \/ Disconnect(t)
    PROVE  Stops' /\ StopTypes'
<1>1. t \in Calls /\ Phases /\ \A u \in Foregrounds : u \in Calls
  BY Disjoint DEF IInv
<1>2. UNCHANGED <<closed, stopper>> /\ Only(t)
  BY <1>1, DeliveryMoves DEF Deliver, DeliveryStep, Look, Ask, Granted, Render, Disconnect,
     RenderEnds, Unguard
<1>3. pc'[t] = "rendering" => ~closed
  <2>1. CASE Render(t)
    BY <1>1, <2>1, Moved DEF Render
  <2>2. CASE ~Render(t)
    BY <1>1, <2>2, DeliveryMoves DEF DeliveryStep
  <2> QED BY <2>1, <2>2
<1> QED BY <1>1, <1>2, <1>3, StopsKept DEF Only

LEMMA BackgroundStops ==
    ASSUME IInv, NEW t \in Backgrounds, BackgroundStep(t) \/ DropPass(t)
    PROVE  Stops' /\ StopTypes'
<1>1. t \in Calls /\ Phases /\ t \notin Foregrounds /\ \A u \in Foregrounds : u \in Calls
  BY Disjoint DEF IInv
<1>2. UNCHANGED <<closed, stopper>> /\ Only(t)
  BY <1>1, BackgroundMoves DEF BackgroundStep, TakeTurn, Listen, LookClosed, LookIdle, TryAcquire,
     Again, DropPass, RenderEnds, Unguard
<1> QED BY <1>1, <1>2, StopsKept DEF Only

LEMMA PreviewStops ==
    ASSUME IInv, NEW j \in Previews, Number(j) \/ PreviewStep(j) \/ GiveUp(j)
    PROVE  Stops' /\ StopTypes'
<1>1. j \in Calls /\ Phases /\ \A u \in Foregrounds : u \in Calls
  BY Disjoint DEF IInv
<1>2. UNCHANGED <<closed, stopper>> /\ Only(j)
  BY <1>1, PreviewMoves DEF Number, PreviewStep, GiveUp, Announce, Hear, Queue, Gated, AskPreview,
     Start, PreviewEnds, Unguard
<1>3. pc'[j] = "rendering" => pc[j] = "rendering" \/ ~closed
  <2>1. CASE Start(j)
    BY <1>1, <2>1, Moved DEF Start
  <2>2. CASE ~Start(j)
    BY <1>1, <2>2, PreviewMoves DEF PreviewStep
  <2> QED BY <2>1, <2>2
<1> QED BY <1>1, <1>2, <1>3, StopsKept DEF Only

\* The stop ends with every permit, so that no render has one.
LEMMA StopStops ==
    ASSUME IInv, Close \/ StopStep \/ UNCHANGED vars
    PROVE  Stops' /\ StopTypes'
<1>1. pc' = pc /\ Stops /\ StopTypes
  BY StopMoves DEF IInv, Values, StopTypes
<1>2. CASE Close
  BY <1>1, <1>2 DEF Close, Stops, StopTypes, ForegroundDrained
<1>3. CASE NotifyClosed
  BY <1>1, <1>3 DEF NotifyClosed, Stops, StopTypes, ForegroundDrained
<1>4. CASE Drained
  <2>1. IsFiniteSet(Permitted) /\ Cardinality(Permitted) = 0
    <3>1. IsFiniteSet(Permitted) /\ free + Cardinality(Permitted) = Parallelism /\ free = Parallelism
      BY <1>4 DEF IInv, Permits, Drained
    <3> QED BY <3>1, FS_CardinalityType, Disjoint
  <2>2. Permitted = {}
    BY <2>1, FS_EmptySet
  <2>3. \A t \in Foregrounds : pc'[t] # "rendering"
    BY <1>1, <2>2, Disjoint DEF Permitted
  <2> QED BY <1>1, <1>4, <2>3 DEF Drained, Stops, StopTypes, ForegroundDrained
<1>5. CASE UNCHANGED vars
  BY <1>1, <1>5 DEF vars, Stops, StopTypes, ForegroundDrained
<1> QED BY <1>2, <1>3, <1>4, <1>5 DEF StopStep

LEMMA GuardedIs == Guarded = {t \in Foregrounds : HasGuard(t)}
BY Disjoint DEF Guarded, HasGuard

\* A foreground call that comes was not overtaken yet.
LEMMA ForegroundOvertakes ==
    ASSUME IInv, NEW t \in Foregrounds, Only(t),
           \/ overtaken' = overtaken /\ (HasGuard(t)' => HasGuard(t))
           \/ overtaken' = [overtaken EXCEPT ![t] = 0]
    PROVE  Overtakes' /\ overtaken' \in [Foregrounds -> Nat]
<1>1. /\ overtaken \in [Foregrounds -> Nat] /\ \A u \in Foregrounds : u \in Calls
      /\ \A b \in Backgrounds : pc'[b] = pc[b]
  BY Disjoint DEF IInv, Values, Only
<1>2. ASSUME NEW u \in Foregrounds, HasGuard(u)'
      PROVE  \/ HasGuard(u) /\ overtaken'[u] = overtaken[u]
             \/ overtaken'[u] = 0
  <2>1. CASE u = t
    BY <1>1, <1>2, <2>1
  <2>2. CASE u # t
    <3>1. HasGuard(u)
      BY <1>1, <1>2, <2>2 DEF HasGuard, Only
    <3> QED BY <1>1, <2>2, <3>1
  <2> QED BY <2>1, <2>2
<1>3. \A u \in Foregrounds : HasGuard(u) =>
         /\ overtaken[u] <= 1
         /\ overtaken[u] = 1 => \A b \in Backgrounds : pc[b] # "quiet"
  BY GuardedIs DEF IInv, Overtakes
<1>4. Guarded' = {u \in Foregrounds : HasGuard(u)'}
  BY Disjoint DEF Guarded, HasGuard
<1>5. ASSUME NEW u \in Foregrounds, HasGuard(u)'
      PROVE  /\ overtaken'[u] <= 1
             /\ overtaken'[u] = 1 => \A b \in Backgrounds : pc'[b] # "quiet"
  <2>1. CASE HasGuard(u) /\ overtaken'[u] = overtaken[u]
    BY <1>1, <1>3, <2>1
  <2>2. CASE overtaken'[u] = 0
    BY <2>2
  <2> QED BY <1>2, <1>5, <2>1, <2>2
<1> QED BY <1>1, <1>4, <1>5 DEF Overtakes

LEMMA DeliveryOvertakes ==
    ASSUME IInv, NEW t \in Deliveries, Deliver(t) \/ DeliveryStep(t) \/ Disconnect(t)
    PROVE  Overtakes' /\ overtaken' \in [Foregrounds -> Nat]
<1>1. t \in Foregrounds /\ t \notin Previews /\ Phases
  BY Disjoint DEF IInv
<1>2. Only(t) /\ (~Deliver(t) => pc[t] \notin {"idle", "done"})
  BY <1>1, DeliveryMoves DEF DeliveryStep
<1>3. CASE Deliver(t)
  BY <1>1, <1>2, <1>3, ForegroundOvertakes DEF Deliver, Enter
<1>4. CASE ~Deliver(t)
  <2>1. overtaken' = overtaken
    BY <1>4 DEF DeliveryStep, Look, Ask, Granted, Render, Disconnect, RenderEnds, Unguard
  <2> QED BY <1>1, <1>2, <1>4, <2>1, ForegroundOvertakes DEF HasGuard
<1> QED BY <1>3, <1>4

LEMMA PreviewOvertakes ==
    ASSUME IInv, NEW j \in Previews, Number(j) \/ PreviewStep(j) \/ GiveUp(j)
    PROVE  Overtakes' /\ overtaken' \in [Foregrounds -> Nat]
<1>1. j \in Foregrounds /\ j \notin Deliveries /\ Phases
  BY Disjoint DEF IInv
<1>2. Only(j)
  BY <1>1, PreviewMoves
<1>3. CASE Queue(j)
  BY <1>1, <1>2, <1>3, ForegroundOvertakes DEF Queue, Enter
<1>4. CASE ~Queue(j)
  <2>1. overtaken' = overtaken
    BY <1>4 DEF Number, PreviewStep, GiveUp, Announce, Hear, Gated, AskPreview, Start, PreviewEnds, Unguard
  <2>2. HasGuard(j)' => HasGuard(j)
    BY <1>1, <1>4, PreviewMoves DEF PreviewStep, HasGuard
  <2> QED BY <1>1, <1>2, <2>1, <2>2, ForegroundOvertakes
<1> QED BY <1>3, <1>4

\* The render that has the turn is the only one that can have looked before the call came.
LEMMA BackgroundOvertakes ==
    ASSUME IInv, NEW t \in Backgrounds, BackgroundStep(t) \/ DropPass(t)
    PROVE  Overtakes' /\ overtaken' \in [Foregrounds -> Nat]
<1>1. /\ t \in Calls /\ Phases /\ overtaken \in [Foregrounds -> Nat]
      /\ \A b \in Backgrounds : b \in Calls
      /\ \A b \in Backgrounds : turn = b <=> pc[b] \in TurnPhases
      /\ \A u \in Foregrounds : u \in Calls /\ u # t
  BY Disjoint DEF IInv, Values, Turns
<1>2. /\ Only(t) /\ \A b \in Backgrounds : b # t => pc'[b] = pc[b]
  BY <1>1, BackgroundMoves DEF Only
<1>3. Guarded' = Guarded /\ \A u \in Guarded : u \in Foregrounds
  BY <1>1, <1>2, Disjoint DEF Only, Guarded
<1>4. CASE LookIdle(t)
  <2>1. overtaken' = overtaken
    BY <1>4 DEF LookIdle
  <2>2. CASE foreground = 0
    <3>1. Guarded = {}
      <4>1. IsFiniteSet(Guarded) /\ Cardinality(Guarded) = 0
        BY <2>2 DEF IInv, Guards
      <4> QED BY <4>1, FS_EmptySet
    <3> QED BY <1>1, <1>3, <2>1, <3>1 DEF Overtakes
  <2>3. CASE foreground # 0
    <3>1. pc'[t] # "quiet"
      BY <1>1, <1>4, <2>3, Moved DEF LookIdle
    <3> QED BY <1>1, <1>2, <1>3, <2>1, <3>1 DEF Overtakes, IInv
  <2> QED BY <2>2, <2>3
<1>5. CASE TryAcquire(t)
  <2>1. pc[t] = "quiet" /\ pc'[t] \in {"rendering", "waiting"}
    BY <1>1, <1>5, BackgroundMoves DEF BackgroundStep
  <2>2. \A b \in Backgrounds : pc'[b] # "quiet"
    <3>1. ASSUME NEW b \in Backgrounds, b # t PROVE pc[b] # "quiet"
      BY <1>1, <2>1, <3>1 DEF TurnPhases
    <3> QED BY <1>2, <2>1, <3>1
  <2>3. \A u \in Guarded : u \in Foregrounds /\ overtaken[u] \in Nat /\ overtaken[u] <= 1
                           /\ overtaken[u] # 1
    BY <1>1, <1>3, <2>1 DEF IInv, Overtakes
  <2>4. \/ overtaken' = overtaken
        \/ overtaken' = [f \in Foregrounds |-> IF f \in Guarded THEN overtaken[f] + 1 ELSE overtaken[f]]
    BY <1>5 DEF TryAcquire
  <2>5. overtaken' \in [Foregrounds -> Nat]
    BY <1>1, <2>4
  <2>6. \A u \in Guarded : overtaken'[u] <= 1
    BY <2>3, <2>4
  <2> QED BY <1>3, <2>2, <2>5, <2>6 DEF Overtakes
<1>6. CASE ~LookIdle(t) /\ ~TryAcquire(t)
  <2>1. overtaken' = overtaken
    BY <1>6 DEF BackgroundStep, TakeTurn, Listen, LookClosed, Again, DropPass, RenderEnds, Unguard
  <2>2. pc'[t] # "quiet"
    BY <1>1, <1>6, BackgroundMoves DEF BackgroundStep
  <2> QED BY <1>1, <1>2, <1>3, <2>1, <2>2 DEF Overtakes, IInv
<1> QED BY <1>4, <1>5, <1>6
-----------------------------------------------------------------------------
(* The invariant is inductive *)

\* Nobody has a permit or a guard, waits or renders at the start.
LEMMA InitInvariant == Init => IInv
<1> SUFFICES ASSUME Init PROVE IInv
  OBVIOUS
<1>1. \A t \in Calls : pc[t] = "idle"
  BY DEF Init
<1>2. Phases
  BY Disjoint DEF Init, Phases, DeliveryPhases, BackgroundPhases, PreviewPhases
<1>3. Values
  <2>1. /\ <<>> \in Seq(Calls \cup {Stop}) /\ <<>> \in Seq(Backgrounds) /\ <<>> \in Seq(Previews)
    OBVIOUS
  <2>2. gateQueue \in [Pages -> Seq(Previews)]
    BY <2>1 DEF Init
  <2>3. /\ next \in [Pages -> Nat] /\ gate \in [Pages -> Previews \cup {Free}]
        /\ sequence \in [Previews -> Nat] /\ overtaken \in [Foregrounds -> Nat]
        /\ outcome \in [Previews -> {"none", "rendered", "failed", "stale", "capacity"}]
    BY DEF Init
  <2> QED BY <2>1, <2>2, <2>3, Disjoint DEF Init, Values
<1>4. Permitted = {} /\ Guarded = {} /\ Queued = {}
  BY <1>1, Disjoint DEF Permitted, Guarded, Queued
<1>5. Permits /\ Guards
  BY <1>4, FS_EmptySet, Disjoint DEF Init, Permits, Guards
<1>6. IsInjective(<<>>) /\ ToSet(<<>>) = {}
  BY DEF IsInjective, ToSet
<1>7. Lines /\ TurnLine
  BY <1>1, <1>4, <1>6 DEF Init, Lines, TurnLine
<1>8. GateLines
  BY <1>1, <1>6, Disjoint DEF Init, GateLines
<1>9. Turns /\ Gates
  BY <1>1, Disjoint DEF Init, Turns, Gates, TurnPhases, GatePhases
<1>10. Unanswered /\ Stops
  BY <1>1, Disjoint DEF Init, Unanswered, Stops, ForegroundDrained
<1>11. Overtakes
  BY <1>4 DEF Overtakes
<1>12. Numbers
  BY <1>1, Disjoint DEF Init, Numbers, Holding
<1> QED BY <1>2, <1>3, <1>5, <1>7, <1>8, <1>9, <1>10, <1>11, <1>12 DEF IInv

LEMMA DeliveryKeeps ==
    ASSUME IInv, NEW t \in Deliveries, Deliver(t) \/ DeliveryStep(t) \/ Disconnect(t)
    PROVE  IInv'
<1>1. t \in Calls /\ Phases /\ \A u \in Backgrounds \cup Previews : u \in Calls /\ u # t
  BY Disjoint DEF IInv
<1>2. Phases' /\ Only(t)
  BY <1>1, DeliveryMoves
<1>3. UNCHANGED <<turn, turnQueue>> /\ UNCHANGED <<page, outcome>>
  BY DEF Deliver, DeliveryStep, Look, Ask, Granted, Render, Disconnect, RenderEnds, Unguard
<1>4. \A u \in Backgrounds \cup Previews : pc'[u] = pc[u]
  BY <1>1, <1>2 DEF Only
<1>5. \A u \in Calls : pc[u] = "turnQueued" <=> pc'[u] = "turnQueued"
  <2>1. pc[t] # "turnQueued" /\ pc'[t] # "turnQueued"
    BY <1>1, <1>2 DEF Phases, DeliveryPhases
  <2> QED BY <1>2, <2>1 DEF Only
<1>6. /\ Phases' /\ Permits' /\ Guards' /\ free' \in Nat /\ foreground' \in Nat
      /\ Lines' /\ queue' \in Seq(Calls \cup {Stop})
      /\ Turns' /\ TurnLine' /\ turnQueue' \in Seq(Backgrounds)
      /\ Gates' /\ GateLines' /\ GateTypes' /\ PageTypes' /\ Unanswered' /\ Numbers'
      /\ Stops' /\ StopTypes' /\ Overtakes' /\ overtaken' \in [Foregrounds -> Nat]
  BY <1>2, <1>3, <1>4, <1>5, DeliveryCounts, DeliveryLines, TurnsKept, PagesKept, DeliveryStops,
     DeliveryOvertakes
<1> QED BY <1>6 DEF IInv, Values, GateTypes, PageTypes, StopTypes

LEMMA BackgroundKeeps ==
    ASSUME IInv, NEW t \in Backgrounds, BackgroundStep(t) \/ DropPass(t)
    PROVE  IInv'
<1>1. t \in Calls /\ Phases /\ \A u \in Previews : u \in Calls /\ u # t
  BY Disjoint DEF IInv
<1>2. Phases' /\ Only(t)
  BY <1>1, BackgroundMoves
<1>3. UNCHANGED <<page, outcome>>
  BY DEF BackgroundStep, TakeTurn, Listen, LookClosed, LookIdle, TryAcquire, Again, DropPass,
     RenderEnds, Unguard
<1>4. \A u \in Previews : pc'[u] = pc[u]
  BY <1>1, <1>2 DEF Only
<1>5. /\ Phases' /\ Permits' /\ Guards' /\ free' \in Nat /\ foreground' \in Nat
      /\ Lines' /\ queue' \in Seq(Calls \cup {Stop})
      /\ Turns' /\ TurnLine' /\ turnQueue' \in Seq(Backgrounds)
      /\ Gates' /\ GateLines' /\ GateTypes' /\ PageTypes' /\ Unanswered' /\ Numbers'
      /\ Stops' /\ StopTypes' /\ Overtakes' /\ overtaken' \in [Foregrounds -> Nat]
  BY <1>2, <1>3, <1>4, BackgroundCounts, BackgroundLines, BackgroundTurns, PagesKept,
     BackgroundStops, BackgroundOvertakes
<1> QED BY <1>5 DEF IInv, Values, GateTypes, PageTypes, StopTypes

LEMMA PreviewKeeps ==
    ASSUME IInv, NEW j \in Previews, Number(j) \/ PreviewStep(j) \/ GiveUp(j)
    PROVE  IInv'
<1>1. j \in Calls /\ Phases /\ \A u \in Backgrounds : u \in Calls /\ u # j
  BY Disjoint DEF IInv
<1>2. Phases' /\ Only(j)
  BY <1>1, PreviewMoves
<1>3. UNCHANGED <<turn, turnQueue>>
  BY DEF Number, PreviewStep, GiveUp, Announce, Hear, Queue, Gated, AskPreview, Start, PreviewEnds, Unguard
<1>4. \A u \in Backgrounds : pc'[u] = pc[u]
  BY <1>1, <1>2 DEF Only
<1>5. \A u \in Calls : pc[u] = "turnQueued" <=> pc'[u] = "turnQueued"
  <2>1. pc[j] # "turnQueued" /\ pc'[j] # "turnQueued"
    BY <1>1, <1>2 DEF Phases, PreviewPhases, GatePhases
  <2> QED BY <1>2, <2>1 DEF Only
<1>6. /\ Phases' /\ Permits' /\ Guards' /\ free' \in Nat /\ foreground' \in Nat
      /\ Lines' /\ queue' \in Seq(Calls \cup {Stop})
      /\ Turns' /\ TurnLine' /\ turnQueue' \in Seq(Backgrounds)
      /\ Gates' /\ GateLines' /\ GateTypes' /\ PageTypes' /\ Unanswered' /\ Numbers'
      /\ Stops' /\ StopTypes' /\ Overtakes' /\ overtaken' \in [Foregrounds -> Nat]
  BY <1>2, <1>3, <1>4, <1>5, PreviewCounts, PreviewLines, TurnsKept, PreviewGates, PreviewNumbers,
     PreviewStops, PreviewOvertakes
<1> QED BY <1>6 DEF IInv, Values, GateTypes, PageTypes, StopTypes

LEMMA StopKeeps ==
    ASSUME IInv, Close \/ StopStep \/ UNCHANGED vars
    PROVE  IInv'
<1>1. pc' = pc
  BY StopMoves
<1>2. UNCHANGED <<turn, turnQueue>> /\ UNCHANGED <<page, outcome>>
      /\ UNCHANGED <<free, foreground, overtaken>>
  BY DEF Close, StopStep, NotifyClosed, Drained, vars
<1>3. Phases' /\ Permitted' = Permitted /\ Guarded' = Guarded
  BY <1>1 DEF IInv, Phases, Permitted, Guarded
<1>4. Permits' /\ Guards' /\ free' \in Nat /\ foreground' \in Nat
  BY <1>2, <1>3 DEF IInv, Values, Permits, Guards
<1>5. Overtakes' /\ overtaken' \in [Foregrounds -> Nat]
  BY <1>1, <1>2, <1>3 DEF IInv, Values, Overtakes
<1>6. /\ Phases' /\ Permits' /\ Guards' /\ free' \in Nat /\ foreground' \in Nat
      /\ Lines' /\ queue' \in Seq(Calls \cup {Stop})
      /\ Turns' /\ TurnLine' /\ turnQueue' \in Seq(Backgrounds)
      /\ Gates' /\ GateLines' /\ GateTypes' /\ PageTypes' /\ Unanswered' /\ Numbers'
      /\ Stops' /\ StopTypes' /\ Overtakes' /\ overtaken' \in [Foregrounds -> Nat]
  BY <1>1, <1>2, <1>3, <1>4, <1>5, StopLines, TurnsKept, PagesKept, StopStops
<1> QED BY <1>6 DEF IInv, Values, GateTypes, PageTypes, StopTypes

LEMMA StepInvariant == IInv /\ [Next]_vars => IInv'
<1> SUFFICES ASSUME IInv, [Next]_vars PROVE IInv'
  OBVIOUS
<1>1. ASSUME NEW t \in Deliveries, Deliver(t) \/ DeliveryStep(t) \/ Disconnect(t) PROVE IInv'
  BY <1>1, DeliveryKeeps
<1>2. ASSUME NEW t \in Backgrounds, BackgroundStep(t) \/ DropPass(t) PROVE IInv'
  BY <1>2, BackgroundKeeps
<1>3. ASSUME NEW j \in Previews, Number(j) \/ PreviewStep(j) \/ GiveUp(j) PROVE IInv'
  BY <1>3, PreviewKeeps
<1>4. ASSUME Close \/ StopStep \/ UNCHANGED vars PROVE IInv'
  BY <1>4, StopKeeps
<1> QED BY <1>1, <1>2, <1>3, <1>4 DEF Next

LEMMA Invariant == Spec => []IInv
BY InitInvariant, StepInvariant, PTL DEF Spec
-----------------------------------------------------------------------------
(* What follows *)

\* Permits, guards and turns are with the calls that think so, and every queue holds just who
\* waits (work.rs: semaphores, Guard and Priority): TypeOK, for any number of calls and workers.
THEOREM WorkersTyped == Spec => []TypeOK
<1>1. IInv => TypeOK
  <2> SUFFICES ASSUME IInv PROVE TypeOK
    OBVIOUS
  <2>1. free = Parallelism - Cardinality(Permitted) /\ free >= 0
    <3>1. Cardinality(Permitted) \in Nat /\ free \in Nat /\ free + Cardinality(Permitted) = Parallelism
      BY FS_CardinalityType DEF IInv, Permits, Values
    <3> QED BY <3>1
  <2>2. \A p \in Pages : gate[p] # Free =>
           gate[p] \in Previews /\ PageOf[gate[p]] = p /\ pc[gate[p]] \in GatePhases
    BY DEF IInv, Values, Gates
  <2>3. \A p \in Pages : ToSet(gateQueue[p]) =
           {j \in Previews : PageOf[j] = p /\ pc[j] = "gateQueued"}
    BY DEF IInv, GateLines
  <2>4. /\ \A t \in Backgrounds : turn = t <=> pc[t] \in TurnPhases
        /\ IsInjective(queue) /\ IsInjective(turnQueue)
        /\ ToSet(queue) = {t \in Calls : pc[t] \in {"queued", "workerQueued"}} \cup
                          (IF stopper = "draining" THEN {Stop} ELSE {})
        /\ ToSet(turnQueue) = {t \in Calls : pc[t] = "turnQueued"}
        /\ foreground = Cardinality(Guarded)
    BY DEF IInv, Turns, Lines, TurnLine, Queued, Guards
  <2>5. /\ closed \in BOOLEAN /\ hearing \subseteq Previews /\ told \subseteq Previews
        /\ outcome \in [Previews -> {"none", "rendered", "failed", "stale", "capacity"}]
        /\ stopper \in {"idle", "closed", "draining", "stopped"}
    BY DEF IInv, Values
  <2>6. TurnPhases = {"turn", "listening", "open", "quiet", "waiting"}
        /\ GatePhases = {"gated", "workerQueued", "chosen", "rendering"}
    BY DEF TurnPhases, GatePhases
  <2> QED BY <2>1, <2>2, <2>3, <2>4, <2>5, <2>6 DEF TypeOK
<1> QED BY <1>1, Invariant, PTL

\* While a foreground call lasts, at most one background render, which had seen no foreground
\* call before, is still admitted (Priority::idle and try_acquire_owned in background_render).
THEOREM Overtaken == Spec => []OvertakenAtMostOnce
<1>1. IInv => OvertakenAtMostOnce
  BY DEF IInv, Overtakes, OvertakenAtMostOnce
<1> QED BY <1>1, Invariant, PTL

\* Once stop has returned no foreground render runs, and none starts (Workers::stop).
THEOREM StoppedForegrounds == Spec => []ForegroundDrained
<1>1. IInv => ForegroundDrained
  BY DEF IInv, Stops
<1> QED BY <1>1, Invariant, PTL

\* One preview of a page renders at a time, also when the page was asked for again while a
\* render went on without its call (Page::gate, held by the render).
THEOREM PagesSerial == Spec => []OnePreviewPerPage
<1>1. IInv => OnePreviewPerPage
  <2> SUFFICES ASSUME IInv, NEW i \in Previews, NEW j \in Previews,
                      pc[i] = "rendering", pc[j] = "rendering", PageOf[i] = PageOf[j]
               PROVE  i = j
    BY DEF OnePreviewPerPage
  <2>1. gate[PageOf[i]] = i /\ gate[PageOf[j]] = j
    BY DEF IInv, Gates, GatePhases
  <2> QED BY <2>1
<1> QED BY <1>1, Invariant, PTL

\* An edit does not render once a newer one of its page has come (Start's look at the number).
THEOREM NewestEditRenders == Spec => EditsInOrder
<1> DEFINE Newest ==
       \A i, j \in Previews :
          /\ pc[i] = "chosen" /\ pc'[i] = "rendering"
          /\ PageOf[i] = PageOf[j] /\ j \in Holding(PageOf[j])
          => sequence[j] <= sequence[i]
<1>1. IInv /\ [Next]_vars => [Newest]_vars
  <2> SUFFICES ASSUME IInv, Next, NEW i \in Previews, NEW j \in Previews,
                      pc[i] = "chosen", pc'[i] = "rendering",
                      PageOf[i] = PageOf[j], j \in Holding(PageOf[j])
               PROVE  sequence[j] <= sequence[i]
    OBVIOUS
  <2>1. i \in Calls /\ Phases /\ i \notin Deliveries /\ i \notin Backgrounds
    BY Disjoint DEF IInv
  <2>2. \A t \in Calls : Only(t) => t = i
    BY <2>1 DEF Only
  <2>3. Start(i)
    <3>1. ASSUME NEW t \in Deliveries, Deliver(t) \/ DeliveryStep(t) \/ Disconnect(t) PROVE FALSE
      BY <2>1, <2>2, <3>1, DeliveryMoves, Disjoint
    <3>2. ASSUME NEW t \in Backgrounds, BackgroundStep(t) \/ DropPass(t) PROVE FALSE
      BY <2>1, <2>2, <3>2, BackgroundMoves, Disjoint
    <3>3. ~Close /\ ~StopStep
      BY StopMoves
    <3>4. PICK k \in Previews : Number(k) \/ PreviewStep(k) \/ GiveUp(k)
      BY <3>1, <3>2, <3>3 DEF Next
    <3>5. k = i
      BY <2>1, <2>2, <3>4, PreviewMoves, Disjoint
    <3> QED BY <2>1, <3>4, <3>5, PreviewMoves DEF PreviewStep
  <2>4. next[PageOf[i]] = sequence[i]
    BY <2>1, <2>3, Moved DEF Start
  <2>5. sequence[j] <= next[PageOf[j]]
    BY DEF IInv, Numbers
  <2> QED BY <2>4, <2>5
<1> QED BY <1>1, Invariant, PTL DEF Spec, EditsInOrder
=============================================================================
