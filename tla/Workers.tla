------------------------------ MODULE Workers ------------------------------
(* The scheduler of the live server (mokly-server work.rs): fair semaphores    *)
(* for workers, for the turn of background renders and for each page's         *)
(* preview, a foreground counter with a notification, and stop.  Deliveries    *)
(* and previews are foreground calls; the background pass renders one view per *)
(* call.  Between two awaits a call runs on a thread of its own, so that loads *)
(* of shared values and what is done with them are separate steps.             *)
EXTENDS Integers, Sequences, FiniteSets, SequencesExt

CONSTANTS
    Deliveries,    \* generated, asset and authored requests
    Backgrounds,   \* background renders of the usage pass
    Previews,      \* preview requests
    Pages, PageOf, \* the page id of a preview
    Parallelism,   \* Workers::parallelism
    Tickets,       \* server-wide queue tickets; eight in the program
    Repeats,       \* calls that come back; the others come once, previews too
    Stop, Free

Foregrounds == Deliveries \cup Previews
Calls == Foregrounds \cup Backgrounds

ASSUME WorkersAssumption ==
    /\ PageOf \in [Previews -> Pages]
    /\ Parallelism \in Nat \ {0} /\ Tickets \in Nat \ {0}
    /\ Deliveries \cap Previews = {} /\ Foregrounds \cap Backgrounds = {}
    /\ Repeats \subseteq Deliveries \cup Backgrounds
    /\ Stop \notin Calls /\ Free \notin Calls

VARIABLES
    closed, foreground,
    free, queue,          \* the workers semaphore: permits left, calls that wait
    turn, turnQueue,      \* the background semaphore of one permit
    listening,            \* Notified futures of Priority::changed nobody notified
    pc,
    next, gate, gateQueue,   \* Page: last edit, gate permit, calls that wait for it
    sequence,             \* the edit number of a preview
    hearing, told,        \* Notified futures of Page::changed: registered, notified
    outcome,              \* the answer of a preview
    stopper,
    overtaken             \* background renders admitted during a foreground call

page == <<next, gate, gateQueue, sequence, hearing, told>>
vars == <<closed, foreground, free, queue, turn, turnQueue, listening, pc, page,
          outcome, stopper, overtaken>>

Goto(t, to) == pc' = [pc EXCEPT ![t] = to]

\* Priority::changed.notify_waiters.
NotifyWaiters == listening' = {}

Init ==
    /\ closed = FALSE /\ foreground = 0
    /\ free = Parallelism /\ queue = <<>>
    /\ turn = Free /\ turnQueue = <<>>
    /\ listening = {}
    /\ pc = [t \in Calls |-> "idle"]
    /\ next = [p \in Pages |-> 0]
    /\ gate = [p \in Pages |-> Free] /\ gateQueue = [p \in Pages |-> <<>>]
    /\ sequence = [j \in Previews |-> 0]
    /\ hearing = {} /\ told = {}
    /\ outcome = [j \in Previews |-> "none"]
    /\ stopper = "idle"
    /\ overtaken = [t \in Foregrounds |-> 0]

-----------------------------------------------------------------------------
(* The workers semaphore.  A released permit belongs to the call that waits    *)
(* longest, which is the same as the queue going first.                        *)

\* acquire_owned: a permit at once if there is one and nobody waits.
AcquireWorker(t, got, waits) ==
    \/ /\ queue = <<>> /\ free > 0
       /\ free' = free - 1
       /\ Goto(t, got)
       /\ UNCHANGED queue
    \/ /\ queue # <<>> \/ free = 0
       /\ queue' = Append(queue, t)
       /\ Goto(t, waits)
       /\ UNCHANGED free

\* The permit that was assigned to the first of the queue.
GrantedWorker(t) ==
    /\ queue # <<>> /\ Head(queue) = t /\ free > 0
    /\ free' = free - 1
    /\ queue' = Tail(queue)

-----------------------------------------------------------------------------
(* Guards of Priority *)

\* Foreground calls with a guard.
Guarded ==
    {t \in Deliveries : pc[t] \notin {"idle", "done"}} \cup
    {j \in Previews : pc[j] \notin {"idle", "numbered", "announced", "begun", "done"}}

\* Priority::enter(true).
Enter(t) == foreground' = foreground + 1 /\ overtaken' = [overtaken EXCEPT ![t] = 0]

Over(t) == IF t \in Repeats THEN "idle" ELSE "done"

\* Guard::drop, after the permits.
Unguard(t) ==
    /\ pc[t] = "released"
    /\ Goto(t, Over(t))
    /\ \/ t \in Foregrounds /\ foreground' = foreground - 1
       \/ t \in Backgrounds /\ UNCHANGED foreground
    /\ NotifyWaiters
    /\ UNCHANGED <<closed, free, queue, turn, turnQueue, page, outcome, stopper, overtaken>>

-----------------------------------------------------------------------------
(* Workers::generated_delivery, asset_delivery and authored *)

Deliver(t) ==
    /\ t \in Deliveries /\ pc[t] = "idle"
    /\ Enter(t)
    /\ Goto(t, "entered")
    /\ UNCHANGED <<closed, free, queue, turn, turnQueue, listening, page, outcome, stopper>>

\* The first look at closed.
Look(t) ==
    /\ t \in Deliveries /\ pc[t] = "entered"
    /\ Goto(t, IF closed THEN "released" ELSE "looked")
    /\ UNCHANGED <<closed, foreground, free, queue, turn, turnQueue, listening, page,
                   outcome, stopper, overtaken>>

\* acquire_owned.
Ask(t) ==
    /\ t \in Deliveries /\ pc[t] = "looked"
    /\ AcquireWorker(t, "permitted", "queued")
    /\ UNCHANGED <<closed, foreground, turn, turnQueue, listening, page, outcome, stopper, overtaken>>

Granted(t) ==
    /\ t \in Deliveries /\ pc[t] = "queued"
    /\ GrantedWorker(t)
    /\ Goto(t, "permitted")
    /\ UNCHANGED <<closed, foreground, turn, turnQueue, listening, page, outcome, stopper, overtaken>>

\* Mistake: closed is not looked at again under the permit.
RenderAnyway(t) ==
    /\ t \in Deliveries /\ pc[t] = "permitted"
    /\ Goto(t, "rendering")
    /\ UNCHANGED <<closed, foreground, free, queue, turn, turnQueue, listening, page,
                   outcome, stopper, overtaken>>

\* The second look, with the permit, and the start of the blocking render.
Render(t) ==
    /\ t \in Deliveries /\ pc[t] = "permitted"
    /\ \/ closed /\ free' = free + 1 /\ Goto(t, "released")
       \/ ~closed /\ Goto(t, "rendering") /\ UNCHANGED free
    /\ UNCHANGED <<closed, foreground, queue, turn, turnQueue, listening, page,
                   outcome, stopper, overtaken>>

\* The client goes away while the call waits: its future drops.
Disconnect(t) ==
    /\ t \in Deliveries /\ pc[t] = "queued"
    /\ queue' = RemoveFirst(queue, t)
    /\ Goto(t, "released")
    /\ UNCHANGED <<closed, foreground, free, turn, turnQueue, listening, page,
                   outcome, stopper, overtaken>>

\* A blocking render ends, with or without anybody who waits for it.
RenderEnds(t) ==
    /\ t \in Deliveries \cup Backgrounds /\ pc[t] = "rendering"
    /\ free' = free + 1
    /\ Goto(t, "released")
    /\ UNCHANGED <<closed, foreground, queue, turn, turnQueue, listening, page,
                   outcome, stopper, overtaken>>

-----------------------------------------------------------------------------
(* Workers::background_render *)

\* turn.acquire.
TakeTurn(t) ==
    /\ t \in Backgrounds
    /\ \/ /\ pc[t] = "idle" /\ turn = Free /\ turnQueue = <<>>
          /\ turn' = t /\ Goto(t, "turn")
          /\ UNCHANGED turnQueue
       \/ /\ pc[t] = "idle" /\ (turn # Free \/ turnQueue # <<>>)
          /\ turnQueue' = Append(turnQueue, t) /\ Goto(t, "turnQueued")
          /\ UNCHANGED turn
       \/ /\ pc[t] = "turnQueued" /\ turn = Free /\ Head(turnQueue) = t
          /\ turn' = t /\ turnQueue' = Tail(turnQueue) /\ Goto(t, "turn")
    /\ UNCHANGED <<closed, foreground, free, queue, listening, page, outcome, stopper, overtaken>>

\* changed.enable, before anything is looked at.
Listen(t) ==
    /\ pc[t] = "turn"
    /\ listening' = listening \cup {t}
    /\ Goto(t, "listening")
    /\ UNCHANGED <<closed, foreground, free, queue, turn, turnQueue, page, outcome, stopper, overtaken>>

LookClosed(t) ==
    /\ pc[t] = "listening"
    /\ \/ closed /\ turn' = Free /\ listening' = listening \ {t} /\ Goto(t, Over(t))
       \/ ~closed /\ Goto(t, "open") /\ UNCHANGED <<turn, listening>>
    /\ UNCHANGED <<closed, foreground, free, queue, turnQueue, page, outcome, stopper, overtaken>>

\* Mistake: a background render starts whatever the foreground does.
LookIdleNever(t) ==
    /\ pc[t] = "open"
    /\ Goto(t, "quiet")
    /\ UNCHANGED <<closed, foreground, free, queue, turn, turnQueue, listening, page,
                   outcome, stopper, overtaken>>

LookIdle(t) ==
    /\ pc[t] = "open"
    /\ Goto(t, IF foreground = 0 THEN "quiet" ELSE "waiting")
    /\ UNCHANGED <<closed, foreground, free, queue, turn, turnQueue, listening, page,
                   outcome, stopper, overtaken>>

\* Mistake: the notification is only listened to after the looks.
TryAcquireLate(t) ==
    /\ pc[t] = "quiet"
    /\ \/ /\ queue = <<>> /\ free > 0
          /\ free' = free - 1
          /\ turn' = Free /\ listening' = listening \ {t}
          /\ overtaken' = [f \in Foregrounds |->
                 IF f \in Guarded THEN overtaken[f] + 1 ELSE overtaken[f]]
          /\ Goto(t, "rendering")
       \/ /\ queue # <<>> \/ free = 0
          /\ listening' = listening \cup {t}
          /\ Goto(t, "waiting")
          /\ UNCHANGED <<free, turn, overtaken>>
    /\ UNCHANGED <<closed, foreground, queue, turnQueue, page, outcome, stopper>>

\* try_acquire_owned; with the permit the turn ends and the render starts.
TryAcquire(t) ==
    /\ pc[t] = "quiet"
    /\ \/ /\ queue = <<>> /\ free > 0
          /\ free' = free - 1
          /\ turn' = Free /\ listening' = listening \ {t}
          /\ overtaken' = [f \in Foregrounds |->
                 IF f \in Guarded THEN overtaken[f] + 1 ELSE overtaken[f]]
          /\ Goto(t, "rendering")
       \/ /\ queue # <<>> \/ free = 0
          /\ Goto(t, "waiting")
          /\ UNCHANGED <<free, turn, listening, overtaken>>
    /\ UNCHANGED <<closed, foreground, queue, turnQueue, page, outcome, stopper>>

\* changed.await returns and the loop starts over.
Again(t) ==
    /\ pc[t] = "waiting" /\ t \notin listening
    /\ Goto(t, "turn")
    /\ UNCHANGED <<closed, foreground, free, queue, turn, turnQueue, listening, page,
                   outcome, stopper, overtaken>>

\* A replacement or a stop drops the pass and with it the futures that wait.
DropPass(t) ==
    /\ t \in Backgrounds
    /\ \/ /\ pc[t] = "turnQueued"
          /\ turnQueue' = RemoveFirst(turnQueue, t)
          /\ UNCHANGED <<turn, listening>>
       \/ /\ pc[t] = "waiting"
          /\ turn' = Free /\ listening' = listening \ {t}
          /\ UNCHANGED turnQueue
    /\ Goto(t, Over(t))
    /\ UNCHANGED <<closed, foreground, free, queue, page, outcome, stopper, overtaken>>

-----------------------------------------------------------------------------
(* Workers::preview *)

Answer(j, how) == outcome' = [outcome EXCEPT ![j] = how]

\* The call's Notified future drops.
Deaf(j) == hearing' = hearing \ {j} /\ told' = told \ {j}

\* Mistake: a render does not keep its page.
HoldingCalls(p) ==
    {j \in Previews : PageOf[j] = p /\ pc[j] \notin {"idle", "done"} /\ outcome[j] = "none"}

\* Previews that keep their page alive: the call until it answers, the render
\* until it ends.
Holding(p) ==
    {j \in Previews :
        /\ PageOf[j] = p
        /\ \/ pc[j] = "rendering"
           \/ pc[j] \notin {"idle", "done"} /\ outcome[j] = "none"}

\* The revision's lease and closed are looked at, the page is found or made, and
\* the edit takes its number.
Number(j) ==
    LET p == PageOf[j] IN
    /\ pc[j] = "idle"
    /\ \/ /\ \/ Answer(j, "stale")
             \/ closed /\ Answer(j, "capacity")
          /\ Goto(j, Over(j))
          /\ UNCHANGED <<next, sequence, gate>>
       \/ /\ ~closed
          /\ LET edit == IF Holding(p) = {} THEN 1 ELSE next[p] + 1 IN
             /\ next' = [next EXCEPT ![p] = edit]
             /\ sequence' = [sequence EXCEPT ![j] = edit]
             /\ gate' = IF Holding(p) = {} THEN [gate EXCEPT ![p] = Free] ELSE gate
          /\ Answer(j, "none")
          /\ Goto(j, "numbered")
    /\ UNCHANGED <<closed, foreground, free, queue, turn, turnQueue, listening, gateQueue,
                   hearing, told, stopper, overtaken>>

\* page.changed.notify_waiters.
Announce(j) ==
    /\ pc[j] = "numbered"
    /\ told' = told \cup {i \in hearing : PageOf[i] = PageOf[j]}
    /\ Goto(j, "announced")
    /\ UNCHANGED <<closed, foreground, free, queue, turn, turnQueue, listening, next, gate,
                   gateQueue, sequence, hearing, outcome, stopper, overtaken>>

\* notified.enable.
Hear(j) ==
    /\ pc[j] = "announced"
    /\ hearing' = hearing \cup {j}
    /\ Goto(j, "begun")
    /\ UNCHANGED <<closed, foreground, free, queue, turn, turnQueue, listening, next, gate,
                   gateQueue, sequence, told, outcome, stopper, overtaken>>

\* Pages with a live ticket: all queued edits of a page share one.
Ticketed == {PageOf[j] : j \in {i \in Previews : pc[i] \in {"gateQueued", "gated", "workerQueued"}}}

\* The job's guard, its queue ticket and page.gate.acquire_owned.
Queue(j) ==
    LET p == PageOf[j] IN
    /\ pc[j] = "begun"
    /\ Enter(j)
    /\ \/ /\ p \notin Ticketed /\ Cardinality(Ticketed) = Tickets
          /\ Answer(j, "capacity")
          /\ Deaf(j)
          /\ Goto(j, "released")
          /\ UNCHANGED <<gate, gateQueue>>
       \/ /\ p \in Ticketed \/ Cardinality(Ticketed) < Tickets
          /\ \/ /\ gate[p] = Free /\ gateQueue[p] = <<>>
                /\ gate' = [gate EXCEPT ![p] = j]
                /\ Goto(j, "gated")
                /\ UNCHANGED gateQueue
             \/ /\ gate[p] # Free \/ gateQueue[p] # <<>>
                /\ gateQueue' = [gateQueue EXCEPT ![p] = Append(@, j)]
                /\ Goto(j, "gateQueued")
                /\ UNCHANGED gate
          /\ UNCHANGED <<outcome, hearing, told>>
    /\ UNCHANGED <<closed, free, queue, turn, turnQueue, listening, next, sequence, stopper>>

Gated(j) ==
    LET p == PageOf[j] IN
    /\ pc[j] = "gateQueued"
    /\ gate[p] = Free /\ Head(gateQueue[p]) = j
    /\ gate' = [gate EXCEPT ![p] = j]
    /\ gateQueue' = [gateQueue EXCEPT ![p] = Tail(@)]
    /\ Goto(j, "gated")
    /\ UNCHANGED <<closed, foreground, free, queue, turn, turnQueue, listening, next,
                   sequence, hearing, told, outcome, stopper, overtaken>>

\* workers.acquire_owned; the ticket drops with the permit.
AskPreview(j) ==
    /\ j \in Previews
    /\ \/ pc[j] = "gated" /\ AcquireWorker(j, "chosen", "workerQueued")
       \/ pc[j] = "workerQueued" /\ GrantedWorker(j) /\ Goto(j, "chosen")
    /\ UNCHANGED <<closed, foreground, turn, turnQueue, listening, page, outcome, stopper, overtaken>>

\* Mistake: an edit that was replaced while it waited renders all the same.
StartReplaced(j) ==
    /\ pc[j] = "chosen"
    /\ \/ /\ Answer(j, "stale")
          /\ free' = free + 1
          /\ gate' = [gate EXCEPT ![PageOf[j]] = Free]
          /\ Deaf(j)
          /\ Goto(j, "released")
       \/ /\ ~closed
          /\ Goto(j, "rendering")
          /\ UNCHANGED <<outcome, free, gate, hearing, told>>
    /\ UNCHANGED <<closed, foreground, queue, turn, turnQueue, listening, next, gateQueue,
                   sequence, stopper, overtaken>>

\* The last look, with both permits: closed, the lease and the edit's number.
Start(j) ==
    /\ pc[j] = "chosen"
    /\ \/ /\ Answer(j, "stale")
          /\ free' = free + 1
          /\ gate' = [gate EXCEPT ![PageOf[j]] = Free]
          /\ Deaf(j)
          /\ Goto(j, "released")
       \/ /\ ~closed /\ next[PageOf[j]] = sequence[j]
          /\ Goto(j, "rendering")
          /\ UNCHANGED <<outcome, free, gate, hearing, told>>
    /\ UNCHANGED <<closed, foreground, queue, turn, turnQueue, listening, next, gateQueue,
                   sequence, stopper, overtaken>>

\* The render's closure drops both permits; the answer, if anybody still waits.
PreviewEnds(j) ==
    /\ j \in Previews /\ pc[j] = "rendering"
    /\ free' = free + 1
    /\ gate' = [gate EXCEPT ![PageOf[j]] = Free]
    /\ Deaf(j)
    /\ \/ outcome[j] = "none" /\ \E how \in {"rendered", "failed", "capacity"} : Answer(j, how)
       \/ outcome[j] # "none" /\ UNCHANGED outcome
    /\ Goto(j, "released")
    /\ UNCHANGED <<closed, foreground, queue, turn, turnQueue, listening, next, gateQueue,
                   sequence, stopper, overtaken>>

\* The call ends before the job: a newer edit, ten seconds, or the client.  What
\* waits is dropped with its places and permits; a render goes on without the call.
GiveUp(j) ==
    LET p == PageOf[j] IN
    /\ outcome[j] = "none"
    /\ \/ /\ pc[j] \in {"gateQueued", "workerQueued", "rendering"}
          /\ Answer(j, "failed")
       \/ /\ pc[j] \in {"begun", "gateQueued", "workerQueued", "rendering"}
          /\ j \in told
          /\ Answer(j, "stale")
    /\ Deaf(j)
    /\ \/ pc[j] = "rendering" /\ UNCHANGED <<pc, queue, gate, gateQueue>>
       \/ pc[j] = "begun" /\ Goto(j, Over(j)) /\ UNCHANGED <<queue, gate, gateQueue>>
       \/ /\ pc[j] = "gateQueued" /\ Goto(j, "released")
          /\ gateQueue' = [gateQueue EXCEPT ![p] = RemoveFirst(@, j)]
          /\ UNCHANGED <<queue, gate>>
       \/ /\ pc[j] = "workerQueued" /\ Goto(j, "released")
          /\ queue' = RemoveFirst(queue, j)
          /\ gate' = [gate EXCEPT ![p] = Free]
          /\ UNCHANGED gateQueue
    /\ UNCHANGED <<closed, foreground, free, turn, turnQueue, listening, next, sequence,
                   stopper, overtaken>>

-----------------------------------------------------------------------------
(* Workers::stop.  It also empties the map of pages, which only spares memory:  *)
(* once closed no preview renders.                                              *)

Close ==
    /\ stopper = "idle"
    /\ closed' = TRUE
    /\ stopper' = "closed"
    /\ UNCHANGED <<foreground, free, queue, turn, turnQueue, listening, pc, page, outcome, overtaken>>

NotifyClosed ==
    /\ stopper = "closed"
    /\ NotifyWaiters
    /\ queue' = Append(queue, Stop)
    /\ stopper' = "draining"
    /\ UNCHANGED <<closed, foreground, free, turn, turnQueue, pc, page, outcome, overtaken>>

\* acquire_many_owned: every permit, given back at the end of stop.
Drained ==
    /\ stopper = "draining"
    /\ Head(queue) = Stop /\ free = Parallelism
    /\ queue' = Tail(queue)
    /\ stopper' = "stopped"
    /\ UNCHANGED <<closed, foreground, free, turn, turnQueue, listening, pc, page, outcome, overtaken>>

-----------------------------------------------------------------------------
DeliveryStep(t) == Look(t) \/ Ask(t) \/ Granted(t) \/ Render(t) \/ RenderEnds(t) \/ Unguard(t)

BackgroundStep(t) ==
    \/ TakeTurn(t) \/ Listen(t) \/ LookClosed(t) \/ LookIdle(t) \/ TryAcquire(t)
    \/ Again(t) \/ RenderEnds(t) \/ Unguard(t)

PreviewStep(j) ==
    \/ Announce(j) \/ Hear(j) \/ Queue(j) \/ Gated(j) \/ AskPreview(j) \/ Start(j)
    \/ PreviewEnds(j) \/ Unguard(j)

StopStep == NotifyClosed \/ Drained

Next ==
    \/ \E t \in Deliveries : Deliver(t) \/ DeliveryStep(t) \/ Disconnect(t)
    \/ \E t \in Backgrounds : BackgroundStep(t) \/ DropPass(t)
    \/ \E j \in Previews : Number(j) \/ PreviewStep(j) \/ GiveUp(j)
    \/ Close \/ StopStep

Spec == Init /\ [][Next]_vars

\* Tasks that can run do, renders end under the sidecar's deadlines, and the
\* semaphores are fair by themselves.  No request, edit or stop has to come, no
\* client to go away and no deadline to pass.
Fairness ==
    /\ \A t \in Deliveries : WF_vars(DeliveryStep(t))
    /\ \A t \in Backgrounds : WF_vars(pc[t] # "idle" /\ BackgroundStep(t))
    /\ \A j \in Previews : WF_vars(PreviewStep(j))
    /\ WF_vars(StopStep)

FairSpec == Spec /\ Fairness

-----------------------------------------------------------------------------
(* Properties *)

\* Calls with a worker's permit.
Permitted == {t \in Calls : pc[t] \in {"permitted", "chosen", "rendering"}}

\* Types, and that permits, guards and turns are with the calls that think so.
TypeOK ==
    /\ closed \in BOOLEAN
    /\ foreground = Cardinality(Guarded)
    /\ free = Parallelism - Cardinality(Permitted) /\ free >= 0
    /\ IsInjective(queue) /\ IsInjective(turnQueue)
    /\ ToSet(queue) = {t \in Calls : pc[t] \in {"queued", "workerQueued"}} \cup
                      (IF stopper = "draining" THEN {Stop} ELSE {})
    /\ ToSet(turnQueue) = {t \in Calls : pc[t] = "turnQueued"}
    /\ \A t \in Backgrounds :
         turn = t <=> pc[t] \in {"turn", "listening", "open", "quiet", "waiting"}
    /\ \A p \in Pages : ToSet(gateQueue[p]) =
         {j \in Previews : PageOf[j] = p /\ pc[j] = "gateQueued"}
    /\ \A p \in Pages : gate[p] # Free =>
         /\ gate[p] \in Previews /\ PageOf[gate[p]] = p
         /\ pc[gate[p]] \in {"gated", "workerQueued", "chosen", "rendering"}
    /\ hearing \subseteq Previews /\ told \subseteq Previews
    /\ outcome \in [Previews -> {"none", "rendered", "failed", "stale", "capacity"}]
    /\ stopper \in {"idle", "closed", "draining", "stopped"}

\* While a foreground call lasts, at most the one background render that had
\* looked before is still admitted (idle() and try_acquire are two steps).
OvertakenAtMostOnce == \A t \in Guarded : overtaken[t] <= 1

\* After stop no foreground render runs or starts.  (A background render that
\* looked at closed before the stop may start after it: it does not look again.)
ForegroundDrained ==
    stopper = "stopped" => \A t \in Foregrounds : pc[t] # "rendering"

\* "Serialize one page's active preview" (work_page.rs:10), also when the call
\* that started it timed out and the page was asked for again.
OnePreviewPerPage ==
    \A i, j \in Previews :
        pc[i] = "rendering" /\ pc[j] = "rendering" /\ PageOf[i] = PageOf[j] => i = j

\* An edit does not render once a newer one of its page has.
EditsInOrder ==
    [][\A i, j \in Previews :
         /\ pc[i] = "chosen" /\ pc'[i] = "rendering"
         /\ PageOf[i] = PageOf[j] /\ j \in Holding(PageOf[j])
         => sequence[j] <= sequence[i]]_vars

\* A delivery is answered however many background renders keep coming, and every
\* edit is.
ForegroundAnswered == \A t \in Foregrounds : t \in Guarded ~> t \notin Guarded

\* Background renders go on when the foreground leaves.
BackgroundRenders == \A t \in Backgrounds : pc[t] = "waiting" ~> pc[t] # "waiting"

\* stop returns.
StopReturns == stopper = "closed" ~> stopper = "stopped"

\* Every call comes to its end, whatever the others do: the three together.
CallsReturn == ForegroundAnswered /\ BackgroundRenders /\ StopReturns
=============================================================================
