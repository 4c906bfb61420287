------------------------ MODULE Publication_proofs -------------------------
(***************************************************************************)
(* Theorems about the public state of `mokly serve`, for any number of     *)
(* routes, heads, refs and attempts.                                       *)
(***************************************************************************)
EXTENDS Publication, TLAPS

-----------------------------------------------------------------------------
(* The inductive invariant *)

\* One lease lives: that of the revision shown, until the state is closed.
Leases == leases = IF closed THEN {} ELSE {snapshot.revision}

\* A rebuild under way has a head newer than the one shown, and nothing classified.
Ahead ==
    /\ snapshot.documents <= newest
    /\ pc["rebuild"] # "idle" =>
         /\ snapshot.documents < candidate.documents /\ candidate.documents <= newest
         /\ candidate.status = "pending" /\ candidate.changes = NoChanges

\* One attempt at a time: the pass starts one when the last has ended.
OneAttempt == pc["pass"] \in {"watch", "drain"} \/ pc["attempt"] = "ended"

\* What an attempt aims at where it is; with a base pinned unless it just began.
Aiming ==
    /\ pc["attempt"] = "prepare" => attempt.goal = "first"
    /\ pc["attempt"] = "prepared" => attempt.goal = "preparing"
    /\ pc["attempt"] \in {"compare", "check"} => attempt.goal = "again"
    /\ pc["attempt"] = "publish" => attempt.goal \in {"again", "ready"}
    /\ attempt.goal \in {"preparing", "again", "ready"} =>
         attempt.base \in Refs /\ attempt.refs \in Refs

\* The state is closed from the close on, and no build is under way after it.
Fence ==
    /\ closed <=> pc["shutdown"] \in {"builds", "task", "done"}
    /\ pc["shutdown"] \in {"task", "done"} => build = Free

\* A classification about to be shown has its metadata in the store and builds on
\* a snapshot of its head.
Building ==
    pc["attempt"] \in {"install", "commit"} =>
        /\ held["attempt"].documents = attempt.documents
        /\ pc["attempt"] = "commit" /\ attempt.goal = "ready" => attempt.id \in installed

\* Where refs never return, what was read earlier and is read again was there in between.
Tips ==
    /\ ~RefsReturn => refs \notin past
    /\ attempt.refs \in past \cup {refs, Broken}
    /\ queued \in past \cup {refs, Broken}
    /\ attempt.goal \in {"preparing", "again", "ready"} =>
         attempt.base = attempt.refs \/ attempt.refs \in past
    /\ Watching /\ ~RefsReturn /\ (pc["attempt"] = "publish" \/ attempt.goal = "ready") =>
         attempt.base = attempt.refs

\* A permit is stored for the task of the queue while there is something to take.
Noticed == (pending.origin # 0 \/ pending.closed) /\ pc["queue"] # "ended" => ready

IInv ==
    /\ TypeOK /\ Leases /\ Ahead /\ OneAttempt /\ Aiming /\ Fence /\ Building /\ Tips
    /\ ShownWithItsHead /\ Noticed

-----------------------------------------------------------------------------
(* The invariant is inductive *)

LEMMA FirstTyped == First \in Snapshots
BY PublicationAssumption DEF First, Snapshots, Statuses, Heads

\* The rebuild coordinator.
LEMMA PrepareInv == ASSUME IInv, Prepare PROVE IInv'
<1> USE PublicationAssumption DEF IInv, Prepare, Goto, state, documents, queue, pass, store, git
<1>1. TypeOK'
  <2>1. snapshot' \in Snapshots
    BY DEF TypeOK
  <2>2. candidate' \in Snapshots
    BY DEF TypeOK, Snapshots, Statuses, Heads
  <2>3. pc' \in Phases
    BY DEF TypeOK, Phases
  <2>4. /\ build' \in Recorders \cup {"attempt", Free}
        /\ build' = "queue" <=> pc'["queue"] \in Calling
        /\ build' = "pass" <=> pc'["pass"] \in Calling
        /\ build' = "attempt" <=> pc'["attempt"] \in {"install", "commit", "reoffer"}
    BY DEF OneAttempt, TypeOK, Phases, Recorders, Calling
  <2>5. held' \in [Recorders \cup {"attempt"} -> Snapshots]
    BY FirstTyped DEF TypeOK, Recorders
  <2>6. call' \in [Recorders -> [origin : Heads, todo : SUBSET Routes, updates : SUBSET Routes]]
    BY DEF TypeOK, Recorders, NoCall, Heads
  <2>7. attempt' \in [id : Nat, documents : Heads, refs : Refs \cup {Broken},
                       base : Refs \cup {Broken},
                       goal : {"first", "again", "preparing", "ready", "unavailable"}]
    BY DEF TypeOK
  <2> QED
    BY <2>1, <2>2, <2>3, <2>4, <2>5, <2>6, <2>7 DEF TypeOK, Heads
<1>2. Leases'
  BY DEF Leases, TypeOK, Snapshots
<1>3. Ahead'
  BY DEF Ahead, TypeOK, Phases, Snapshots, Heads
<1>4. Aiming'
  BY DEF Aiming, OneAttempt, TypeOK, Phases
<1>5. OneAttempt'
  BY DEF OneAttempt, TypeOK, Phases
<1>6. Fence'
  BY DEF Fence, OneAttempt, TypeOK, Phases, Recorders, Calling
<1>7. Building'
  BY DEF Building, OneAttempt, TypeOK, Phases, Recorders
<1>8. Tips'
  BY DEF Tips, TypeOK, Phases
<1>9. ShownWithItsHead'
  BY DEF ShownWithItsHead, TypeOK, Phases
<1>10. Noticed'
  BY DEF Noticed, TypeOK, Phases
<1> QED
  BY <1>1, <1>2, <1>3, <1>4, <1>5, <1>6, <1>7, <1>8, <1>9, <1>10

LEMMA CheckActiveInv == ASSUME IInv, CheckActive PROVE IInv'
<1> USE PublicationAssumption DEF IInv, CheckActive, EndRebuild, Active, Goto, state, documents, queue, pass, store, git
<1>1. TypeOK'
  <2>1. snapshot' \in Snapshots
    BY DEF TypeOK
  <2>2. candidate' \in Snapshots
    BY FirstTyped DEF TypeOK
  <2>3. pc' \in Phases
    BY DEF TypeOK, Phases
  <2>4. /\ build' \in Recorders \cup {"attempt", Free}
        /\ build' = "queue" <=> pc'["queue"] \in Calling
        /\ build' = "pass" <=> pc'["pass"] \in Calling
        /\ build' = "attempt" <=> pc'["attempt"] \in {"install", "commit", "reoffer"}
    BY DEF OneAttempt, TypeOK, Phases, Recorders, Calling
  <2>5. held' \in [Recorders \cup {"attempt"} -> Snapshots]
    BY FirstTyped DEF TypeOK, Recorders
  <2>6. call' \in [Recorders -> [origin : Heads, todo : SUBSET Routes, updates : SUBSET Routes]]
    BY DEF TypeOK, Recorders, NoCall, Heads
  <2>7. attempt' \in [id : Nat, documents : Heads, refs : Refs \cup {Broken},
                       base : Refs \cup {Broken},
                       goal : {"first", "again", "preparing", "ready", "unavailable"}]
    BY DEF TypeOK
  <2> QED
    BY <2>1, <2>2, <2>3, <2>4, <2>5, <2>6, <2>7 DEF TypeOK, Heads
<1>2. Leases'
  BY DEF Leases, TypeOK, Snapshots
<1>3. Ahead'
  BY DEF Ahead, TypeOK, Phases, Snapshots, Heads
<1>4. Aiming'
  BY DEF Aiming, OneAttempt, TypeOK, Phases
<1>5. OneAttempt'
  BY DEF OneAttempt, TypeOK, Phases
<1>6. Fence'
  BY DEF Fence, OneAttempt, TypeOK, Phases, Recorders, Calling
<1>7. Building'
  BY DEF Building, OneAttempt, TypeOK, Phases, Recorders
<1>8. Tips'
  BY DEF Tips, TypeOK, Phases
<1>9. ShownWithItsHead'
  BY DEF ShownWithItsHead, TypeOK, Phases
<1>10. Noticed'
  BY DEF Noticed, TypeOK, Phases
<1> QED
  BY <1>1, <1>2, <1>3, <1>4, <1>5, <1>6, <1>7, <1>8, <1>9, <1>10

LEMMA ReplaceInv == ASSUME IInv, Replace PROVE IInv'
<1> USE PublicationAssumption DEF IInv, Replace, Publish, EndRebuild, Goto, state, documents, queue, pass, store, git
<1>1. TypeOK'
  <2>1. snapshot' \in Snapshots
    BY DEF TypeOK
  <2>2. candidate' \in Snapshots
    BY FirstTyped DEF TypeOK
  <2>3. pc' \in Phases
    BY DEF TypeOK, Phases
  <2>4. /\ build' \in Recorders \cup {"attempt", Free}
        /\ build' = "queue" <=> pc'["queue"] \in Calling
        /\ build' = "pass" <=> pc'["pass"] \in Calling
        /\ build' = "attempt" <=> pc'["attempt"] \in {"install", "commit", "reoffer"}
    BY DEF OneAttempt, TypeOK, Phases, Recorders, Calling
  <2>5. held' \in [Recorders \cup {"attempt"} -> Snapshots]
    BY FirstTyped DEF TypeOK, Recorders
  <2>6. call' \in [Recorders -> [origin : Heads, todo : SUBSET Routes, updates : SUBSET Routes]]
    BY DEF TypeOK, Recorders, NoCall, Heads
  <2>7. attempt' \in [id : Nat, documents : Heads, refs : Refs \cup {Broken},
                       base : Refs \cup {Broken},
                       goal : {"first", "again", "preparing", "ready", "unavailable"}]
    BY DEF TypeOK
  <2>8. leases' \subseteq Nat
    BY DEF TypeOK, Snapshots
  <2> QED
    BY <2>1, <2>2, <2>3, <2>4, <2>5, <2>6, <2>7, <2>8 DEF TypeOK, Heads
<1>2. Leases'
  BY DEF Leases, TypeOK, Snapshots
<1>3. Ahead'
  BY DEF Ahead, TypeOK, Phases, Snapshots, Heads
<1>4. Aiming'
  BY DEF Aiming, OneAttempt, TypeOK, Phases
<1>5. OneAttempt'
  BY DEF OneAttempt, TypeOK, Phases
<1>6. Fence'
  BY DEF Fence, OneAttempt, TypeOK, Phases, Recorders, Calling
<1>7. Building'
  BY DEF Building, OneAttempt, TypeOK, Phases, Recorders
<1>8. Tips'
  BY DEF Tips, TypeOK, Phases
<1>9. ShownWithItsHead'
  BY DEF ShownWithItsHead, Ahead, TypeOK, Phases
<1>10. Noticed'
  BY DEF Noticed, TypeOK, Phases
<1> QED
  BY <1>1, <1>2, <1>3, <1>4, <1>5, <1>6, <1>7, <1>8, <1>9, <1>10

LEMMA RestampInv == ASSUME IInv, Restamp PROVE IInv'
<1> USE PublicationAssumption DEF IInv, Restamp, EndRebuild, Goto, state, documents, queue, pass, store, git
<1>1. TypeOK'
  <2>1. snapshot' \in Snapshots
    BY DEF TypeOK
  <2>2. candidate' \in Snapshots
    BY FirstTyped DEF TypeOK, Snapshots
  <2>3. pc' \in Phases
    BY DEF TypeOK, Phases
  <2>4. /\ build' \in Recorders \cup {"attempt", Free}
        /\ build' = "queue" <=> pc'["queue"] \in Calling
        /\ build' = "pass" <=> pc'["pass"] \in Calling
        /\ build' = "attempt" <=> pc'["attempt"] \in {"install", "commit", "reoffer"}
    BY DEF OneAttempt, TypeOK, Phases, Recorders, Calling
  <2>5. held' \in [Recorders \cup {"attempt"} -> Snapshots]
    BY FirstTyped DEF TypeOK, Recorders
  <2>6. call' \in [Recorders -> [origin : Heads, todo : SUBSET Routes, updates : SUBSET Routes]]
    BY DEF TypeOK, Recorders, NoCall, Heads
  <2>7. attempt' \in [id : Nat, documents : Heads, refs : Refs \cup {Broken},
                       base : Refs \cup {Broken},
                       goal : {"first", "again", "preparing", "ready", "unavailable"}]
    BY DEF TypeOK
  <2> QED
    BY <2>1, <2>2, <2>3, <2>4, <2>5, <2>6, <2>7 DEF TypeOK, Heads
<1>2. Leases'
  BY DEF Leases, TypeOK, Snapshots
<1>3. Ahead'
  <2>1. CASE candidate' = First /\ pc' = [pc EXCEPT !["rebuild"] = "idle"]
    BY <2>1 DEF Ahead, TypeOK, Phases
  <2>2. CASE /\ candidate' = [candidate EXCEPT !.revision = snapshot.revision + 1]
             /\ pc' = [pc EXCEPT !["rebuild"] = "check"]
    <3>1. candidate'.documents = candidate.documents /\ candidate'.status = candidate.status
          /\ candidate'.changes = candidate.changes
      BY <2>2 DEF TypeOK, Snapshots
    <3> QED
      BY <2>2, <3>1 DEF Ahead, TypeOK, Phases
  <2> QED
    BY <2>1, <2>2
<1>4. Aiming'
  BY DEF Aiming, OneAttempt, TypeOK, Phases
<1>5. OneAttempt'
  BY DEF OneAttempt, TypeOK, Phases
<1>6. Fence'
  BY DEF Fence, OneAttempt, TypeOK, Phases, Recorders, Calling
<1>7. Building'
  BY DEF Building, OneAttempt, TypeOK, Phases, Recorders
<1>8. Tips'
  BY DEF Tips, TypeOK, Phases
<1>9. ShownWithItsHead'
  BY DEF ShownWithItsHead, TypeOK, Phases
<1>10. Noticed'
  BY DEF Noticed, TypeOK, Phases
<1> QED
  BY <1>1, <1>2, <1>3, <1>4, <1>5, <1>6, <1>7, <1>8, <1>9, <1>10

\* Documents and the completion queue.
LEMMA StartRenderInv == ASSUME IInv, NEW r \in Routes, StartRender(r) PROVE IInv'
<1> USE PublicationAssumption DEF IInv, StartRender, state, documents, queue, pass, store, git
<1>1. TypeOK'
  <2>1. snapshot' \in Snapshots
    BY DEF TypeOK
  <2>2. candidate' \in Snapshots
    BY FirstTyped DEF TypeOK
  <2>3. pc' \in Phases
    BY DEF TypeOK, Phases
  <2>4. /\ build' \in Recorders \cup {"attempt", Free}
        /\ build' = "queue" <=> pc'["queue"] \in Calling
        /\ build' = "pass" <=> pc'["pass"] \in Calling
        /\ build' = "attempt" <=> pc'["attempt"] \in {"install", "commit", "reoffer"}
    BY DEF OneAttempt, TypeOK, Phases, Recorders, Calling
  <2>5. held' \in [Recorders \cup {"attempt"} -> Snapshots]
    BY FirstTyped DEF TypeOK, Recorders
  <2>6. call' \in [Recorders -> [origin : Heads, todo : SUBSET Routes, updates : SUBSET Routes]]
    BY DEF TypeOK, Recorders, NoCall, Heads
  <2>7. attempt' \in [id : Nat, documents : Heads, refs : Refs \cup {Broken},
                       base : Refs \cup {Broken},
                       goal : {"first", "again", "preparing", "ready", "unavailable"}]
    BY DEF TypeOK
  <2>8. rendering' \subseteq Heads \X Routes
    BY DEF TypeOK, Snapshots, Heads
  <2> QED
    BY <2>1, <2>2, <2>3, <2>4, <2>5, <2>6, <2>7, <2>8 DEF TypeOK, Heads
<1>2. Leases'
  BY DEF Leases, TypeOK, Snapshots
<1>3. Ahead'
  BY DEF Ahead, TypeOK, Phases, Snapshots, Heads
<1>4. Aiming'
  BY DEF Aiming, OneAttempt, TypeOK, Phases
<1>5. OneAttempt'
  BY DEF OneAttempt, TypeOK, Phases
<1>6. Fence'
  BY DEF Fence, OneAttempt, TypeOK, Phases, Recorders, Calling
<1>7. Building'
  BY DEF Building, OneAttempt, TypeOK, Phases, Recorders
<1>8. Tips'
  BY DEF Tips, TypeOK, Phases
<1>9. ShownWithItsHead'
  BY DEF ShownWithItsHead, TypeOK, Phases
<1>10. Noticed'
  BY DEF Noticed, TypeOK, Phases
<1> QED
  BY <1>1, <1>2, <1>3, <1>4, <1>5, <1>6, <1>7, <1>8, <1>9, <1>10

LEMMA EndRenderInv == ASSUME IInv, NEW d \in 1..MaxHeads, NEW r \in Routes, EndRender(d, r) PROVE IInv'
<1> USE PublicationAssumption DEF IInv, EndRender, state, documents, queue, pass, store, git
<1>1. TypeOK'
  <2>1. snapshot' \in Snapshots
    BY DEF TypeOK
  <2>2. candidate' \in Snapshots
    BY FirstTyped DEF TypeOK
  <2>3. pc' \in Phases
    BY DEF TypeOK, Phases
  <2>4. /\ build' \in Recorders \cup {"attempt", Free}
        /\ build' = "queue" <=> pc'["queue"] \in Calling
        /\ build' = "pass" <=> pc'["pass"] \in Calling
        /\ build' = "attempt" <=> pc'["attempt"] \in {"install", "commit", "reoffer"}
    BY DEF OneAttempt, TypeOK, Phases, Recorders, Calling
  <2>5. held' \in [Recorders \cup {"attempt"} -> Snapshots]
    BY FirstTyped DEF TypeOK, Recorders
  <2>6. call' \in [Recorders -> [origin : Heads, todo : SUBSET Routes, updates : SUBSET Routes]]
    BY DEF TypeOK, Recorders, NoCall, Heads
  <2>7. attempt' \in [id : Nat, documents : Heads, refs : Refs \cup {Broken},
                       base : Refs \cup {Broken},
                       goal : {"first", "again", "preparing", "ready", "unavailable"}]
    BY DEF TypeOK
  <2>8. usage' \in [Heads -> SUBSET Routes]
    BY DEF TypeOK, Heads
  <2>9. rendering' \subseteq Heads \X Routes
    BY DEF TypeOK
  <2> QED
    BY <2>1, <2>2, <2>3, <2>4, <2>5, <2>6, <2>7, <2>8, <2>9 DEF TypeOK, Heads
<1>2. Leases'
  BY DEF Leases, TypeOK, Snapshots
<1>3. Ahead'
  BY DEF Ahead, TypeOK, Phases, Snapshots, Heads
<1>4. Aiming'
  BY DEF Aiming, OneAttempt, TypeOK, Phases
<1>5. OneAttempt'
  BY DEF OneAttempt, TypeOK, Phases
<1>6. Fence'
  BY DEF Fence, OneAttempt, TypeOK, Phases, Recorders, Calling
<1>7. Building'
  BY DEF Building, OneAttempt, TypeOK, Phases, Recorders
<1>8. Tips'
  BY DEF Tips, TypeOK, Phases
<1>9. ShownWithItsHead'
  BY DEF ShownWithItsHead, TypeOK, Phases
<1>10. Noticed'
  BY DEF Noticed, TypeOK, Phases
<1> QED
  BY <1>1, <1>2, <1>3, <1>4, <1>5, <1>6, <1>7, <1>8, <1>9, <1>10

LEMMA CompletedInv == ASSUME IInv, NEW d \in 1..MaxHeads, NEW r \in Routes, Completed(d, r) PROVE IInv'
<1> USE PublicationAssumption DEF IInv, Completed, state, documents, queue, pass, store, git
<1>1. TypeOK'
  <2>1. snapshot' \in Snapshots
    BY DEF TypeOK
  <2>2. candidate' \in Snapshots
    BY FirstTyped DEF TypeOK
  <2>3. pc' \in Phases
    BY DEF TypeOK, Phases
  <2>4. /\ build' \in Recorders \cup {"attempt", Free}
        /\ build' = "queue" <=> pc'["queue"] \in Calling
        /\ build' = "pass" <=> pc'["pass"] \in Calling
        /\ build' = "attempt" <=> pc'["attempt"] \in {"install", "commit", "reoffer"}
    BY DEF OneAttempt, TypeOK, Phases, Recorders, Calling
  <2>5. held' \in [Recorders \cup {"attempt"} -> Snapshots]
    BY FirstTyped DEF TypeOK, Recorders
  <2>6. call' \in [Recorders -> [origin : Heads, todo : SUBSET Routes, updates : SUBSET Routes]]
    BY DEF TypeOK, Recorders, NoCall, Heads
  <2>7. attempt' \in [id : Nat, documents : Heads, refs : Refs \cup {Broken},
                       base : Refs \cup {Broken},
                       goal : {"first", "again", "preparing", "ready", "unavailable"}]
    BY DEF TypeOK
  <2>8. pending' \in [closed : BOOLEAN, origin : 0..MaxHeads, routes : SUBSET Routes]
    <3>1. PICK routes \in SUBSET Routes : pending' = [pending EXCEPT !.origin = d, !.routes = routes]
      BY DEF TypeOK
    <3>2. d \in 0..MaxHeads
      OBVIOUS
    <3> QED
      BY <3>1, <3>2 DEF TypeOK
  <2> QED
    BY <2>1, <2>2, <2>3, <2>4, <2>5, <2>6, <2>7, <2>8 DEF TypeOK, Heads
<1>2. Leases'
  BY DEF Leases, TypeOK, Snapshots
<1>3. Ahead'
  BY DEF Ahead, TypeOK, Phases, Snapshots, Heads
<1>4. Aiming'
  BY DEF Aiming, OneAttempt, TypeOK, Phases
<1>5. OneAttempt'
  BY DEF OneAttempt, TypeOK, Phases
<1>6. Fence'
  BY DEF Fence, OneAttempt, TypeOK, Phases, Recorders, Calling
<1>7. Building'
  BY DEF Building, OneAttempt, TypeOK, Phases, Recorders
<1>8. Tips'
  BY DEF Tips, TypeOK, Phases
<1>9. ShownWithItsHead'
  BY DEF ShownWithItsHead, TypeOK, Phases
<1>10. Noticed'
  BY DEF Noticed, TypeOK, Phases
<1> QED
  BY <1>1, <1>2, <1>3, <1>4, <1>5, <1>6, <1>7, <1>8, <1>9, <1>10

LEMMA TakeBatchInv == ASSUME IInv, TakeBatch PROVE IInv'
<1> USE PublicationAssumption DEF IInv, TakeBatch, Goto, state, documents, queue, pass, store, git
<1>1. TypeOK'
  <2>1. snapshot' \in Snapshots
    BY DEF TypeOK
  <2>2. candidate' \in Snapshots
    BY FirstTyped DEF TypeOK
  <2>3. pc' \in Phases
    BY DEF TypeOK, Phases
  <2>4. /\ build' \in Recorders \cup {"attempt", Free}
        /\ build' = "queue" <=> pc'["queue"] \in Calling
        /\ build' = "pass" <=> pc'["pass"] \in Calling
        /\ build' = "attempt" <=> pc'["attempt"] \in {"install", "commit", "reoffer"}
    BY DEF OneAttempt, TypeOK, Phases, Recorders, Calling
  <2>5. held' \in [Recorders \cup {"attempt"} -> Snapshots]
    BY FirstTyped DEF TypeOK, Recorders
  <2>6. call' \in [Recorders -> [origin : Heads, todo : SUBSET Routes, updates : SUBSET Routes]]
    <3>1. CASE call' = call
      BY <3>1 DEF TypeOK
    <3>2. CASE call' # call
      <4>1. pending.origin \in 1..MaxHeads /\ pending.routes \in SUBSET Routes
        BY <3>2 DEF TypeOK
      <4> QED
        BY <3>2, <4>1 DEF TypeOK, Recorders, Heads
    <3> QED
      BY <3>1, <3>2
  <2>7. attempt' \in [id : Nat, documents : Heads, refs : Refs \cup {Broken},
                       base : Refs \cup {Broken},
                       goal : {"first", "again", "preparing", "ready", "unavailable"}]
    BY DEF TypeOK
  <2>8. pending' \in [closed : BOOLEAN, origin : 0..MaxHeads, routes : SUBSET Routes]
    <3>1. pending' = pending \/ pending' = [pending EXCEPT !.origin = 0, !.routes = {}]
      OBVIOUS
    <3>2. 0 \in 0..MaxHeads
      OBVIOUS
    <3> QED
      BY <3>1, <3>2 DEF TypeOK
  <2> QED
    BY <2>1, <2>2, <2>3, <2>4, <2>5, <2>6, <2>7, <2>8 DEF TypeOK, Heads
<1>2. Leases'
  BY DEF Leases, TypeOK, Snapshots
<1>3. Ahead'
  BY DEF Ahead, TypeOK, Phases, Snapshots, Heads
<1>4. Aiming'
  BY DEF Aiming, OneAttempt, TypeOK, Phases
<1>5. OneAttempt'
  BY DEF OneAttempt, TypeOK, Phases
<1>6. Fence'
  BY DEF Fence, OneAttempt, TypeOK, Phases, Recorders, Calling
<1>7. Building'
  BY DEF Building, OneAttempt, TypeOK, Phases, Recorders
<1>8. Tips'
  BY DEF Tips, TypeOK, Phases
<1>9. ShownWithItsHead'
  BY DEF ShownWithItsHead, TypeOK, Phases
<1>10. Noticed'
  BY DEF Noticed, TypeOK, Phases
<1> QED
  BY <1>1, <1>2, <1>3, <1>4, <1>5, <1>6, <1>7, <1>8, <1>9, <1>10

\* SharedPublication::completed_many.
LEMMA EnterInv == ASSUME IInv, NEW c \in Recorders, Enter(c) PROVE IInv'
<1> USE PublicationAssumption DEF IInv, Enter, Returned, Goto, Recorders, Calling, state, documents, queue, pass, store, git
<1>1. TypeOK'
  <2>1. snapshot' \in Snapshots
    BY DEF TypeOK
  <2>2. candidate' \in Snapshots
    BY FirstTyped DEF TypeOK
  <2>3. pc' \in Phases
    BY DEF TypeOK, Phases
  <2>4. /\ build' \in Recorders \cup {"attempt", Free}
        /\ build' = "queue" <=> pc'["queue"] \in Calling
        /\ build' = "pass" <=> pc'["pass"] \in Calling
        /\ build' = "attempt" <=> pc'["attempt"] \in {"install", "commit", "reoffer"}
    BY DEF OneAttempt, TypeOK, Phases, Recorders, Calling
  <2>5. held' \in [Recorders \cup {"attempt"} -> Snapshots]
    BY FirstTyped DEF TypeOK, Recorders
  <2>6. call' \in [Recorders -> [origin : Heads, todo : SUBSET Routes, updates : SUBSET Routes]]
    <3>1. call[c] \in [origin : Heads, todo : SUBSET Routes, updates : SUBSET Routes] /\ NoCall \in [origin : Heads, todo : SUBSET Routes, updates : SUBSET Routes]
      BY PublicationAssumption DEF TypeOK, NoCall, Heads
    <3>3. [call[c] EXCEPT !.todo = @ \ snapshot.completed]
               \in [origin : Heads, todo : SUBSET Routes, updates : SUBSET Routes]
      BY <3>1 DEF TypeOK
    <3>4. call' = call \/ call' = [call EXCEPT ![c] = NoCall]
          \/ call' = [call EXCEPT ![c] = [call[c] EXCEPT !.todo = @ \ snapshot.completed]]
      BY <3>1
    <3> QED
      BY <3>1, <3>3, <3>4 DEF TypeOK
  <2>7. attempt' \in [id : Nat, documents : Heads, refs : Refs \cup {Broken},
                       base : Refs \cup {Broken},
                       goal : {"first", "again", "preparing", "ready", "unavailable"}]
    BY DEF TypeOK
  <2> QED
    BY <2>1, <2>2, <2>3, <2>4, <2>5, <2>6, <2>7 DEF TypeOK, Heads
<1>2. Leases'
  BY DEF Leases, TypeOK, Snapshots
<1>3. Ahead'
  BY DEF Ahead, TypeOK, Phases, Snapshots, Heads
<1>4. Aiming'
  BY DEF Aiming, OneAttempt, TypeOK, Phases
<1>5. OneAttempt'
  BY DEF OneAttempt, TypeOK, Phases
<1>6. Fence'
  BY DEF Fence, OneAttempt, TypeOK, Phases, Recorders, Calling
<1>7. Building'
  BY DEF Building, OneAttempt, TypeOK, Phases, Recorders
<1>8. Tips'
  BY DEF Tips, TypeOK, Phases
<1>9. ShownWithItsHead'
  BY DEF ShownWithItsHead, TypeOK, Phases
<1>10. Noticed'
  BY DEF Noticed, TypeOK, Phases
<1> QED
  BY <1>1, <1>2, <1>3, <1>4, <1>5, <1>6, <1>7, <1>8, <1>9, <1>10

LEMMA GatherInv == ASSUME IInv, NEW c \in Recorders, Gather(c) PROVE IInv'
<1> USE PublicationAssumption DEF IInv, Gather, Goto, Recorders, Calling, state, documents, queue, pass, store, git
<1>1. TypeOK'
  <2>1. snapshot' \in Snapshots
    BY DEF TypeOK
  <2>2. candidate' \in Snapshots
    BY FirstTyped DEF TypeOK
  <2>3. pc' \in Phases
    <3>1. pc' = pc \/ pc' = [pc EXCEPT ![c] = "read"]
      OBVIOUS
    <3> QED
      BY <3>1 DEF TypeOK, Phases
  <2>4. /\ build' \in Recorders \cup {"attempt", Free}
        /\ build' = "queue" <=> pc'["queue"] \in Calling
        /\ build' = "pass" <=> pc'["pass"] \in Calling
        /\ build' = "attempt" <=> pc'["attempt"] \in {"install", "commit", "reoffer"}
    BY DEF OneAttempt, TypeOK, Phases, Recorders, Calling
  <2>5. held' \in [Recorders \cup {"attempt"} -> Snapshots]
    BY FirstTyped DEF TypeOK, Recorders
  <2>6. call' \in [Recorders -> [origin : Heads, todo : SUBSET Routes, updates : SUBSET Routes]]
    <3>1. call[c] \in [origin : Heads, todo : SUBSET Routes, updates : SUBSET Routes]
      BY DEF TypeOK
    <3>2. CASE call' = call
      BY <3>2 DEF TypeOK
    <3>3. CASE \E r \in call[c].todo : call' = [call EXCEPT
                 ![c].todo = @ \ {r},
                 ![c].updates = @ \cup (usage[call[c].origin] \cap {r})]
      <4>1. PICK r \in call[c].todo : call' = [call EXCEPT
                 ![c].todo = @ \ {r},
                 ![c].updates = @ \cup (usage[call[c].origin] \cap {r})]
        BY <3>3
      <4>2. call[c].todo \ {r} \in SUBSET Routes
            /\ call[c].updates \cup (usage[call[c].origin] \cap {r}) \in SUBSET Routes
        BY <3>1
      <4>3. [call[c] EXCEPT !.todo = @ \ {r},
                            !.updates = @ \cup (usage[call[c].origin] \cap {r})]
               \in [origin : Heads, todo : SUBSET Routes, updates : SUBSET Routes]
        BY <3>1, <4>2
      <4> QED
        BY <4>1, <4>3 DEF TypeOK
    <3> QED
      BY <3>2, <3>3
  <2>7. attempt' \in [id : Nat, documents : Heads, refs : Refs \cup {Broken},
                       base : Refs \cup {Broken},
                       goal : {"first", "again", "preparing", "ready", "unavailable"}]
    BY DEF TypeOK
  <2> QED
    BY <2>1, <2>2, <2>3, <2>4, <2>5, <2>6, <2>7 DEF TypeOK, Heads
<1>2. Leases'
  BY DEF Leases, TypeOK, Snapshots
<1>3. Ahead'
  BY DEF Ahead, TypeOK, Phases, Snapshots, Heads
<1>4. Aiming'
  BY DEF Aiming, OneAttempt, TypeOK, Phases
<1>5. OneAttempt'
  BY DEF OneAttempt, TypeOK, Phases
<1>6. Fence'
  <2>1. pc' = pc \/ pc' = [pc EXCEPT ![c] = "read"]
    OBVIOUS
  <2>2. pc'["shutdown"] = pc["shutdown"]
    BY <2>1 DEF TypeOK, Phases
  <2>3. UNCHANGED <<closed, build>>
    OBVIOUS
  <2> QED
    BY <2>2, <2>3 DEF Fence
<1>7. Building'
  BY DEF Building, OneAttempt, TypeOK, Phases, Recorders
<1>8. Tips'
  BY DEF Tips, TypeOK, Phases
<1>9. ShownWithItsHead'
  BY DEF ShownWithItsHead, TypeOK, Phases
<1>10. Noticed'
  BY DEF Noticed, TypeOK, Phases
<1> QED
  BY <1>1, <1>2, <1>3, <1>4, <1>5, <1>6, <1>7, <1>8, <1>9, <1>10

LEMMA ReadInv == ASSUME IInv, NEW c \in Recorders, Read(c) PROVE IInv'
<1> USE PublicationAssumption DEF IInv, Read, Return, Returned, Goto, Recorders, Calling, state, documents, queue, pass, store, git
<1>1. TypeOK'
  <2>1. snapshot' \in Snapshots
    BY DEF TypeOK
  <2>2. candidate' \in Snapshots
    BY FirstTyped DEF TypeOK
  <2>3. pc' \in Phases
    BY DEF TypeOK, Phases
  <2>4. /\ build' \in Recorders \cup {"attempt", Free}
        /\ build' = "queue" <=> pc'["queue"] \in Calling
        /\ build' = "pass" <=> pc'["pass"] \in Calling
        /\ build' = "attempt" <=> pc'["attempt"] \in {"install", "commit", "reoffer"}
    BY DEF OneAttempt, TypeOK, Phases, Recorders, Calling
  <2>5. held' \in [Recorders \cup {"attempt"} -> Snapshots]
    BY FirstTyped DEF TypeOK, Recorders
  <2>6. call' \in [Recorders -> [origin : Heads, todo : SUBSET Routes, updates : SUBSET Routes]]
    BY DEF TypeOK, Recorders, Heads, NoCall
  <2>7. attempt' \in [id : Nat, documents : Heads, refs : Refs \cup {Broken},
                       base : Refs \cup {Broken},
                       goal : {"first", "again", "preparing", "ready", "unavailable"}]
    BY DEF TypeOK
  <2> QED
    BY <2>1, <2>2, <2>3, <2>4, <2>5, <2>6, <2>7 DEF TypeOK, Heads
<1>2. Leases'
  BY DEF Leases, TypeOK, Snapshots
<1>3. Ahead'
  BY DEF Ahead, TypeOK, Phases, Snapshots, Heads
<1>4. Aiming'
  BY DEF Aiming, OneAttempt, TypeOK, Phases
<1>5. OneAttempt'
  BY DEF OneAttempt, TypeOK, Phases
<1>6. Fence'
  BY DEF Fence, OneAttempt, TypeOK, Phases, Recorders, Calling
<1>7. Building'
  BY DEF Building, OneAttempt, TypeOK, Phases, Recorders
<1>8. Tips'
  BY DEF Tips, TypeOK, Phases
<1>9. ShownWithItsHead'
  BY DEF ShownWithItsHead, TypeOK, Phases
<1>10. Noticed'
  BY DEF Noticed, TypeOK, Phases
<1> QED
  BY <1>1, <1>2, <1>3, <1>4, <1>5, <1>6, <1>7, <1>8, <1>9, <1>10

LEMMA RecordInv == ASSUME IInv, NEW c \in Recorders, Record(c) PROVE IInv'
<1> USE PublicationAssumption DEF IInv, Record, Return, Returned, Publish, Complete, Goto, Recorders, Calling, state, documents, queue, pass, store, git
<1>0. /\ snapshot' \in Snapshots /\ UNCHANGED closed
      /\ snapshot'.documents = snapshot.documents /\ snapshot'.status = snapshot.status
      /\ snapshot'.changes = snapshot.changes
      /\ \/ UNCHANGED leases /\ snapshot'.revision = snapshot.revision
         \/ ~closed /\ leases' = (leases \ {snapshot.revision}) \cup {snapshot'.revision}
  <2>1. call[c].updates \in SUBSET Routes
    BY DEF TypeOK
  <2>2. CASE UNCHANGED state
    BY <2>2 DEF TypeOK
  <2>3. CASE ~UNCHANGED state
    <3>1. ~closed /\ snapshot = held[c] /\ UNCHANGED closed
      BY <2>3
    <3>2. PICK revision \in Nat :
            /\ snapshot' = [snapshot EXCEPT !.completed = @ \cup call[c].updates,
                                          !.revision = revision]
            /\ \/ UNCHANGED leases /\ revision = snapshot.revision
               \/ leases' = (leases \ {snapshot.revision}) \cup {revision}
      <4>1. CASE Publish(Complete(held[c], call[c].updates, TRUE))
        <5>1. snapshot' = [snapshot EXCEPT !.completed = @ \cup call[c].updates,
                                           !.revision = @ + 1]
          BY <3>1, <4>1
        <5>2. leases' = (leases \ {snapshot.revision}) \cup {snapshot'.revision}
          BY <4>1
        <5>3. snapshot'.revision = snapshot.revision + 1 /\ snapshot.revision + 1 \in Nat
          BY <5>1 DEF TypeOK, Snapshots
        <5> QED
          BY <5>1, <5>2, <5>3
      <4>2. CASE /\ snapshot' = Complete(held[c], call[c].updates, FALSE)
                 /\ UNCHANGED <<closed, leases>>
        BY <3>1, <4>2 DEF TypeOK, Snapshots
      <4> QED
        BY <2>3, <3>1, <4>1, <4>2
    <3> QED
      BY <2>1, <3>1, <3>2 DEF TypeOK, Snapshots
  <2> QED
    BY <2>2, <2>3
<1>1. TypeOK'
  <2>1. snapshot' \in Snapshots
    BY <1>0 DEF TypeOK
  <2>2. candidate' \in Snapshots
    BY FirstTyped DEF TypeOK
  <2>3. pc' \in Phases
    BY DEF TypeOK, Phases
  <2>4. /\ build' \in Recorders \cup {"attempt", Free}
        /\ build' = "queue" <=> pc'["queue"] \in Calling
        /\ build' = "pass" <=> pc'["pass"] \in Calling
        /\ build' = "attempt" <=> pc'["attempt"] \in {"install", "commit", "reoffer"}
    BY DEF OneAttempt, TypeOK, Phases, Recorders, Calling
  <2>5. held' \in [Recorders \cup {"attempt"} -> Snapshots]
    BY FirstTyped DEF TypeOK, Recorders
  <2>6. call' \in [Recorders -> [origin : Heads, todo : SUBSET Routes, updates : SUBSET Routes]]
    BY DEF TypeOK, Recorders, Heads, NoCall
  <2>7. attempt' \in [id : Nat, documents : Heads, refs : Refs \cup {Broken},
                       base : Refs \cup {Broken},
                       goal : {"first", "again", "preparing", "ready", "unavailable"}]
    BY DEF TypeOK
  <2>8. leases' \subseteq Nat
    BY DEF TypeOK, Snapshots
  <2> QED
    BY <2>1, <2>2, <2>3, <2>4, <2>5, <2>6, <2>7, <2>8 DEF TypeOK, Heads
<1>2. Leases'
  BY <1>0 DEF Leases
<1>3. Ahead'
  BY <1>0 DEF Ahead, TypeOK, Phases
<1>4. Aiming'
  BY DEF Aiming, OneAttempt, TypeOK, Phases
<1>5. OneAttempt'
  BY DEF OneAttempt, TypeOK, Phases
<1>6. Fence'
  BY DEF Fence, OneAttempt, TypeOK, Phases, Recorders, Calling
<1>7. Building'
  BY DEF Building, OneAttempt, TypeOK, Phases, Recorders
<1>8. Tips'
  BY DEF Tips, TypeOK, Phases
<1>9. ShownWithItsHead'
  BY <1>0 DEF ShownWithItsHead
<1>10. Noticed'
  BY DEF Noticed, TypeOK, Phases
<1> QED
  BY <1>1, <1>2, <1>3, <1>4, <1>5, <1>6, <1>7, <1>8, <1>9, <1>10

\* UsagePass and ChangesPass.
LEMMA LookInv == ASSUME IInv, Look PROVE IInv'
<1> USE PublicationAssumption DEF IInv, Look, Stopped, Goto, state, documents, queue, pass, store, git
<1>1. TypeOK'
  <2>1. snapshot' \in Snapshots
    BY DEF TypeOK
  <2>2. candidate' \in Snapshots
    BY FirstTyped DEF TypeOK
  <2>3. pc' \in Phases
    BY DEF TypeOK, Phases
  <2>4. /\ build' \in Recorders \cup {"attempt", Free}
        /\ build' = "queue" <=> pc'["queue"] \in Calling
        /\ build' = "pass" <=> pc'["pass"] \in Calling
        /\ build' = "attempt" <=> pc'["attempt"] \in {"install", "commit", "reoffer"}
    BY DEF OneAttempt, TypeOK, Phases, Recorders, Calling
  <2>5. held' \in [Recorders \cup {"attempt"} -> Snapshots]
    BY FirstTyped DEF TypeOK, Recorders
  <2>6. call' \in [Recorders -> [origin : Heads, todo : SUBSET Routes, updates : SUBSET Routes]]
    BY DEF TypeOK, Recorders, NoCall, Heads
  <2>7. attempt' \in [id : Nat, documents : Heads, refs : Refs \cup {Broken},
                       base : Refs \cup {Broken},
                       goal : {"first", "again", "preparing", "ready", "unavailable"}]
    BY DEF TypeOK
  <2>8. origin' \in Heads
    BY DEF TypeOK, Snapshots
  <2> QED
    BY <2>1, <2>2, <2>3, <2>4, <2>5, <2>6, <2>7, <2>8 DEF TypeOK, Heads
<1>2. Leases'
  BY DEF Leases, TypeOK, Snapshots
<1>3. Ahead'
  BY DEF Ahead, TypeOK, Phases, Snapshots, Heads
<1>4. Aiming'
  BY DEF Aiming, OneAttempt, TypeOK, Phases
<1>5. OneAttempt'
  BY DEF OneAttempt, TypeOK, Phases
<1>6. Fence'
  BY DEF Fence, OneAttempt, TypeOK, Phases, Recorders, Calling
<1>7. Building'
  BY DEF Building, OneAttempt, TypeOK, Phases, Recorders
<1>8. Tips'
  BY DEF Tips, TypeOK, Phases
<1>9. ShownWithItsHead'
  BY DEF ShownWithItsHead, TypeOK, Phases
<1>10. Noticed'
  BY DEF Noticed, TypeOK, Phases
<1> QED
  BY <1>1, <1>2, <1>3, <1>4, <1>5, <1>6, <1>7, <1>8, <1>9, <1>10

LEMMA FilledInv == ASSUME IInv, Filled PROVE IInv'
<1> USE PublicationAssumption DEF IInv, Filled, Goto, state, documents, queue, pass, store, git
<1>1. TypeOK'
  <2>1. snapshot' \in Snapshots
    BY DEF TypeOK
  <2>2. candidate' \in Snapshots
    BY FirstTyped DEF TypeOK
  <2>3. pc' \in Phases
    BY DEF TypeOK, Phases
  <2>4. /\ build' \in Recorders \cup {"attempt", Free}
        /\ build' = "queue" <=> pc'["queue"] \in Calling
        /\ build' = "pass" <=> pc'["pass"] \in Calling
        /\ build' = "attempt" <=> pc'["attempt"] \in {"install", "commit", "reoffer"}
    BY DEF OneAttempt, TypeOK, Phases, Recorders, Calling
  <2>5. held' \in [Recorders \cup {"attempt"} -> Snapshots]
    BY FirstTyped DEF TypeOK, Recorders
  <2>6. call' \in [Recorders -> [origin : Heads, todo : SUBSET Routes, updates : SUBSET Routes]]
    BY PublicationAssumption DEF TypeOK, Recorders, Heads
  <2>7. attempt' \in [id : Nat, documents : Heads, refs : Refs \cup {Broken},
                       base : Refs \cup {Broken},
                       goal : {"first", "again", "preparing", "ready", "unavailable"}]
    BY DEF TypeOK
  <2> QED
    BY <2>1, <2>2, <2>3, <2>4, <2>5, <2>6, <2>7 DEF TypeOK, Heads
<1>2. Leases'
  BY DEF Leases, TypeOK, Snapshots
<1>3. Ahead'
  BY DEF Ahead, TypeOK, Phases, Snapshots, Heads
<1>4. Aiming'
  BY DEF Aiming, OneAttempt, TypeOK, Phases
<1>5. OneAttempt'
  BY DEF OneAttempt, TypeOK, Phases
<1>6. Fence'
  BY DEF Fence, OneAttempt, TypeOK, Phases, Recorders, Calling
<1>7. Building'
  BY DEF Building, OneAttempt, TypeOK, Phases, Recorders
<1>8. Tips'
  BY DEF Tips, TypeOK, Phases
<1>9. ShownWithItsHead'
  BY DEF ShownWithItsHead, TypeOK, Phases
<1>10. Noticed'
  BY DEF Noticed, TypeOK, Phases
<1> QED
  BY <1>1, <1>2, <1>3, <1>4, <1>5, <1>6, <1>7, <1>8, <1>9, <1>10

LEMMA RecordedInv == ASSUME IInv, Recorded PROVE IInv'
<1> USE PublicationAssumption DEF IInv, Recorded, Begin, Goto, state, documents, queue, pass, store, git
<1>1. TypeOK'
  <2>1. snapshot' \in Snapshots
    BY DEF TypeOK
  <2>2. candidate' \in Snapshots
    BY FirstTyped DEF TypeOK
  <2>3. pc' \in Phases
    BY DEF TypeOK, Phases
  <2>4. /\ build' \in Recorders \cup {"attempt", Free}
        /\ build' = "queue" <=> pc'["queue"] \in Calling
        /\ build' = "pass" <=> pc'["pass"] \in Calling
        /\ build' = "attempt" <=> pc'["attempt"] \in {"install", "commit", "reoffer"}
    BY DEF OneAttempt, TypeOK, Phases, Recorders, Calling
  <2>5. held' \in [Recorders \cup {"attempt"} -> Snapshots]
    BY FirstTyped DEF TypeOK, Recorders
  <2>6. call' \in [Recorders -> [origin : Heads, todo : SUBSET Routes, updates : SUBSET Routes]]
    BY DEF TypeOK, Recorders, NoCall, Heads
  <2>7. attempt' \in [id : Nat, documents : Heads, refs : Refs \cup {Broken},
                       base : Refs \cup {Broken},
                       goal : {"first", "again", "preparing", "ready", "unavailable"}]
    BY DEF TypeOK, Joined, Begin
  <2> QED
    BY <2>1, <2>2, <2>3, <2>4, <2>5, <2>6, <2>7 DEF TypeOK, Heads
<1>2. Leases'
  BY DEF Leases, TypeOK, Snapshots
<1>3. Ahead'
  BY DEF Ahead, TypeOK, Phases, Snapshots, Heads
<1>4. Aiming'
  BY DEF Aiming, OneAttempt, TypeOK, Phases
<1>5. OneAttempt'
  BY DEF OneAttempt, TypeOK, Phases
<1>6. Fence'
  BY DEF Fence, OneAttempt, TypeOK, Phases, Recorders, Calling
<1>7. Building'
  BY DEF Building, OneAttempt, TypeOK, Phases, Recorders
<1>8. Tips'
  BY DEF Tips, TypeOK, Phases
<1>9. ShownWithItsHead'
  BY DEF ShownWithItsHead, TypeOK, Phases
<1>10. Noticed'
  BY DEF Noticed, TypeOK, Phases
<1> QED
  BY <1>1, <1>2, <1>3, <1>4, <1>5, <1>6, <1>7, <1>8, <1>9, <1>10

LEMMA WatchInv == ASSUME IInv, Watch PROVE IInv'
<1> USE PublicationAssumption DEF IInv, Watch, Joined, Goto, state, documents, queue, pass, store, git
<1>1. TypeOK'
  <2>1. snapshot' \in Snapshots
    BY DEF TypeOK
  <2>2. candidate' \in Snapshots
    BY FirstTyped DEF TypeOK
  <2>3. pc' \in Phases
    BY DEF TypeOK, Phases
  <2>4. /\ build' \in Recorders \cup {"attempt", Free}
        /\ build' = "queue" <=> pc'["queue"] \in Calling
        /\ build' = "pass" <=> pc'["pass"] \in Calling
        /\ build' = "attempt" <=> pc'["attempt"] \in {"install", "commit", "reoffer"}
    BY DEF OneAttempt, TypeOK, Phases, Recorders, Calling
  <2>5. held' \in [Recorders \cup {"attempt"} -> Snapshots]
    BY FirstTyped DEF TypeOK, Recorders
  <2>6. call' \in [Recorders -> [origin : Heads, todo : SUBSET Routes, updates : SUBSET Routes]]
    BY DEF TypeOK, Recorders, NoCall, Heads
  <2>7. attempt' \in [id : Nat, documents : Heads, refs : Refs \cup {Broken},
                       base : Refs \cup {Broken},
                       goal : {"first", "again", "preparing", "ready", "unavailable"}]
    BY DEF TypeOK, Joined, Begin
  <2> QED
    BY <2>1, <2>2, <2>3, <2>4, <2>5, <2>6, <2>7 DEF TypeOK, Heads
<1>2. Leases'
  BY DEF Leases, TypeOK, Snapshots
<1>3. Ahead'
  BY DEF Ahead, TypeOK, Phases, Snapshots, Heads
<1>4. Aiming'
  BY DEF Aiming, OneAttempt, TypeOK, Phases
<1>5. OneAttempt'
  BY DEF OneAttempt, TypeOK, Phases
<1>6. Fence'
  BY DEF Fence, OneAttempt, TypeOK, Phases, Recorders, Calling
<1>7. Building'
  BY DEF Building, OneAttempt, TypeOK, Phases, Recorders
<1>8. Tips'
  BY DEF Tips, TypeOK, Phases
<1>9. ShownWithItsHead'
  BY DEF ShownWithItsHead, TypeOK, Phases
<1>10. Noticed'
  BY DEF Noticed, TypeOK, Phases
<1> QED
  BY <1>1, <1>2, <1>3, <1>4, <1>5, <1>6, <1>7, <1>8, <1>9, <1>10

LEMMA DrainInv == ASSUME IInv, Drain PROVE IInv'
<1> USE PublicationAssumption DEF IInv, Drain, Goto, state, documents, queue, pass, store, git
<1>0. attempt'.goal = "first" /\ attempt'.base = Broken
      /\ attempt'.id \in Nat /\ attempt'.documents \in Heads
      /\ attempt'.refs \in {attempt.refs, queued}
  <2>1. CASE Joined
    BY <2>1 DEF Joined, TypeOK
  <2>2. CASE Begin(queued)
    BY <2>2 DEF Begin, TypeOK
  <2> QED
    BY <2>1, <2>2
<1>a. attempt' = [id |-> attempt'.id, documents |-> attempt'.documents,
                  refs |-> attempt'.refs, base |-> attempt'.base, goal |-> attempt'.goal]
  <2>1. CASE Joined
    BY <2>1 DEF Joined, TypeOK
  <2>2. CASE Begin(queued)
    BY <2>2 DEF Begin, TypeOK
  <2> QED
    BY <2>1, <2>2
<1>b. \/ pc' = [pc EXCEPT !["pass"] = "look"]
      \/ pc' = [pc EXCEPT !["pass"] = "watch", !["attempt"] = "offer"]
  BY DEF Begin
<1> USE DEF Begin, Joined
<1>1. TypeOK'
  <2>1. snapshot' \in Snapshots
    BY DEF TypeOK
  <2>2. candidate' \in Snapshots
    BY FirstTyped DEF TypeOK
  <2>3. pc' \in Phases
    BY DEF TypeOK, Phases
  <2>4. /\ build' \in Recorders \cup {"attempt", Free}
        /\ build' = "queue" <=> pc'["queue"] \in Calling
        /\ build' = "pass" <=> pc'["pass"] \in Calling
        /\ build' = "attempt" <=> pc'["attempt"] \in {"install", "commit", "reoffer"}
    BY DEF OneAttempt, TypeOK, Phases, Recorders, Calling
  <2>5. held' \in [Recorders \cup {"attempt"} -> Snapshots]
    BY FirstTyped DEF TypeOK, Recorders
  <2>6. call' \in [Recorders -> [origin : Heads, todo : SUBSET Routes, updates : SUBSET Routes]]
    BY DEF TypeOK, Recorders, NoCall, Heads
  <2>7. attempt' \in [id : Nat, documents : Heads, refs : Refs \cup {Broken},
                       base : Refs \cup {Broken},
                       goal : {"first", "again", "preparing", "ready", "unavailable"}]
    BY <1>0, <1>a, <1>b DEF TypeOK
  <2> QED
    BY <2>1, <2>2, <2>3, <2>4, <2>5, <2>6, <2>7 DEF TypeOK, Heads
<1>2. Leases'
  BY DEF Leases, TypeOK, Snapshots
<1>3. Ahead'
  BY DEF Ahead, TypeOK, Phases, Snapshots, Heads
<1>4. Aiming'
  BY <1>0, <1>a, <1>b DEF Aiming, OneAttempt, TypeOK, Phases
<1>5. OneAttempt'
  BY DEF OneAttempt, TypeOK, Phases
<1>6. Fence'
  BY DEF Fence, OneAttempt, TypeOK, Phases, Recorders, Calling
<1>7. Building'
  BY <1>0, <1>a, <1>b DEF Building, OneAttempt, TypeOK, Phases, Recorders
<1>8. Tips'
  BY <1>0, <1>a, <1>b DEF Tips, TypeOK, Phases
<1>9. ShownWithItsHead'
  BY DEF ShownWithItsHead, TypeOK, Phases
<1>10. Noticed'
  BY DEF Noticed, TypeOK, Phases
<1> QED
  BY <1>1, <1>2, <1>3, <1>4, <1>5, <1>6, <1>7, <1>8, <1>9, <1>10

LEMMA SettledInv == ASSUME IInv, Settled PROVE IInv'
<1> USE PublicationAssumption DEF IInv, Settled, Begin, Goto, state, documents, queue, pass, store, git
<1>1. TypeOK'
  <2>1. snapshot' \in Snapshots
    BY DEF TypeOK
  <2>2. candidate' \in Snapshots
    BY FirstTyped DEF TypeOK
  <2>3. pc' \in Phases
    BY DEF TypeOK, Phases
  <2>4. /\ build' \in Recorders \cup {"attempt", Free}
        /\ build' = "queue" <=> pc'["queue"] \in Calling
        /\ build' = "pass" <=> pc'["pass"] \in Calling
        /\ build' = "attempt" <=> pc'["attempt"] \in {"install", "commit", "reoffer"}
    BY DEF OneAttempt, TypeOK, Phases, Recorders, Calling
  <2>5. held' \in [Recorders \cup {"attempt"} -> Snapshots]
    BY FirstTyped DEF TypeOK, Recorders
  <2>6. call' \in [Recorders -> [origin : Heads, todo : SUBSET Routes, updates : SUBSET Routes]]
    BY DEF TypeOK, Recorders, NoCall, Heads
  <2>7. attempt' \in [id : Nat, documents : Heads, refs : Refs \cup {Broken},
                       base : Refs \cup {Broken},
                       goal : {"first", "again", "preparing", "ready", "unavailable"}]
    BY DEF TypeOK, Joined, Begin
  <2> QED
    BY <2>1, <2>2, <2>3, <2>4, <2>5, <2>6, <2>7 DEF TypeOK, Heads
<1>2. Leases'
  BY DEF Leases, TypeOK, Snapshots
<1>3. Ahead'
  BY DEF Ahead, TypeOK, Phases, Snapshots, Heads
<1>4. Aiming'
  BY DEF Aiming, OneAttempt, TypeOK, Phases
<1>5. OneAttempt'
  BY DEF OneAttempt, TypeOK, Phases
<1>6. Fence'
  BY DEF Fence, OneAttempt, TypeOK, Phases, Recorders, Calling
<1>7. Building'
  BY DEF Building, OneAttempt, TypeOK, Phases, Recorders
<1>8. Tips'
  BY DEF Tips, TypeOK, Phases
<1>9. ShownWithItsHead'
  BY DEF ShownWithItsHead, TypeOK, Phases
<1>10. Noticed'
  BY DEF Noticed, TypeOK, Phases
<1> QED
  BY <1>1, <1>2, <1>3, <1>4, <1>5, <1>6, <1>7, <1>8, <1>9, <1>10

\* The attempt.
LEMMA OfferInv == ASSUME IInv, Offer PROVE IInv'
<1> USE PublicationAssumption DEF IInv, Offer, Answer, After, Goto, state, documents, queue, pass, store, git
<1>1. TypeOK'
  <2>1. snapshot' \in Snapshots
    BY DEF TypeOK
  <2>2. candidate' \in Snapshots
    BY FirstTyped DEF TypeOK
  <2>3. pc' \in Phases
    BY DEF TypeOK, Phases
  <2>4. /\ build' \in Recorders \cup {"attempt", Free}
        /\ build' = "queue" <=> pc'["queue"] \in Calling
        /\ build' = "pass" <=> pc'["pass"] \in Calling
        /\ build' = "attempt" <=> pc'["attempt"] \in {"install", "commit", "reoffer"}
    BY DEF OneAttempt, TypeOK, Phases, Recorders, Calling
  <2>5. held' \in [Recorders \cup {"attempt"} -> Snapshots]
    BY FirstTyped DEF TypeOK, Recorders
  <2>6. call' \in [Recorders -> [origin : Heads, todo : SUBSET Routes, updates : SUBSET Routes]]
    BY DEF TypeOK, Recorders, NoCall, Heads
  <2>7. attempt' \in [id : Nat, documents : Heads, refs : Refs \cup {Broken},
                       base : Refs \cup {Broken},
                       goal : {"first", "again", "preparing", "ready", "unavailable"}]
    BY DEF TypeOK
  <2> QED
    BY <2>1, <2>2, <2>3, <2>4, <2>5, <2>6, <2>7 DEF TypeOK, Heads
<1>2. Leases'
  BY DEF Leases, TypeOK, Snapshots
<1>3. Ahead'
  BY DEF Ahead, TypeOK, Phases, Snapshots, Heads
<1>4. Aiming'
  BY DEF Aiming, OneAttempt, TypeOK, Phases
<1>5. OneAttempt'
  BY DEF OneAttempt, TypeOK, Phases
<1>6. Fence'
  BY DEF Fence, OneAttempt, TypeOK, Phases, Recorders, Calling
<1>7. Building'
  BY DEF Building, Current, OneAttempt, TypeOK, Phases, Recorders
<1>8. Tips'
  BY DEF Tips, TypeOK, Phases
<1>9. ShownWithItsHead'
  BY DEF ShownWithItsHead, TypeOK, Phases
<1>10. Noticed'
  BY DEF Noticed, TypeOK, Phases
<1> QED
  BY <1>1, <1>2, <1>3, <1>4, <1>5, <1>6, <1>7, <1>8, <1>9, <1>10

LEMMA InstallInv == ASSUME IInv, Install PROVE IInv'
<1> USE PublicationAssumption DEF IInv, Install, Answer, After, Goto, state, documents, queue, pass, store, git
<1>1. TypeOK'
  <2>1. snapshot' \in Snapshots
    BY DEF TypeOK
  <2>2. candidate' \in Snapshots
    BY FirstTyped DEF TypeOK
  <2>3. pc' \in Phases
    BY DEF TypeOK, Phases
  <2>4. /\ build' \in Recorders \cup {"attempt", Free}
        /\ build' = "queue" <=> pc'["queue"] \in Calling
        /\ build' = "pass" <=> pc'["pass"] \in Calling
        /\ build' = "attempt" <=> pc'["attempt"] \in {"install", "commit", "reoffer"}
    BY DEF OneAttempt, TypeOK, Phases, Recorders, Calling
  <2>5. held' \in [Recorders \cup {"attempt"} -> Snapshots]
    BY FirstTyped DEF TypeOK, Recorders
  <2>6. call' \in [Recorders -> [origin : Heads, todo : SUBSET Routes, updates : SUBSET Routes]]
    BY DEF TypeOK, Recorders, NoCall, Heads
  <2>7. attempt' \in [id : Nat, documents : Heads, refs : Refs \cup {Broken},
                       base : Refs \cup {Broken},
                       goal : {"first", "again", "preparing", "ready", "unavailable"}]
    BY DEF TypeOK
  <2>8. installed' \subseteq Nat /\ room' \in BOOLEAN
    BY DEF TypeOK
  <2> QED
    BY <2>1, <2>2, <2>3, <2>4, <2>5, <2>6, <2>7, <2>8 DEF TypeOK, Heads
<1>2. Leases'
  BY DEF Leases, TypeOK, Snapshots
<1>3. Ahead'
  BY DEF Ahead, TypeOK, Phases, Snapshots, Heads
<1>4. Aiming'
  BY DEF Aiming, OneAttempt, TypeOK, Phases
<1>5. OneAttempt'
  BY DEF OneAttempt, TypeOK, Phases
<1>6. Fence'
  BY DEF Fence, OneAttempt, TypeOK, Phases, Recorders, Calling
<1>7. Building'
  BY DEF Building, OneAttempt, TypeOK, Phases, Recorders
<1>8. Tips'
  BY DEF Tips, TypeOK, Phases
<1>9. ShownWithItsHead'
  BY DEF ShownWithItsHead, TypeOK, Phases
<1>10. Noticed'
  BY DEF Noticed, TypeOK, Phases
<1> QED
  BY <1>1, <1>2, <1>3, <1>4, <1>5, <1>6, <1>7, <1>8, <1>9, <1>10

LEMMA ClassifyInv == ASSUME IInv, Classify PROVE IInv'
<1> USE PublicationAssumption DEF IInv, Classify, Aim, Goto, state, documents, queue, pass, store, git
<1>0. /\ attempt'.refs = attempt.refs /\ UNCHANGED <<refs, past, queued>>
      /\ \/ pc'["attempt"] = "failed" /\ UNCHANGED attempt
         \/ /\ pc'["attempt"] = "offer" /\ attempt'.goal \in {"preparing", "again"}
            /\ attempt'.base = refs /\ Broken \notin {attempt.refs, refs}
         \/ /\ pc'["attempt"] = "offer" /\ attempt'.goal = "again"
            /\ attempt.goal = "preparing" /\ attempt'.base = attempt.base
         \/ pc'["attempt"] = "check" /\ attempt.goal = "again" /\ UNCHANGED attempt
  BY DEF TypeOK, Phases, Aiming
<1>1. TypeOK'
  <2>1. snapshot' \in Snapshots
    BY DEF TypeOK
  <2>2. candidate' \in Snapshots
    BY FirstTyped DEF TypeOK
  <2>3. pc' \in Phases
    BY DEF TypeOK, Phases
  <2>4. /\ build' \in Recorders \cup {"attempt", Free}
        /\ build' = "queue" <=> pc'["queue"] \in Calling
        /\ build' = "pass" <=> pc'["pass"] \in Calling
        /\ build' = "attempt" <=> pc'["attempt"] \in {"install", "commit", "reoffer"}
    BY DEF OneAttempt, TypeOK, Phases, Recorders, Calling
  <2>5. held' \in [Recorders \cup {"attempt"} -> Snapshots]
    BY FirstTyped DEF TypeOK, Recorders
  <2>6. call' \in [Recorders -> [origin : Heads, todo : SUBSET Routes, updates : SUBSET Routes]]
    BY DEF TypeOK, Recorders, NoCall, Heads
  <2>7. attempt' \in [id : Nat, documents : Heads, refs : Refs \cup {Broken},
                       base : Refs \cup {Broken},
                       goal : {"first", "again", "preparing", "ready", "unavailable"}]
    BY DEF TypeOK
  <2> QED
    BY <2>1, <2>2, <2>3, <2>4, <2>5, <2>6, <2>7 DEF TypeOK, Heads
<1>2. Leases'
  BY DEF Leases, TypeOK, Snapshots
<1>3. Ahead'
  BY DEF Ahead, TypeOK, Phases, Snapshots, Heads
<1>4. Aiming'
  BY <1>0 DEF Aiming, TypeOK
<1>5. OneAttempt'
  BY DEF OneAttempt, TypeOK, Phases
<1>6. Fence'
  BY DEF Fence, OneAttempt, TypeOK, Phases, Recorders, Calling
<1>7. Building'
  BY DEF Building, OneAttempt, TypeOK, Phases, Recorders
<1>8. Tips'
  BY <1>0 DEF Tips
<1>9. ShownWithItsHead'
  BY DEF ShownWithItsHead, TypeOK, Phases
<1>10. Noticed'
  BY DEF Noticed, TypeOK, Phases
<1> QED
  BY <1>1, <1>2, <1>3, <1>4, <1>5, <1>6, <1>7, <1>8, <1>9, <1>10

LEMMA CheckInv == ASSUME IInv, Check PROVE IInv'
<1> USE PublicationAssumption DEF IInv, Check, Goto, state, documents, queue, pass, store, git
<1>1. TypeOK'
  <2>1. snapshot' \in Snapshots
    BY DEF TypeOK
  <2>2. candidate' \in Snapshots
    BY FirstTyped DEF TypeOK
  <2>3. pc' \in Phases
    BY DEF TypeOK, Phases
  <2>4. /\ build' \in Recorders \cup {"attempt", Free}
        /\ build' = "queue" <=> pc'["queue"] \in Calling
        /\ build' = "pass" <=> pc'["pass"] \in Calling
        /\ build' = "attempt" <=> pc'["attempt"] \in {"install", "commit", "reoffer"}
    BY DEF OneAttempt, TypeOK, Phases, Recorders, Calling
  <2>5. held' \in [Recorders \cup {"attempt"} -> Snapshots]
    BY FirstTyped DEF TypeOK, Recorders
  <2>6. call' \in [Recorders -> [origin : Heads, todo : SUBSET Routes, updates : SUBSET Routes]]
    BY DEF TypeOK, Recorders, NoCall, Heads
  <2>7. attempt' \in [id : Nat, documents : Heads, refs : Refs \cup {Broken},
                       base : Refs \cup {Broken},
                       goal : {"first", "again", "preparing", "ready", "unavailable"}]
    BY DEF TypeOK
  <2> QED
    BY <2>1, <2>2, <2>3, <2>4, <2>5, <2>6, <2>7 DEF TypeOK, Heads
<1>2. Leases'
  BY DEF Leases, TypeOK, Snapshots
<1>3. Ahead'
  BY DEF Ahead, TypeOK, Phases, Snapshots, Heads
<1>4. Aiming'
  BY DEF Aiming, OneAttempt, TypeOK, Phases
<1>5. OneAttempt'
  BY DEF OneAttempt, TypeOK, Phases
<1>6. Fence'
  BY DEF Fence, OneAttempt, TypeOK, Phases, Recorders, Calling
<1>7. Building'
  BY DEF Building, OneAttempt, TypeOK, Phases, Recorders
<1>8. Tips'
  BY DEF Tips, Aiming, TypeOK, Phases
<1>9. ShownWithItsHead'
  BY DEF ShownWithItsHead, TypeOK, Phases
<1>10. Noticed'
  BY DEF Noticed, TypeOK, Phases
<1> QED
  BY <1>1, <1>2, <1>3, <1>4, <1>5, <1>6, <1>7, <1>8, <1>9, <1>10

LEMMA TryPublishInv == ASSUME IInv, TryPublish PROVE IInv'
<1> USE PublicationAssumption DEF IInv, TryPublish, Aim, Goto, state, documents, queue, pass, store, git
<1>1. TypeOK'
  <2>1. snapshot' \in Snapshots
    BY DEF TypeOK
  <2>2. candidate' \in Snapshots
    BY FirstTyped DEF TypeOK
  <2>3. pc' \in Phases
    BY DEF TypeOK, Phases
  <2>4. /\ build' \in Recorders \cup {"attempt", Free}
        /\ build' = "queue" <=> pc'["queue"] \in Calling
        /\ build' = "pass" <=> pc'["pass"] \in Calling
        /\ build' = "attempt" <=> pc'["attempt"] \in {"install", "commit", "reoffer"}
    BY DEF OneAttempt, TypeOK, Phases, Recorders, Calling
  <2>5. held' \in [Recorders \cup {"attempt"} -> Snapshots]
    BY FirstTyped DEF TypeOK, Recorders
  <2>6. call' \in [Recorders -> [origin : Heads, todo : SUBSET Routes, updates : SUBSET Routes]]
    BY DEF TypeOK, Recorders, NoCall, Heads
  <2>7. attempt' \in [id : Nat, documents : Heads, refs : Refs \cup {Broken},
                       base : Refs \cup {Broken},
                       goal : {"first", "again", "preparing", "ready", "unavailable"}]
    BY DEF TypeOK
  <2> QED
    BY <2>1, <2>2, <2>3, <2>4, <2>5, <2>6, <2>7 DEF TypeOK, Heads
<1>2. Leases'
  BY DEF Leases, TypeOK, Snapshots
<1>3. Ahead'
  BY DEF Ahead, TypeOK, Phases, Snapshots, Heads
<1>4. Aiming'
  BY DEF Aiming, OneAttempt, TypeOK, Phases
<1>5. OneAttempt'
  BY DEF OneAttempt, TypeOK, Phases
<1>6. Fence'
  BY DEF Fence, OneAttempt, TypeOK, Phases, Recorders, Calling
<1>7. Building'
  BY DEF Building, OneAttempt, TypeOK, Phases, Recorders
<1>8. Tips'
  BY DEF Tips, Aiming, TypeOK, Phases
<1>9. ShownWithItsHead'
  BY DEF ShownWithItsHead, TypeOK, Phases
<1>10. Noticed'
  BY DEF Noticed, TypeOK, Phases
<1> QED
  BY <1>1, <1>2, <1>3, <1>4, <1>5, <1>6, <1>7, <1>8, <1>9, <1>10

LEMMA FailInv == ASSUME IInv, Fail PROVE IInv'
<1> USE PublicationAssumption DEF IInv, Fail, Aim, Goto, state, documents, queue, pass, store, git
<1>1. TypeOK'
  <2>1. snapshot' \in Snapshots
    BY DEF TypeOK
  <2>2. candidate' \in Snapshots
    BY FirstTyped DEF TypeOK
  <2>3. pc' \in Phases
    BY DEF TypeOK, Phases
  <2>4. /\ build' \in Recorders \cup {"attempt", Free}
        /\ build' = "queue" <=> pc'["queue"] \in Calling
        /\ build' = "pass" <=> pc'["pass"] \in Calling
        /\ build' = "attempt" <=> pc'["attempt"] \in {"install", "commit", "reoffer"}
    BY DEF OneAttempt, TypeOK, Phases, Recorders, Calling
  <2>5. held' \in [Recorders \cup {"attempt"} -> Snapshots]
    BY FirstTyped DEF TypeOK, Recorders
  <2>6. call' \in [Recorders -> [origin : Heads, todo : SUBSET Routes, updates : SUBSET Routes]]
    BY DEF TypeOK, Recorders, NoCall, Heads
  <2>7. attempt' \in [id : Nat, documents : Heads, refs : Refs \cup {Broken},
                       base : Refs \cup {Broken},
                       goal : {"first", "again", "preparing", "ready", "unavailable"}]
    BY DEF TypeOK
  <2> QED
    BY <2>1, <2>2, <2>3, <2>4, <2>5, <2>6, <2>7 DEF TypeOK, Heads
<1>2. Leases'
  BY DEF Leases, TypeOK, Snapshots
<1>3. Ahead'
  BY DEF Ahead, TypeOK, Phases, Snapshots, Heads
<1>4. Aiming'
  BY DEF Aiming, OneAttempt, TypeOK, Phases
<1>5. OneAttempt'
  BY DEF OneAttempt, TypeOK, Phases
<1>6. Fence'
  BY DEF Fence, OneAttempt, TypeOK, Phases, Recorders, Calling
<1>7. Building'
  BY DEF Building, OneAttempt, TypeOK, Phases, Recorders
<1>8. Tips'
  BY DEF Tips, TypeOK, Phases
<1>9. ShownWithItsHead'
  BY DEF ShownWithItsHead, TypeOK, Phases
<1>10. Noticed'
  BY DEF Noticed, TypeOK, Phases
<1> QED
  BY <1>1, <1>2, <1>3, <1>4, <1>5, <1>6, <1>7, <1>8, <1>9, <1>10

\* What a commit shows, from changes::project.
LEMMA Projected ==
    ASSUME TypeOK, Aiming, NEW next, next = Project(snapshot)
    PROVE  /\ next \in Snapshots
           /\ next.revision = snapshot.revision + 1 /\ next.documents = snapshot.documents
           /\ next.completed = snapshot.completed
           /\ next.changes = Offered
           /\ next.status = "ready" <=> attempt.goal = "ready"
           /\ Offered # NoChanges <=> attempt.goal = "ready"
<1>1. /\ StatusOf(attempt.goal) \in Statuses
      /\ StatusOf(attempt.goal) = "ready" <=> attempt.goal = "ready"
  BY DEF StatusOf, Statuses, TypeOK
<1>2. /\ Offered \in {NoChanges} \cup [attempt : Nat, documents : Heads, base : Refs, refs : Refs]
      /\ Offered # NoChanges <=> attempt.goal = "ready"
  <2>1. CASE attempt.goal = "ready"
    <3>1. Offered \in [attempt : Nat, documents : Heads, base : Refs, refs : Refs]
      BY <2>1 DEF Offered, TypeOK, Aiming
    <3>2. Offered # NoChanges
      BY <3>1, PublicationAssumption DEF Heads
    <3> QED
      BY <2>1, <3>1, <3>2
  <2>2. CASE attempt.goal # "ready"
    BY <2>2 DEF Offered
  <2> QED
    BY <2>1, <2>2
<1>3. next = [revision |-> snapshot.revision + 1, documents |-> snapshot.documents,
              completed |-> snapshot.completed, status |-> StatusOf(attempt.goal),
              changes |-> Offered]
  BY DEF Project, TypeOK, Snapshots
<1>4. /\ snapshot.revision + 1 \in Nat /\ snapshot.documents \in Heads
      /\ snapshot.completed \in SUBSET Routes
  BY DEF TypeOK, Snapshots
<1>5. next \in Snapshots
  BY <1>1, <1>2, <1>3, <1>4 DEF Snapshots
<1> QED
  BY <1>1, <1>2, <1>3, <1>5

LEMMA CommitInv == ASSUME IInv, Commit PROVE IInv'
<1> USE PublicationAssumption DEF IInv, Commit, Answer, After, Goto, state, documents, queue, pass, store, git
<1>0. \/ UNCHANGED state
      \/ /\ ~closed /\ UNCHANGED closed /\ snapshot = held["attempt"]
         /\ snapshot' = Project(snapshot)
         /\ leases' = (leases \ {snapshot.revision}) \cup {snapshot'.revision}
  BY DEF Publish
<1>1. TypeOK'
  <2>1. snapshot' \in Snapshots
    BY <1>0, Projected DEF TypeOK
  <2>2. candidate' \in Snapshots
    BY FirstTyped DEF TypeOK
  <2>3. pc' \in Phases
    BY DEF TypeOK, Phases
  <2>4. /\ build' \in Recorders \cup {"attempt", Free}
        /\ build' = "queue" <=> pc'["queue"] \in Calling
        /\ build' = "pass" <=> pc'["pass"] \in Calling
        /\ build' = "attempt" <=> pc'["attempt"] \in {"install", "commit", "reoffer"}
    BY DEF OneAttempt, TypeOK, Phases, Recorders, Calling
  <2>5. held' \in [Recorders \cup {"attempt"} -> Snapshots]
    BY FirstTyped DEF TypeOK, Recorders
  <2>6. call' \in [Recorders -> [origin : Heads, todo : SUBSET Routes, updates : SUBSET Routes]]
    BY DEF TypeOK, Recorders, NoCall, Heads
  <2>7. attempt' \in [id : Nat, documents : Heads, refs : Refs \cup {Broken},
                       base : Refs \cup {Broken},
                       goal : {"first", "again", "preparing", "ready", "unavailable"}]
    BY DEF TypeOK
  <2>8. leases' \subseteq Nat /\ closed' \in BOOLEAN
    BY <1>0, Projected DEF TypeOK, Snapshots
  <2> QED
    BY <2>1, <2>2, <2>3, <2>4, <2>5, <2>6, <2>7, <2>8 DEF TypeOK, Heads
<1>2. Leases'
  BY <1>0 DEF Leases
<1>3. Ahead'
  BY <1>0, Projected DEF Ahead, TypeOK, Phases
<1>4. Aiming'
  BY DEF Aiming, OneAttempt, TypeOK, Phases
<1>5. OneAttempt'
  BY DEF OneAttempt, TypeOK, Phases
<1>6. Fence'
  BY <1>0 DEF Fence, TypeOK, Phases
<1>7. Building'
  BY DEF Building, OneAttempt, TypeOK, Phases, Recorders
<1>8. Tips'
  BY DEF Tips, TypeOK, Phases
<1>9. ShownWithItsHead'
  <2>1. CASE UNCHANGED state
    BY <2>1 DEF ShownWithItsHead
  <2>2. CASE snapshot' = Project(snapshot)
    BY <1>0, <2>2, Projected DEF ShownWithItsHead, Building, Tips, Offered
  <2> QED
    BY <1>0, <2>1, <2>2
<1>10. Noticed'
  BY DEF Noticed, TypeOK, Phases
<1> QED
  BY <1>1, <1>2, <1>3, <1>4, <1>5, <1>6, <1>7, <1>8, <1>9, <1>10

\* The world around.
LEMMA MoveRefsInv == ASSUME IInv, MoveRefs PROVE IInv'
<1> USE PublicationAssumption DEF IInv, MoveRefs, state, documents, queue, pass, store, git
<1>1. TypeOK'
  <2>1. snapshot' \in Snapshots
    BY DEF TypeOK
  <2>2. candidate' \in Snapshots
    BY FirstTyped DEF TypeOK
  <2>3. pc' \in Phases
    BY DEF TypeOK, Phases
  <2>4. /\ build' \in Recorders \cup {"attempt", Free}
        /\ build' = "queue" <=> pc'["queue"] \in Calling
        /\ build' = "pass" <=> pc'["pass"] \in Calling
        /\ build' = "attempt" <=> pc'["attempt"] \in {"install", "commit", "reoffer"}
    BY DEF OneAttempt, TypeOK, Phases, Recorders, Calling
  <2>5. held' \in [Recorders \cup {"attempt"} -> Snapshots]
    BY FirstTyped DEF TypeOK, Recorders
  <2>6. call' \in [Recorders -> [origin : Heads, todo : SUBSET Routes, updates : SUBSET Routes]]
    BY DEF TypeOK, Recorders, NoCall, Heads
  <2>7. attempt' \in [id : Nat, documents : Heads, refs : Refs \cup {Broken},
                       base : Refs \cup {Broken},
                       goal : {"first", "again", "preparing", "ready", "unavailable"}]
    BY DEF TypeOK
  <2>8. refs' \in Refs \cup {Broken} /\ past' \subseteq Refs \cup {Broken}
    BY DEF TypeOK
  <2> QED
    BY <2>1, <2>2, <2>3, <2>4, <2>5, <2>6, <2>7, <2>8 DEF TypeOK, Heads
<1>2. Leases'
  BY DEF Leases, TypeOK, Snapshots
<1>3. Ahead'
  BY DEF Ahead, TypeOK, Phases, Snapshots, Heads
<1>4. Aiming'
  BY DEF Aiming, OneAttempt, TypeOK, Phases
<1>5. OneAttempt'
  BY DEF OneAttempt, TypeOK, Phases
<1>6. Fence'
  BY DEF Fence, OneAttempt, TypeOK, Phases, Recorders, Calling
<1>7. Building'
  BY DEF Building, OneAttempt, TypeOK, Phases, Recorders
<1>8. Tips'
  BY DEF Tips, TypeOK, Phases
<1>9. ShownWithItsHead'
  BY DEF ShownWithItsHead, TypeOK, Phases
<1>10. Noticed'
  BY DEF Noticed, TypeOK, Phases
<1> QED
  BY <1>1, <1>2, <1>3, <1>4, <1>5, <1>6, <1>7, <1>8, <1>9, <1>10

LEMMA MakeRoomInv == ASSUME IInv, MakeRoom PROVE IInv'
<1> USE PublicationAssumption DEF IInv, MakeRoom, state, documents, queue, pass, store, git
<1>1. TypeOK'
  <2>1. snapshot' \in Snapshots
    BY DEF TypeOK
  <2>2. candidate' \in Snapshots
    BY FirstTyped DEF TypeOK
  <2>3. pc' \in Phases
    BY DEF TypeOK, Phases
  <2>4. /\ build' \in Recorders \cup {"attempt", Free}
        /\ build' = "queue" <=> pc'["queue"] \in Calling
        /\ build' = "pass" <=> pc'["pass"] \in Calling
        /\ build' = "attempt" <=> pc'["attempt"] \in {"install", "commit", "reoffer"}
    BY DEF OneAttempt, TypeOK, Phases, Recorders, Calling
  <2>5. held' \in [Recorders \cup {"attempt"} -> Snapshots]
    BY FirstTyped DEF TypeOK, Recorders
  <2>6. call' \in [Recorders -> [origin : Heads, todo : SUBSET Routes, updates : SUBSET Routes]]
    BY DEF TypeOK, Recorders, NoCall, Heads
  <2>7. attempt' \in [id : Nat, documents : Heads, refs : Refs \cup {Broken},
                       base : Refs \cup {Broken},
                       goal : {"first", "again", "preparing", "ready", "unavailable"}]
    BY DEF TypeOK
  <2> QED
    BY <2>1, <2>2, <2>3, <2>4, <2>5, <2>6, <2>7 DEF TypeOK, Heads
<1>2. Leases'
  BY DEF Leases, TypeOK, Snapshots
<1>3. Ahead'
  BY DEF Ahead, TypeOK, Phases, Snapshots, Heads
<1>4. Aiming'
  BY DEF Aiming, OneAttempt, TypeOK, Phases
<1>5. OneAttempt'
  BY DEF OneAttempt, TypeOK, Phases
<1>6. Fence'
  BY DEF Fence, OneAttempt, TypeOK, Phases, Recorders, Calling
<1>7. Building'
  BY DEF Building, OneAttempt, TypeOK, Phases, Recorders
<1>8. Tips'
  BY DEF Tips, TypeOK, Phases
<1>9. ShownWithItsHead'
  BY DEF ShownWithItsHead, TypeOK, Phases
<1>10. Noticed'
  BY DEF Noticed, TypeOK, Phases
<1> QED
  BY <1>1, <1>2, <1>3, <1>4, <1>5, <1>6, <1>7, <1>8, <1>9, <1>10

LEMMA StopInv == ASSUME IInv, Stop PROVE IInv'
<1> USE PublicationAssumption DEF IInv, Stop, Goto, state, documents, queue, pass, store, git
<1>1. TypeOK'
  <2>1. snapshot' \in Snapshots
    BY DEF TypeOK
  <2>2. candidate' \in Snapshots
    BY FirstTyped DEF TypeOK
  <2>3. pc' \in Phases
    BY DEF TypeOK, Phases
  <2>4. /\ build' \in Recorders \cup {"attempt", Free}
        /\ build' = "queue" <=> pc'["queue"] \in Calling
        /\ build' = "pass" <=> pc'["pass"] \in Calling
        /\ build' = "attempt" <=> pc'["attempt"] \in {"install", "commit", "reoffer"}
    BY DEF OneAttempt, TypeOK, Phases, Recorders, Calling
  <2>5. held' \in [Recorders \cup {"attempt"} -> Snapshots]
    BY FirstTyped DEF TypeOK, Recorders
  <2>6. call' \in [Recorders -> [origin : Heads, todo : SUBSET Routes, updates : SUBSET Routes]]
    BY DEF TypeOK, Recorders, NoCall, Heads
  <2>7. attempt' \in [id : Nat, documents : Heads, refs : Refs \cup {Broken},
                       base : Refs \cup {Broken},
                       goal : {"first", "again", "preparing", "ready", "unavailable"}]
    BY DEF TypeOK
  <2> QED
    BY <2>1, <2>2, <2>3, <2>4, <2>5, <2>6, <2>7 DEF TypeOK, Heads
<1>2. Leases'
  BY DEF Leases, TypeOK, Snapshots
<1>3. Ahead'
  BY DEF Ahead, TypeOK, Phases, Snapshots, Heads
<1>4. Aiming'
  BY DEF Aiming, OneAttempt, TypeOK, Phases
<1>5. OneAttempt'
  BY DEF OneAttempt, TypeOK, Phases
<1>6. Fence'
  BY DEF Fence, OneAttempt, TypeOK, Phases, Recorders, Calling
<1>7. Building'
  BY DEF Building, OneAttempt, TypeOK, Phases, Recorders
<1>8. Tips'
  BY DEF Tips, TypeOK, Phases
<1>9. ShownWithItsHead'
  BY DEF ShownWithItsHead, TypeOK, Phases
<1>10. Noticed'
  BY DEF Noticed, TypeOK, Phases
<1> QED
  BY <1>1, <1>2, <1>3, <1>4, <1>5, <1>6, <1>7, <1>8, <1>9, <1>10

LEMMA EndCandidatesInv == ASSUME IInv, EndCandidates PROVE IInv'
<1> USE PublicationAssumption DEF IInv, EndCandidates, Goto, state, documents, queue, pass, store, git
<1>1. TypeOK'
  <2>1. snapshot' \in Snapshots
    BY DEF TypeOK
  <2>2. candidate' \in Snapshots
    BY FirstTyped DEF TypeOK
  <2>3. pc' \in Phases
    BY DEF TypeOK, Phases
  <2>4. /\ build' \in Recorders \cup {"attempt", Free}
        /\ build' = "queue" <=> pc'["queue"] \in Calling
        /\ build' = "pass" <=> pc'["pass"] \in Calling
        /\ build' = "attempt" <=> pc'["attempt"] \in {"install", "commit", "reoffer"}
    BY DEF OneAttempt, TypeOK, Phases, Recorders, Calling
  <2>5. held' \in [Recorders \cup {"attempt"} -> Snapshots]
    BY FirstTyped DEF TypeOK, Recorders
  <2>6. call' \in [Recorders -> [origin : Heads, todo : SUBSET Routes, updates : SUBSET Routes]]
    BY DEF TypeOK, Recorders, NoCall, Heads
  <2>7. attempt' \in [id : Nat, documents : Heads, refs : Refs \cup {Broken},
                       base : Refs \cup {Broken},
                       goal : {"first", "again", "preparing", "ready", "unavailable"}]
    BY DEF TypeOK
  <2> QED
    BY <2>1, <2>2, <2>3, <2>4, <2>5, <2>6, <2>7 DEF TypeOK, Heads
<1>2. Leases'
  BY DEF Leases, TypeOK, Snapshots
<1>3. Ahead'
  BY DEF Ahead, TypeOK, Phases, Snapshots, Heads
<1>4. Aiming'
  BY DEF Aiming, OneAttempt, TypeOK, Phases
<1>5. OneAttempt'
  BY DEF OneAttempt, TypeOK, Phases
<1>6. Fence'
  BY DEF Fence, OneAttempt, TypeOK, Phases, Recorders, Calling
<1>7. Building'
  BY DEF Building, OneAttempt, TypeOK, Phases, Recorders
<1>8. Tips'
  BY DEF Tips, TypeOK, Phases
<1>9. ShownWithItsHead'
  BY DEF ShownWithItsHead, TypeOK, Phases
<1>10. Noticed'
  BY DEF Noticed, TypeOK, Phases
<1> QED
  BY <1>1, <1>2, <1>3, <1>4, <1>5, <1>6, <1>7, <1>8, <1>9, <1>10

LEMMA CloseQueueInv == ASSUME IInv, CloseQueue PROVE IInv'
<1> USE PublicationAssumption DEF IInv, CloseQueue, Goto, state, documents, queue, pass, store, git
<1>1. TypeOK'
  <2>1. snapshot' \in Snapshots
    BY DEF TypeOK
  <2>2. candidate' \in Snapshots
    BY FirstTyped DEF TypeOK
  <2>3. pc' \in Phases
    BY DEF TypeOK, Phases
  <2>4. /\ build' \in Recorders \cup {"attempt", Free}
        /\ build' = "queue" <=> pc'["queue"] \in Calling
        /\ build' = "pass" <=> pc'["pass"] \in Calling
        /\ build' = "attempt" <=> pc'["attempt"] \in {"install", "commit", "reoffer"}
    BY DEF OneAttempt, TypeOK, Phases, Recorders, Calling
  <2>5. held' \in [Recorders \cup {"attempt"} -> Snapshots]
    BY FirstTyped DEF TypeOK, Recorders
  <2>6. call' \in [Recorders -> [origin : Heads, todo : SUBSET Routes, updates : SUBSET Routes]]
    BY DEF TypeOK, Recorders, NoCall, Heads
  <2>7. attempt' \in [id : Nat, documents : Heads, refs : Refs \cup {Broken},
                       base : Refs \cup {Broken},
                       goal : {"first", "again", "preparing", "ready", "unavailable"}]
    BY DEF TypeOK
  <2> QED
    BY <2>1, <2>2, <2>3, <2>4, <2>5, <2>6, <2>7 DEF TypeOK, Heads
<1>2. Leases'
  BY DEF Leases, TypeOK, Snapshots
<1>3. Ahead'
  BY DEF Ahead, TypeOK, Phases, Snapshots, Heads
<1>4. Aiming'
  BY DEF Aiming, OneAttempt, TypeOK, Phases
<1>5. OneAttempt'
  BY DEF OneAttempt, TypeOK, Phases
<1>6. Fence'
  BY DEF Fence, OneAttempt, TypeOK, Phases, Recorders, Calling
<1>7. Building'
  BY DEF Building, OneAttempt, TypeOK, Phases, Recorders
<1>8. Tips'
  BY DEF Tips, TypeOK, Phases
<1>9. ShownWithItsHead'
  BY DEF ShownWithItsHead, TypeOK, Phases
<1>10. Noticed'
  BY DEF Noticed, TypeOK, Phases
<1> QED
  BY <1>1, <1>2, <1>3, <1>4, <1>5, <1>6, <1>7, <1>8, <1>9, <1>10

LEMMA CloseInv == ASSUME IInv, Close PROVE IInv'
<1> USE PublicationAssumption DEF IInv, Close, Goto, state, documents, queue, pass, store, git
<1>1. TypeOK'
  <2>1. snapshot' \in Snapshots
    BY DEF TypeOK
  <2>2. candidate' \in Snapshots
    BY FirstTyped DEF TypeOK
  <2>3. pc' \in Phases
    BY DEF TypeOK, Phases
  <2>4. /\ build' \in Recorders \cup {"attempt", Free}
        /\ build' = "queue" <=> pc'["queue"] \in Calling
        /\ build' = "pass" <=> pc'["pass"] \in Calling
        /\ build' = "attempt" <=> pc'["attempt"] \in {"install", "commit", "reoffer"}
    BY DEF OneAttempt, TypeOK, Phases, Recorders, Calling
  <2>5. held' \in [Recorders \cup {"attempt"} -> Snapshots]
    BY FirstTyped DEF TypeOK, Recorders
  <2>6. call' \in [Recorders -> [origin : Heads, todo : SUBSET Routes, updates : SUBSET Routes]]
    BY DEF TypeOK, Recorders, NoCall, Heads
  <2>7. attempt' \in [id : Nat, documents : Heads, refs : Refs \cup {Broken},
                       base : Refs \cup {Broken},
                       goal : {"first", "again", "preparing", "ready", "unavailable"}]
    BY DEF TypeOK
  <2> QED
    BY <2>1, <2>2, <2>3, <2>4, <2>5, <2>6, <2>7 DEF TypeOK, Heads
<1>2. Leases'
  BY DEF Leases, TypeOK, Snapshots
<1>3. Ahead'
  BY DEF Ahead, TypeOK, Phases, Snapshots, Heads
<1>4. Aiming'
  BY DEF Aiming, OneAttempt, TypeOK, Phases
<1>5. OneAttempt'
  BY DEF OneAttempt, TypeOK, Phases
<1>6. Fence'
  BY DEF Fence, OneAttempt, TypeOK, Phases, Recorders, Calling
<1>7. Building'
  BY DEF Building, OneAttempt, TypeOK, Phases, Recorders
<1>8. Tips'
  BY DEF Tips, TypeOK, Phases
<1>9. ShownWithItsHead'
  BY DEF ShownWithItsHead, TypeOK, Phases
<1>10. Noticed'
  BY DEF Noticed, TypeOK, Phases
<1> QED
  BY <1>1, <1>2, <1>3, <1>4, <1>5, <1>6, <1>7, <1>8, <1>9, <1>10

LEMMA AwaitBuildsInv == ASSUME IInv, AwaitBuilds PROVE IInv'
<1> USE PublicationAssumption DEF IInv, AwaitBuilds, Goto, state, documents, queue, pass, store, git
<1>1. TypeOK'
  <2>1. snapshot' \in Snapshots
    BY DEF TypeOK
  <2>2. candidate' \in Snapshots
    BY FirstTyped DEF TypeOK
  <2>3. pc' \in Phases
    BY DEF TypeOK, Phases
  <2>4. /\ build' \in Recorders \cup {"attempt", Free}
        /\ build' = "queue" <=> pc'["queue"] \in Calling
        /\ build' = "pass" <=> pc'["pass"] \in Calling
        /\ build' = "attempt" <=> pc'["attempt"] \in {"install", "commit", "reoffer"}
    BY DEF OneAttempt, TypeOK, Phases, Recorders, Calling
  <2>5. held' \in [Recorders \cup {"attempt"} -> Snapshots]
    BY FirstTyped DEF TypeOK, Recorders
  <2>6. call' \in [Recorders -> [origin : Heads, todo : SUBSET Routes, updates : SUBSET Routes]]
    BY DEF TypeOK, Recorders, NoCall, Heads
  <2>7. attempt' \in [id : Nat, documents : Heads, refs : Refs \cup {Broken},
                       base : Refs \cup {Broken},
                       goal : {"first", "again", "preparing", "ready", "unavailable"}]
    BY DEF TypeOK
  <2> QED
    BY <2>1, <2>2, <2>3, <2>4, <2>5, <2>6, <2>7 DEF TypeOK, Heads
<1>2. Leases'
  BY DEF Leases, TypeOK, Snapshots
<1>3. Ahead'
  BY DEF Ahead, TypeOK, Phases, Snapshots, Heads
<1>4. Aiming'
  BY DEF Aiming, OneAttempt, TypeOK, Phases
<1>5. OneAttempt'
  BY DEF OneAttempt, TypeOK, Phases
<1>6. Fence'
  BY DEF Fence, OneAttempt, TypeOK, Phases, Recorders, Calling
<1>7. Building'
  BY DEF Building, OneAttempt, TypeOK, Phases, Recorders
<1>8. Tips'
  BY DEF Tips, TypeOK, Phases
<1>9. ShownWithItsHead'
  BY DEF ShownWithItsHead, TypeOK, Phases
<1>10. Noticed'
  BY DEF Noticed, TypeOK, Phases
<1> QED
  BY <1>1, <1>2, <1>3, <1>4, <1>5, <1>6, <1>7, <1>8, <1>9, <1>10

LEMMA AwaitTaskInv == ASSUME IInv, AwaitTask PROVE IInv'
<1> USE PublicationAssumption DEF IInv, AwaitTask, Goto, state, documents, queue, pass, store, git
<1>1. TypeOK'
  <2>1. snapshot' \in Snapshots
    BY DEF TypeOK
  <2>2. candidate' \in Snapshots
    BY FirstTyped DEF TypeOK
  <2>3. pc' \in Phases
    BY DEF TypeOK, Phases
  <2>4. /\ build' \in Recorders \cup {"attempt", Free}
        /\ build' = "queue" <=> pc'["queue"] \in Calling
        /\ build' = "pass" <=> pc'["pass"] \in Calling
        /\ build' = "attempt" <=> pc'["attempt"] \in {"install", "commit", "reoffer"}
    BY DEF OneAttempt, TypeOK, Phases, Recorders, Calling
  <2>5. held' \in [Recorders \cup {"attempt"} -> Snapshots]
    BY FirstTyped DEF TypeOK, Recorders
  <2>6. call' \in [Recorders -> [origin : Heads, todo : SUBSET Routes, updates : SUBSET Routes]]
    BY DEF TypeOK, Recorders, NoCall, Heads
  <2>7. attempt' \in [id : Nat, documents : Heads, refs : Refs \cup {Broken},
                       base : Refs \cup {Broken},
                       goal : {"first", "again", "preparing", "ready", "unavailable"}]
    BY DEF TypeOK
  <2> QED
    BY <2>1, <2>2, <2>3, <2>4, <2>5, <2>6, <2>7 DEF TypeOK, Heads
<1>2. Leases'
  BY DEF Leases, TypeOK, Snapshots
<1>3. Ahead'
  BY DEF Ahead, TypeOK, Phases, Snapshots, Heads
<1>4. Aiming'
  BY DEF Aiming, OneAttempt, TypeOK, Phases
<1>5. OneAttempt'
  BY DEF OneAttempt, TypeOK, Phases
<1>6. Fence'
  BY DEF Fence, OneAttempt, TypeOK, Phases, Recorders, Calling
<1>7. Building'
  BY DEF Building, OneAttempt, TypeOK, Phases, Recorders
<1>8. Tips'
  BY DEF Tips, TypeOK, Phases
<1>9. ShownWithItsHead'
  BY DEF ShownWithItsHead, TypeOK, Phases
<1>10. Noticed'
  BY DEF Noticed, TypeOK, Phases
<1> QED
  BY <1>1, <1>2, <1>3, <1>4, <1>5, <1>6, <1>7, <1>8, <1>9, <1>10

LEMMA InitInv == Init => IInv
<1> SUFFICES ASSUME Init PROVE IInv
  OBVIOUS
<1> USE PublicationAssumption DEF Init
<1>1. 1 \in Heads /\ First \in Snapshots /\ NoCall \in [origin : Heads, todo : SUBSET Routes, updates : SUBSET Routes]
  BY FirstTyped DEF Heads, NoCall
<1>2. TypeOK
  <2>1. pc \in Phases /\ build = Free
    BY DEF Phases
  <2>2. pending \in [closed : BOOLEAN, origin : 0..MaxHeads, routes : SUBSET Routes]
    OBVIOUS
  <2>3. attempt \in [id : Nat, documents : Heads, refs : Refs \cup {Broken},
                    base : Refs \cup {Broken},
                    goal : {"first", "again", "preparing", "ready", "unavailable"}]
    BY <1>1 DEF NoAttempt
  <2>4. /\ build = "queue" <=> pc["queue"] \in Calling
        /\ build = "pass" <=> pc["pass"] \in Calling
        /\ build = "attempt" <=> pc["attempt"] \in {"install", "commit", "reoffer"}
    BY <2>1 DEF Calling
  <2>5. /\ call \in [Recorders ->
                    [origin : Heads, todo : SUBSET Routes, updates : SUBSET Routes]]
        /\ held \in [Recorders \cup {"attempt"} -> Snapshots]
    BY <1>1
  <2>6. usage \in [Heads -> SUBSET Routes] /\ rendering \subseteq Heads \X Routes
    BY DEF Heads
  <2>7. /\ snapshot \in Snapshots /\ candidate \in Snapshots
        /\ newest \in Heads /\ origin \in Heads
    BY <1>1
  <2>8. refs \in Refs \cup {Broken} /\ past \subseteq Refs \cup {Broken} /\ queued \in Refs \cup {Broken}
    OBVIOUS
  <2>9. leases \subseteq Nat /\ installed \subseteq Nat
    OBVIOUS
  <2>10. /\ closed \in BOOLEAN /\ ready \in BOOLEAN
         /\ cancelled \in BOOLEAN /\ room \in BOOLEAN
    OBVIOUS
  <2>11. build \in Recorders \cup {"attempt", Free}
    OBVIOUS
  <2> QED
    BY <2>1, <2>2, <2>3, <2>4, <2>5, <2>6, <2>7, <2>8, <2>9, <2>10, <2>11 DEF TypeOK
<1>3. Leases /\ Ahead /\ OneAttempt /\ Fence /\ Building /\ ShownWithItsHead /\ Noticed
  BY DEF Leases, Ahead, OneAttempt, Fence, Building, ShownWithItsHead, Noticed, First
<1>4. Aiming /\ Tips
  BY DEF Aiming, Tips, NoAttempt
<1> QED
  BY <1>2, <1>3, <1>4 DEF IInv

LEMMA NextInv == IInv /\ [Next]_vars => IInv'
<1> SUFFICES ASSUME IInv, [Next]_vars PROVE IInv'
  OBVIOUS
<1>1. CASE Prepare
  BY <1>1, PrepareInv
<1>2. CASE CheckActive
  BY <1>2, CheckActiveInv
<1>3. CASE Replace
  BY <1>3, ReplaceInv
<1>4. CASE Restamp
  BY <1>4, RestampInv
<1>5. CASE TakeBatch
  BY <1>5, TakeBatchInv
<1>6. CASE Look
  BY <1>6, LookInv
<1>7. CASE Filled
  BY <1>7, FilledInv
<1>8. CASE Recorded
  BY <1>8, RecordedInv
<1>9. CASE Watch
  BY <1>9, WatchInv
<1>10. CASE Drain
  BY <1>10, DrainInv
<1>11. CASE Settled
  BY <1>11, SettledInv
<1>12. CASE Offer
  BY <1>12, OfferInv
<1>13. CASE Install
  BY <1>13, InstallInv
<1>14. CASE Commit
  BY <1>14, CommitInv
<1>15. CASE Classify
  BY <1>15, ClassifyInv
<1>16. CASE Check
  BY <1>16, CheckInv
<1>17. CASE TryPublish
  BY <1>17, TryPublishInv
<1>18. CASE Fail
  BY <1>18, FailInv
<1>19. CASE MoveRefs
  BY <1>19, MoveRefsInv
<1>20. CASE MakeRoom
  BY <1>20, MakeRoomInv
<1>21. CASE Stop
  BY <1>21, StopInv
<1>22. CASE EndCandidates
  BY <1>22, EndCandidatesInv
<1>23. CASE CloseQueue
  BY <1>23, CloseQueueInv
<1>24. CASE Close
  BY <1>24, CloseInv
<1>25. CASE AwaitBuilds
  BY <1>25, AwaitBuildsInv
<1>26. CASE AwaitTask
  BY <1>26, AwaitTaskInv
<1>27. CASE \E r \in Routes : StartRender(r) \/ Background(r)
  BY <1>27, StartRenderInv DEF Background
<1>28. CASE \E d \in 1..MaxHeads, r \in Routes : Completed(d, r) \/ EndRender(d, r)
  BY <1>28, CompletedInv, EndRenderInv
<1>29. CASE \E c \in Recorders : Completing(c)
  BY <1>29, EnterInv, GatherInv, ReadInv, RecordInv DEF Completing
<1>30. CASE UNCHANGED vars
  <2> USE <1>30 DEF vars, state, documents, queue, pass, store, git
  <2>1. TypeOK'
    BY DEF IInv, TypeOK
  <2>2. Leases' /\ Ahead' /\ OneAttempt' /\ Fence' /\ Building' /\ ShownWithItsHead' /\ Noticed'
    BY DEF IInv, Leases, Ahead, OneAttempt, Fence, Building, ShownWithItsHead, Noticed
  <2>3. Aiming' /\ Tips'
    BY DEF IInv, Aiming, Tips
  <2> QED
    BY <2>1, <2>2, <2>3 DEF IInv
<1> QED
  BY <1>1, <1>2, <1>3, <1>4, <1>5, <1>6, <1>7, <1>8, <1>9, <1>10,
     <1>11, <1>12, <1>13, <1>14, <1>15, <1>16, <1>17, <1>18, <1>19, <1>20,
     <1>21, <1>22, <1>23, <1>24, <1>25, <1>26, <1>27, <1>28, <1>29, <1>30
     DEF Next, Rebuild, RendersEnd, Queue, Pass, Attempt, Shutdown, Recorders

-----------------------------------------------------------------------------
(* Theorems *)

\* IInv holds in every reachable state.
THEOREM Invariant == Spec => []IInv
<1>1. Init => IInv
  BY InitInv
<1>2. IInv /\ [Next]_vars => IInv'
  BY NextInv
<1> QED
  BY <1>1, <1>2, PTL DEF Spec

\* Types, and that the build mutex is with the one that thinks so.
THEOREM TypeCorrect == Spec => []TypeOK
<1>1. IInv => TypeOK
  BY DEF IInv
<1> QED
  BY <1>1, Invariant, PTL

\* A classification is only ever shown with the head and the refs it was made for,
\* and with its metadata in the store.
THEOREM ClassifiedForItsHead == Spec => []ShownWithItsHead
<1>1. IInv => ShownWithItsHead
  BY DEF IInv
<1> QED
  BY <1>1, Invariant, PTL

\* The completion queue does not sleep over a batch or its own close.
THEOREM QueueWakes == Spec => []QueueNoticed
<1>1. IInv => QueueNoticed
  BY DEF IInv, Noticed, QueueNoticed
<1> QED
  BY <1>1, Invariant, PTL

\* Only these steps change what a reader sees.
LEMMA OtherSteps ==
    [Next]_vars => \/ UNCHANGED state
                   \/ Replace \/ (\E c \in Recorders : Record(c)) \/ Commit \/ Close
<1> SUFFICES ASSUME [Next]_vars, ~UNCHANGED state
             PROVE Replace \/ (\E c \in Recorders : Record(c)) \/ Commit \/ Close
  OBVIOUS
<1>1. ~UNCHANGED vars
  BY DEF vars
<1>2. ~Prepare /\ ~CheckActive /\ ~Restamp
  BY DEF Prepare, CheckActive, Restamp
<1>3. \A r, d : ~StartRender(r) /\ ~Background(r) /\ ~EndRender(d, r) /\ ~Completed(d, r)
  BY DEF StartRender, Background, EndRender, Completed
<1>4. \A c : ~Enter(c) /\ ~Gather(c) /\ ~Read(c)
  BY DEF Enter, Gather, Read
<1>5. ~TakeBatch /\ ~Look /\ ~Filled /\ ~Recorded /\ ~Watch /\ ~Drain /\ ~Settled
  BY DEF TakeBatch, Look, Filled, Recorded, Watch, Drain, Settled
<1>6. ~Offer /\ ~Install /\ ~Classify /\ ~Check /\ ~TryPublish /\ ~Fail
  BY DEF Offer, Install, Classify, Check, TryPublish, Fail
<1>7. ~MoveRefs /\ ~MakeRoom /\ ~Stop /\ ~EndCandidates /\ ~CloseQueue /\ ~AwaitBuilds /\ ~AwaitTask
  BY DEF MoveRefs, MakeRoom, Stop, EndCandidates, CloseQueue, AwaitBuilds, AwaitTask
<1> QED
  BY <1>1, <1>2, <1>3, <1>4, <1>5, <1>6, <1>7
     DEF Next, Rebuild, RendersEnd, Queue, Pass, Attempt, Shutdown, Completing, Recorders

\* Only Install changes the store of comparisons.
LEMMA InstallOnly == [Next]_vars => UNCHANGED installed \/ Install
<1> SUFFICES ASSUME [Next]_vars, ~UNCHANGED installed PROVE Install
  OBVIOUS
<1>1. ~UNCHANGED vars
  BY DEF vars, store
<1>2. ~Prepare /\ ~CheckActive /\ ~Replace /\ ~Restamp
  BY DEF Prepare, CheckActive, Replace, Restamp, store
<1>3. \A r, d : ~StartRender(r) /\ ~Background(r) /\ ~EndRender(d, r) /\ ~Completed(d, r)
  BY DEF StartRender, Background, EndRender, Completed, store
<1>4. \A c : ~Enter(c) /\ ~Gather(c) /\ ~Read(c) /\ ~Record(c)
  BY DEF Enter, Gather, Read, Record, store
<1>5. ~TakeBatch /\ ~Look /\ ~Filled /\ ~Recorded /\ ~Watch /\ ~Drain /\ ~Settled
  BY DEF TakeBatch, Look, Filled, Recorded, Watch, Drain, Settled, store
<1>6. ~Offer /\ ~Commit /\ ~Classify /\ ~Check /\ ~TryPublish /\ ~Fail
  BY DEF Offer, Commit, Classify, Check, TryPublish, Fail, store
<1>7. /\ ~MoveRefs /\ ~MakeRoom /\ ~Stop /\ ~EndCandidates /\ ~CloseQueue /\ ~Close
      /\ ~AwaitBuilds /\ ~AwaitTask
  BY DEF MoveRefs, MakeRoom, Stop, EndCandidates, CloseQueue, Close, AwaitBuilds, AwaitTask, store
<1> QED
  BY <1>1, <1>2, <1>3, <1>4, <1>5, <1>6, <1>7
     DEF Next, Rebuild, RendersEnd, Queue, Pass, Attempt, Shutdown, Completing

\* Whoever changes the state does so with one step of the register.
LEMMA RegisterStep == IInv /\ [Next]_vars => [Register!Next]_(Register!vars)
<1> SUFFICES ASSUME IInv, [Next]_vars PROVE Register!Next \/ UNCHANGED Register!vars
  OBVIOUS
<1> USE DEF IInv
<1>1. CASE UNCHANGED state
  BY <1>1 DEF state, Register!vars
<1>2. CASE Replace
  <2>1. CASE UNCHANGED state
    BY <2>1 DEF state, Register!vars
  <2>2. CASE ~closed /\ candidate.revision = snapshot.revision + 1 /\ Publish(candidate)
    <3>1. leases' = {snapshot'.revision}
      BY <2>2 DEF Leases, Publish
    <3>2. /\ snapshot'.documents \in Nat /\ snapshot'.documents > snapshot.documents
          /\ snapshot'.completed \subseteq Routes
      <4>1. pc["rebuild"] # "idle"
        BY <1>2 DEF Replace
      <4>2. snapshot.documents \in Nat /\ candidate.documents \in Nat
        BY PublicationAssumption DEF TypeOK, Snapshots, Heads
      <4> QED
        BY <2>2, <4>1, <4>2 DEF Ahead, Publish, TypeOK, Snapshots
    <3> QED
      BY <2>2, <3>1, <3>2 DEF Publish, Register!Next, Register!Replace
  <2> QED
    BY <1>2, <2>1, <2>2 DEF Replace
<1>3. CASE \E c \in Recorders : Record(c)
  <2>1. PICK c \in Recorders : Record(c)
    BY <1>3
  <2>2. CASE UNCHANGED state
    BY <2>2 DEF state, Register!vars
  <2>3. CASE ~closed /\ snapshot = held[c] /\ ~UNCHANGED state
    <3>1. call[c].updates \subseteq Routes
      BY DEF TypeOK
    <3>2. snapshot \in Snapshots
      BY DEF TypeOK
    <3>3. CASE Publish(Complete(held[c], call[c].updates, TRUE))
      <4>1. /\ snapshot'.revision = snapshot.revision + 1
            /\ snapshot'.documents = snapshot.documents
            /\ snapshot'.completed = snapshot.completed \cup call[c].updates
        BY <2>3, <3>2, <3>3 DEF Publish, Complete, Snapshots
      <4>2. leases' = {snapshot'.revision}
        BY <2>3, <3>3, <4>1 DEF Leases, Publish
      <4>3. snapshot.completed \subseteq Routes
        BY <3>2 DEF Snapshots
      <4> QED
        BY <2>3, <3>1, <3>3, <4>1, <4>2, <4>3 DEF Publish, Register!Next, Register!Enrich
    <3>4. CASE snapshot' = Complete(held[c], call[c].updates, FALSE) /\ UNCHANGED <<closed, leases>>
      <4>1. /\ snapshot'.revision = snapshot.revision
            /\ snapshot'.documents = snapshot.documents
            /\ snapshot'.completed = snapshot.completed \cup call[c].updates
        BY <2>3, <3>2, <3>4 DEF Complete, Snapshots
      <4>2. snapshot.completed \subseteq Routes
        BY <3>2 DEF Snapshots
      <4> QED
        BY <2>3, <3>1, <3>4, <4>1, <4>2 DEF Register!Next, Register!Record
    <3> QED
      BY <2>1, <2>3, <3>3, <3>4 DEF Record, state
  <2> QED
    BY <2>1, <2>2, <2>3 DEF Record, state
<1>4. CASE Commit
  <2>1. CASE UNCHANGED state
    BY <2>1 DEF state, Register!vars
  <2>2. CASE ~closed /\ snapshot = held["attempt"] /\ Publish(Project(held["attempt"]))
    <3>1. snapshot \in Snapshots
      BY DEF TypeOK
    <3>2. /\ snapshot'.revision = snapshot.revision + 1
          /\ snapshot'.documents = snapshot.documents
          /\ snapshot'.completed = snapshot.completed
      BY <2>2, <3>1 DEF Publish, Project, Snapshots
    <3>3. leases' = {snapshot'.revision}
      BY <2>2, <3>2 DEF Leases, Publish
    <3>4. snapshot.completed \subseteq Routes
      BY <3>1 DEF Snapshots
    <3> QED
      BY <2>2, <3>2, <3>3, <3>4 DEF Publish, Register!Next, Register!Enrich
  <2> QED
    BY <1>4, <2>1, <2>2 DEF Commit
<1>5. CASE Close
  <2>1. leases' = {}
    BY <1>5 DEF Close, Leases
  <2> QED
    BY <1>5, <2>1 DEF Close, Register!Next, Register!Close
<1> QED
  BY <1>1, <1>2, <1>3, <1>4, <1>5, OtherSteps

\* Readers see one revision after the other, no completion is lost, and live work is
\* admitted under the newest revision alone: `publication.rs` implements the register.
THEOREM RegisterRefined == Spec => RegisterSpec
<1>1. Init => Register!Init
  BY DEF Init, First, Register!Init
<1>2. IInv /\ [Next]_vars => [Register!Next]_(Register!vars)
  BY RegisterStep
<1> QED
  BY <1>1, <1>2, Invariant, PTL DEF Spec, RegisterSpec, Register!Spec

\* A cancelled attempt says nothing more of the head it worked for.
THEOREM CancelledSilenced == Spec => CancelledStaysOut
<1> DEFINE Silent ==
      cancelled /\ snapshot'.documents = snapshot.documents
      => snapshot'.status = snapshot.status /\ snapshot'.changes = snapshot.changes
<1>1. IInv /\ [Next]_vars => [Silent]_vars
  <2> SUFFICES ASSUME IInv, [Next]_vars PROVE Silent
    OBVIOUS
  <2> USE DEF IInv
  <2>1. CASE UNCHANGED state
    BY <2>1 DEF state
  <2>2. CASE Replace
    <3>1. snapshot' = snapshot \/ snapshot' = candidate
      BY <2>2 DEF Replace, Publish, state
    <3>2. snapshot.documents # candidate.documents
      <4>1. snapshot.documents \in Nat /\ candidate.documents \in Nat
        BY PublicationAssumption DEF TypeOK, Snapshots, Heads
      <4> QED
        BY <2>2, <4>1 DEF Replace, Ahead
    <3> QED
      BY <3>1, <3>2
  <2>3. CASE \E c \in Recorders : Record(c)
    <3>1. PICK c \in Recorders : Record(c)
      BY <2>3
    <3>2. snapshot \in Snapshots
      BY DEF TypeOK
    <3>3. \/ UNCHANGED state
          \/ snapshot = held[c] /\ \E shows \in BOOLEAN :
               snapshot' = Complete(held[c], call[c].updates, shows)
      BY <3>1 DEF Record, Publish
    <3> QED
      BY <3>2, <3>3 DEF Complete, Snapshots, state
  <2>4. CASE Commit
    BY <2>4 DEF Commit, state
  <2>5. CASE Close
    BY <2>5 DEF Close
  <2> QED
    BY <2>1, <2>2, <2>3, <2>4, <2>5, OtherSteps
<1> QED
  BY <1>1, Invariant, PTL DEF Spec, CancelledStaysOut

\* Once close returned, what began earlier neither publishes nor installs.
THEOREM Fenced == Spec => FencedWhenClosed
<1> DEFINE Still == pc["shutdown"] \in {"task", "done"} => UNCHANGED <<snapshot, leases, installed>>
<1>1. IInv /\ [Next]_vars => [Still]_vars
  <2> SUFFICES ASSUME IInv, [Next]_vars, pc["shutdown"] \in {"task", "done"}
               PROVE UNCHANGED <<snapshot, leases, installed>>
    OBVIOUS
  <2>1. closed /\ build = Free
    BY DEF IInv, Fence
  <2>2. pc["attempt"] \notin {"install", "commit", "reoffer"}
    BY <2>1, PublicationAssumption DEF IInv, TypeOK
  <2>3. \A c \in Recorders : ~Record(c)
    BY <2>1, PublicationAssumption DEF IInv, TypeOK, Record, Recorders, Calling
  <2>4. ~Install /\ ~Commit /\ ~Close
    BY <2>2 DEF Install, Commit, Close
  <2>5. CASE UNCHANGED <<state, installed>>
    BY <2>5 DEF state
  <2>6. CASE Replace
    BY <2>1, <2>6 DEF Replace, state, store
  <2> QED
    BY <2>3, <2>4, <2>5, <2>6, OtherSteps, InstallOnly DEF Recorders
<1> QED
  BY <1>1, Invariant, PTL DEF Spec, FencedWhenClosed
=============================================================================
