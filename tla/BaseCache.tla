----------------------------- MODULE BaseCache -----------------------------
(* One namespace of the base cache (crates/mokly-compare/src/cache.rs) on a     *)
(* disk that several processes share: complete entries leased under shared      *)
(* entry locks, missing ones built under the exclusive lock, the least recently *)
(* used ones retired.  Nobody reads what is retired to `trash`; it is left out. *)
(*                                                                              *)
(* `staging` holds, besides the stages of source builds, the private copies of  *)
(* partial extractions.  Dependencies are installed where they stay, in         *)
(* `entries`.  File locks end with their holder; what is on disk does not.      *)
EXTENDS Integers, FiniteSets

CONSTANTS
    Callers,     \* threads and processes that open the cache
    Keys,        \* content keys
    Privates,    \* names derived from a key for partial extractions
    Kinds,       \* of the namespace: a subset of {"sources", "dependencies"}
    Size,        \* bytes an entry is built with, its receipt included
    Capacity,    \* the namespace's limit
    MaxUsed,     \* where the access sequence saturates
    HalfRemovals,    \* whether the removal of an entry with a receipt may be interrupted
    MaxCalls,    \* bound: calls
    MaxCrashes,  \* bound: processes that exit in the middle and losses of power
    None

ASSUME CacheAssumption ==
    /\ Keys \cap Privates = {} /\ None \notin Callers \cup Keys
    /\ IsFiniteSet(Keys)
    /\ Kinds \subseteq {"sources", "dependencies"}
    /\ Size \in [Keys -> Nat] /\ Capacity \in Nat /\ MaxUsed \in Nat \ {0}
    /\ HalfRemovals \in BOOLEAN
    /\ MaxCalls \in Nat /\ MaxCrashes \in Nat

VARIABLES
    kind,                \* Kind of the namespace
    entries, staging,    \* the trees under entries/<key> and staging/<name>
    writer, readers,     \* locks/<name>.lock: its exclusive and shared holders
    namespace,           \* who holds state.lock
    pc, key, mode,       \* each caller: its place, its key, `get` or `lease`
    private,             \* the name of a partial extraction
    counted,             \* the bytes of its own entry, as it counted them
    seen, todo, room,    \* evict: receipts as read, victims left, bytes that remain
    cancelled, calls, crashes

disk == <<entries, staging>>
locks == <<writer, readers, namespace>>
scan == <<counted, seen, todo, room>>
bounds == <<calls, crashes>>
vars == <<kind, disk, locks, pc, key, mode, private, scan, cancelled, bounds>>

Names == Keys \cup Privates

\* A receipt: when the entry was last used, and the bytes it is retained with.
Receipt == [used : 0 .. MaxUsed, bytes : 0 .. Capacity]
NoReceipt == [used |-> 0, bytes |-> 0]

\* A tree: its data, `written` before it is flushed; their size; the receipt, and
\* whether it is durable.
Tree == [data : {"none", "part", "written", "full"}, size : Nat, receipt : Receipt, firm : BOOLEAN]
Absent == [data |-> "none", size |-> 0, receipt |-> NoReceipt, firm |-> FALSE]
Fresh == [Absent EXCEPT !.data = "part"]

Unread == [k \in Keys |-> NoReceipt]

Written(t) == t.data \in {"written", "full"}

InPlace == kind = "dependencies"

Retained(k) == entries[k].receipt.bytes

\* The sum over the entries in S, as the number of their bytes.
Kept(S) == Cardinality(UNION {{k} \X (1 .. Retained(k)) : k \in S})

\* Earlier processes may have left complete entries; installs may have grown.
Init ==
    /\ kind \in Kinds
    /\ \E kept, grown \in SUBSET Keys, used \in [Keys -> 1 .. MaxUsed] :
        /\ \A k \in kept : Size[k] <= Capacity
        /\ \A j, k \in kept : used[j] = used[k] => j = k
        /\ grown # {} => InPlace /\ grown \subseteq kept
        /\ entries = [k \in Keys |->
             IF k \notin kept THEN Absent
             ELSE [data |-> "full", size |-> Size[k] + IF k \in grown THEN 1 ELSE 0,
                   receipt |-> [used |-> used[k], bytes |-> Size[k]], firm |-> TRUE]]
    /\ Kept(Keys) <= Capacity
    /\ staging = [n \in Names |-> Absent]
    /\ writer = [n \in Names |-> None]
    /\ readers = [k \in Keys |-> {}]
    /\ namespace = None
    /\ pc = [p \in Callers |-> "idle"]
    /\ key = [p \in Callers |-> None]
    /\ mode = [p \in Callers |-> "get"]
    /\ private = [p \in Callers |-> None]
    /\ counted = [p \in Callers |-> 0]
    /\ seen = [p \in Callers |-> Unread]
    /\ todo = [p \in Callers |-> {}]
    /\ room = [p \in Callers |-> 0]
    /\ cancelled = [p \in Callers |-> FALSE]
    /\ calls = 0 /\ crashes = 0

-----------------------------------------------------------------------------
Goto(p, place) == pc' = [pc EXCEPT ![p] = place]

UnlockedByWriters(n) == writer[n] = None

\* try_lock would succeed.
Unlocked(n) == writer[n] = None /\ (n \in Keys => readers[n] = {})

\* inspect: a receipt, a data root, and a recount within the limit.
Complete(k) ==
    /\ entries[k].receipt.used > 0 /\ entries[k].receipt.bytes <= Capacity
    /\ entries[k].data # "none" /\ entries[k].size <= Capacity

\* Where a build writes.
Stage(k) == IF InPlace THEN entries[k] ELSE staging[k]
PutStage(k, t) ==
    /\ entries' = IF InPlace THEN [entries EXCEPT ![k] = t] ELSE entries
    /\ staging' = IF InPlace THEN staging ELSE [staging EXCEPT ![k] = t]

\* The handles a caller has open are closed.
Unlock(p) ==
    /\ writer' = [n \in Names |-> IF writer[n] = p THEN None ELSE writer[n]]
    /\ readers' = [k \in Keys |-> readers[k] \ {p}]
    /\ namespace' = IF namespace = p THEN None ELSE namespace

\* The locals of evict.
Forget(p) ==
    /\ counted' = [counted EXCEPT ![p] = 0]
    /\ seen' = [seen EXCEPT ![p] = Unread]
    /\ todo' = [todo EXCEPT ![p] = {}]
    /\ room' = [room EXCEPT ![p] = 0]

\* The call is over.
Left(p) ==
    /\ Unlock(p) /\ Forget(p)
    /\ Goto(p, "idle")
    /\ key' = [key EXCEPT ![p] = None]
    /\ mode' = [mode EXCEPT ![p] = "get"]
    /\ private' = [private EXCEPT ![p] = None]
    /\ cancelled' = [cancelled EXCEPT ![p] = FALSE]

-----------------------------------------------------------------------------
(* get and lease                                                               *)

Open(p, k, m) ==
    /\ pc[p] = "idle" /\ calls < MaxCalls
    /\ calls' = calls + 1
    /\ key' = [key EXCEPT ![p] = k]
    /\ mode' = [mode EXCEPT ![p] = m]
    /\ Goto(p, "share")
    /\ UNCHANGED <<kind, disk, locks, private, scan, cancelled, crashes>>

Share(p) ==
    /\ pc[p] = "share" /\ writer[key[p]] = None
    /\ readers' = [readers EXCEPT ![key[p]] = @ \cup {p}]
    /\ Goto(p, "inspect")
    /\ UNCHANGED <<kind, disk, writer, namespace, key, mode, private, scan, cancelled, bounds>>

Inspect(p) ==
    /\ pc[p] = "inspect"
    /\ \/ /\ Complete(key[p])
          /\ counted' = [counted EXCEPT ![p] = entries[key[p]].size]
          /\ Goto(p, "hit")
          /\ UNCHANGED <<locks, key, mode, private, seen, todo, room, cancelled>>
       \/ /\ ~Complete(key[p]) /\ mode[p] = "get"
          /\ Unlock(p) /\ Goto(p, "try")
          /\ UNCHANGED <<key, mode, private, scan, cancelled>>
       \/ /\ ~Complete(key[p]) /\ mode[p] = "lease"
          /\ Left(p)
    /\ UNCHANGED <<kind, disk, bounds>>

-----------------------------------------------------------------------------
(* evict, under state.lock, for a hit and for an adoption                      *)

ReadOthers(p) ==
    /\ pc[p] \in {"hit", "adopt"} /\ namespace = None
    /\ namespace' = p
    /\ seen' = [seen EXCEPT ![p] = [k \in Keys |-> entries[k].receipt]]
    /\ todo' = [todo EXCEPT ![p] = {k \in Keys \ {key[p]} : entries[k] # Absent}]
    /\ room' = [room EXCEPT ![p] = Capacity - Kept(Keys \ {key[p]})]
    /\ Goto(p, IF pc[p] = "hit" THEN "touch" ELSE "seal")
    /\ UNCHANGED <<kind, disk, writer, readers, key, mode, private, counted, cancelled, bounds>>

\* Take state.lock and read every receipt.
Read(p) ==
    /\ pc[p] \in {"hit", "adopt"} /\ namespace = None
    /\ namespace' = p
    /\ seen' = [seen EXCEPT ![p] = [k \in Keys |-> entries[k].receipt]]
    /\ todo' = [todo EXCEPT ![p] = {k \in Keys \ {key[p]} : entries[k] # Absent}]
    /\ room' = [room EXCEPT ![p] = Capacity - counted[p] - Kept(Keys \ {key[p]})]
    /\ Goto(p, IF pc[p] = "hit" THEN "touch" ELSE "seal")
    /\ UNCHANGED <<kind, disk, writer, readers, key, mode, private, counted, cancelled, bounds>>

\* The victim is the least recently used of those not yet looked at.
Oldest(p, v) == \A w \in todo[p] : seen[p][v].used <= seen[p][w].used

Evict(p) ==
    /\ pc[p] \in {"touch", "seal"} /\ room[p] < 0
    /\ \E v \in todo[p] :
        /\ Oldest(p, v)
        /\ todo' = [todo EXCEPT ![p] = @ \ {v}]
        /\ IF Unlocked(v)
           THEN /\ entries' = [entries EXCEPT ![v] = Absent]
                /\ room' = [room EXCEPT ![p] = @ + seen[p][v].bytes]
           ELSE UNCHANGED <<entries, room>>
    /\ UNCHANGED <<kind, staging, locks, pc, key, mode, private, counted, seen, cancelled, bounds>>

\* The receipt of an access after all those on record.
Newest(p) ==
    {[used |-> IF seen[p][k].used < MaxUsed THEN seen[p][k].used + 1 ELSE MaxUsed,
      bytes |-> counted[p]] : k \in {j \in Keys : \A i \in Keys : seen[p][i].used <= seen[p][j].used}}

TouchHolding(p) ==
    /\ pc[p] = "touch" /\ room[p] >= 0
    /\ \E receipt \in Newest(p) :
        entries' = [entries EXCEPT ![key[p]].receipt = receipt, ![key[p]].firm = FALSE]
    /\ Forget(p)
    /\ Goto(p, "leased")
    /\ UNCHANGED <<kind, staging, locks, key, mode, private, cancelled, bounds>>

\* A hit's access update is not flushed.
Touch(p) ==
    /\ pc[p] = "touch" /\ room[p] >= 0
    /\ \E receipt \in Newest(p) :
        entries' = [entries EXCEPT ![key[p]].receipt = receipt, ![key[p]].firm = FALSE]
    /\ namespace' = None /\ Forget(p)
    /\ Goto(p, "leased")
    /\ UNCHANGED <<kind, staging, writer, readers, key, mode, private, cancelled, bounds>>

-----------------------------------------------------------------------------
(* build                                                                       *)

TryBuild(p) ==
    /\ pc[p] = "try"
    /\ IF Unlocked(key[p])
       THEN writer' = [writer EXCEPT ![key[p]] = p] /\ Goto(p, "again")
       ELSE Goto(p, "share") /\ UNCHANGED writer
    /\ UNCHANGED <<kind, disk, readers, namespace, key, mode, private, scan, cancelled, bounds>>

AgainUnseen(p) ==
    /\ pc[p] = "again"
    /\ Goto(p, "stages")
    /\ UNCHANGED <<kind, disk, locks, key, mode, private, scan, cancelled, bounds>>

\* Who waited for another's build finds the entry.
Again(p) ==
    /\ pc[p] = "again"
    /\ IF Complete(key[p])
       THEN writer' = [writer EXCEPT ![key[p]] = None] /\ Goto(p, "share")
       ELSE Goto(p, "stages") /\ UNCHANGED writer
    /\ UNCHANGED <<kind, disk, readers, namespace, key, mode, private, scan, cancelled, bounds>>

\* clean_stages: what no living process holds goes to the trash.
CleanStages(p) ==
    /\ pc[p] = "stages" /\ namespace = None
    /\ LET left == {k \in Keys : entries[k].receipt.used = 0 /\ Unlocked(k)}
           stages == {n \in Names : n # key[p] /\ Unlocked(n)}
       IN  /\ entries' = [k \in Keys |-> IF k \in left THEN Absent ELSE entries[k]]
           /\ staging' = [n \in Names |-> IF n \in stages THEN Absent ELSE staging[n]]
    /\ Goto(p, "clear")
    /\ UNCHANGED <<kind, locks, key, mode, private, scan, cancelled, bounds>>

\* What is left of a tree while it is removed, file by file in no order.
Halves(t) ==
    {[t EXCEPT !.data = d, !.size = IF d = t.data THEN @ ELSE 0, !.receipt = r] :
        d \in {"none", "part", t.data}, r \in {NoReceipt, t.receipt}} \ {Absent}

\* remove(target), and then of the stage.
Clear(p) ==
    /\ pc[p] = "clear"
    /\ IF entries[key[p]] = Absent
       THEN UNCHANGED entries
       ELSE \E h \in Halves(entries[key[p]]) : entries' = [entries EXCEPT ![key[p]] = h]
    /\ Goto(p, "cleared")
    /\ UNCHANGED <<kind, staging, locks, key, mode, private, scan, cancelled, bounds>>

Prepare(p) ==
    /\ pc[p] = "cleared"
    /\ entries' = [entries EXCEPT ![key[p]] = IF InPlace THEN Fresh ELSE Absent]
    /\ staging' = [staging EXCEPT ![key[p]] = IF InPlace THEN Absent ELSE Fresh]
    /\ Goto(p, "build")
    /\ UNCHANGED <<kind, locks, key, mode, private, scan, cancelled, bounds>>

\* The builder, and the size of what it built.  An extraction with conversion
\* warnings is not reusable.
Build(p) ==
    /\ pc[p] = "build" /\ Size[key[p]] <= Capacity
    /\ PutStage(key[p], [Fresh EXCEPT !.data = "written", !.size = Size[key[p]]])
    /\ counted' = [counted EXCEPT ![p] = Size[key[p]]]
    /\ \/ Goto(p, "flush")
       \/ ~InPlace /\ Goto(p, "private")
    /\ UNCHANGED <<kind, locks, key, mode, private, seen, todo, room, cancelled, bounds>>

Synchronize(p) ==
    /\ pc[p] = "flush"
    /\ PutStage(key[p], [Stage(key[p]) EXCEPT !.data = "full"])
    /\ Goto(p, "adopt")
    /\ UNCHANGED <<kind, locks, key, mode, private, scan, cancelled, bounds>>

\* The durable receipt; an install is complete with it.
Seal(p) ==
    /\ pc[p] = "seal" /\ room[p] >= 0
    /\ \E receipt \in Newest(p) :
        PutStage(key[p], [Stage(key[p]) EXCEPT !.receipt = receipt, !.firm = TRUE])
    /\ IF InPlace THEN Unlock(p) /\ Goto(p, "share")
                  ELSE Goto(p, "publish") /\ UNCHANGED locks
    /\ Forget(p)
    /\ UNCHANGED <<kind, key, mode, private, cancelled, bounds>>

Publish(p) ==
    /\ pc[p] = "publish"
    /\ entries' = [entries EXCEPT ![key[p]] = staging[key[p]]]
    /\ staging' = [staging EXCEPT ![key[p]] = Absent]
    /\ Unlock(p)
    /\ Goto(p, "share")
    /\ UNCHANGED <<kind, key, mode, private, scan, cancelled, bounds>>

\* transient: the stage moves to a name nobody else looks for.
Transient(p) ==
    /\ pc[p] = "private" /\ namespace = None
    /\ \E n \in Privates :
        /\ writer[n] = None /\ staging[n] = Absent
        /\ private' = [private EXCEPT ![p] = n]
        /\ staging' = [staging EXCEPT ![n] = staging[key[p]], ![key[p]] = Absent]
        /\ writer' = [writer EXCEPT ![n] = p, ![key[p]] = None]
    /\ Goto(p, "partial")
    /\ UNCHANGED <<kind, entries, readers, namespace, key, mode, scan, cancelled, bounds>>

-----------------------------------------------------------------------------
(* What a lease is used for, and its end                                       *)

Drop(p) ==
    /\ pc[p] = "leased"
    /\ Left(p)
    /\ UNCHANGED <<kind, disk, bounds>>

\* remove looks at the cancellation first.
DropPartial(p) ==
    /\ pc[p] = "partial"
    /\ staging' = IF cancelled[p] THEN staging ELSE [staging EXCEPT ![private[p]] = Absent]
    /\ Left(p)
    /\ UNCHANGED <<kind, entries, bounds>>

\* A valid entry may retain consumer cache files, more than the limit admits.
Grow(p) ==
    /\ InPlace /\ pc[p] = "leased"
    /\ entries[key[p]].size <= Capacity
    /\ entries' = [entries EXCEPT ![key[p]].size = @ + 1]
    /\ UNCHANGED <<kind, staging, locks, pc, key, mode, private, scan, cancelled, bounds>>

-----------------------------------------------------------------------------
(* Failures                                                                    *)

\* The builder failed, or the entry does not fit beside those in use.
Fail(p) ==
    /\ ~cancelled[p]
    /\ \/ pc[p] = "build"
       \/ pc[p] = "seal" /\ room[p] < 0 /\ todo[p] = {}
    /\ PutStage(key[p], Absent)
    /\ Left(p)
    /\ UNCHANGED <<kind, bounds>>

\* A hit that finds no room for its own entry.
Crowded(p) ==
    /\ pc[p] = "touch" /\ room[p] < 0 /\ todo[p] = {}
    /\ Left(p)
    /\ UNCHANGED <<kind, disk, bounds>>

Interruptible(p) == pc[p] = "cleared" => HalfRemovals \/ entries[key[p]].receipt.used = 0

Cancel(p) ==
    /\ pc[p] # "idle" /\ ~cancelled[p]
    /\ cancelled' = [cancelled EXCEPT ![p] = TRUE]
    /\ UNCHANGED <<kind, disk, locks, pc, key, mode, private, scan, bounds>>

\* A check finds the cancellation.  What was built stays: its removal is
\* cancelled too.
GiveUp(p) ==
    /\ cancelled[p] /\ Interruptible(p)
    /\ pc[p] \in {"share", "inspect", "hit", "touch", "try", "again", "stages",
                  "clear", "cleared", "build", "flush", "private", "adopt", "seal"}
    /\ Left(p)
    /\ UNCHANGED <<kind, disk, bounds>>

Crash(p) ==
    /\ pc[p] # "idle" /\ Interruptible(p) /\ crashes < MaxCrashes
    /\ crashes' = crashes + 1
    /\ Left(p)
    /\ UNCHANGED <<kind, disk, calls>>

\* What was not flushed may be lost.  What is staged waits for clean_stages anyway.
PowerLoss ==
    /\ crashes < MaxCrashes /\ \A p \in Callers : Interruptible(p)
    /\ crashes' = crashes + 1
    /\ \E data \in SUBSET {k \in Keys : entries[k].data = "written"},
          receipts \in SUBSET {k \in Keys : entries[k].receipt.used > 0 /\ ~entries[k].firm} :
        entries' = [k \in Keys |->
            [entries[k] EXCEPT !.data = IF k \in data THEN "part" ELSE @,
                               !.receipt = IF k \in receipts THEN NoReceipt ELSE @]]
    /\ writer' = [n \in Names |-> None]
    /\ readers' = [k \in Keys |-> {}]
    /\ namespace' = None
    /\ pc' = [p \in Callers |-> "idle"]
    /\ key' = [p \in Callers |-> None]
    /\ mode' = [p \in Callers |-> "get"]
    /\ private' = [p \in Callers |-> None]
    /\ counted' = [p \in Callers |-> 0]
    /\ seen' = [p \in Callers |-> Unread]
    /\ todo' = [p \in Callers |-> {}]
    /\ room' = [p \in Callers |-> 0]
    /\ cancelled' = [p \in Callers |-> FALSE]
    /\ UNCHANGED <<kind, staging, calls>>

-----------------------------------------------------------------------------
Step(p) ==
    \/ Share(p) \/ Inspect(p)
    \/ Read(p) \/ Evict(p) \/ Touch(p) \/ Crowded(p)
    \/ TryBuild(p) \/ Again(p) \/ CleanStages(p) \/ Clear(p) \/ Prepare(p)
    \/ Build(p) \/ Synchronize(p) \/ Seal(p) \/ Publish(p) \/ Transient(p)
    \/ Fail(p) \/ GiveUp(p)

Next ==
    \/ \E p \in Callers :
        \/ \E k \in Keys, m \in {"get", "lease"} : Open(p, k, m)
        \/ Step(p)
        \/ Drop(p) \/ DropPartial(p) \/ Grow(p)
        \/ Cancel(p) \/ Crash(p)
    \/ PowerLoss

Spec == Init /\ [][Next]_vars

\* state.lock is polled every five milliseconds, by everybody, and held for
\* metadata only.
FairSpec ==
    /\ Spec
    /\ \A p \in Callers :
        /\ WF_vars(Step(p))
        /\ SF_vars(Read(p)) /\ SF_vars(CleanStages(p)) /\ SF_vars(Transient(p))

-----------------------------------------------------------------------------
(* Properties                                                                  *)

Holding == {"hit", "touch", "leased"}
Builds == {"stages", "clear", "cleared", "build", "flush", "private", "adopt", "seal", "publish"}

TypeOK ==
    /\ kind \in Kinds
    /\ entries \in [Keys -> Tree] /\ staging \in [Names -> Tree]
    /\ writer \in [Names -> Callers \cup {None}]
    /\ readers \in [Keys -> SUBSET Callers]
    /\ namespace \in Callers \cup {None}
    /\ pc \in [Callers -> {"idle", "share", "inspect", "try", "again", "partial"} \cup Holding \cup Builds]
    /\ key \in [Callers -> Keys \cup {None}]
    /\ mode \in [Callers -> {"get", "lease"}]
    /\ private \in [Callers -> Privates \cup {None}]
    /\ counted \in [Callers -> 0 .. Capacity]
    /\ seen \in [Callers -> [Keys -> Receipt]]
    /\ todo \in [Callers -> SUBSET Keys]
    /\ DOMAIN room = Callers
    /\ cancelled \in [Callers -> BOOLEAN]
    /\ calls \in Nat /\ crashes \in Nat

\* What a caller was handed is whole as long as it holds it, whatever others
\* evict, clean, rebuild or leave behind: a leased entry, and the private copy of
\* a partial extraction.
LeasesAreWhole ==
    \A p \in Callers :
        /\ pc[p] \in Holding => Written(entries[key[p]])
        /\ pc[p] = "partial" => Written(staging[private[p]])

\* Completed entries obey the namespace bound whenever one is adopted.
WithinCapacity == Kept(Keys) <= Capacity

\* Who builds or adopts an entry, and so keeps everybody else from it, comes to
\* an end, though it waits for state.lock, finds no room or is cancelled.
BuildsEnd == \A p \in Callers : pc[p] \in Builds ~> pc[p] \notin Builds

BuilderOf(k) == IF writer[k] # None /\ pc[writer[k]] \in Builds THEN writer[k] ELSE None

Entries == INSTANCE LeasedEntries WITH
    complete <- {k \in Keys : Complete(k) /\ BuilderOf(k) = None},
    lease <- [p \in Callers |-> IF pc[p] \in Holding THEN key[p] ELSE None],
    builder <- [k \in Keys |-> BuilderOf(k)]

\* The cache implements the leased entries.
EntriesSpec == Entries!Spec
=============================================================================
