-------------------------- MODULE BaseCache_proofs --------------------------
(***************************************************************************)
(* Theorems about the base cache, for any number of callers and keys and   *)
(* any sizes.                                                              *)
(***************************************************************************)
EXTENDS BaseCache, TLAPS, FiniteSetTheorems

-----------------------------------------------------------------------------
(* The inductive invariant *)

Writing == {"again"} \cup Builds
Reading == {"inspect"} \cup Holding
Filling == {"build", "flush", "private", "adopt", "seal", "publish"}

\* A shared lock is held by who looks at the entry or leases it.
ReadLocks ==
    /\ \A p \in Callers : pc[p] # "idle" => key[p] \in Keys
    /\ \A p \in Callers : pc[p] \in Reading => p \in readers[key[p]]
    /\ \A k \in Keys : \A p \in readers[k] : key[p] = k /\ pc[p] \in Reading

\* An exclusive lock is held by who builds the entry, and by nobody else in any way.
WriteLocks ==
    /\ \A p \in Callers : pc[p] \in Writing => writer[key[p]] = p
    /\ \A p \in Callers : pc[p] = "partial" => private[p] \in Privates /\ writer[private[p]] = p
    /\ \A k \in Keys : writer[k] # None =>
         key[writer[k]] = k /\ pc[writer[k]] \in Writing /\ readers[k] = {}

\* What a build has made so far.
StageOf(p) ==
    /\ pc[p] \in {"adopt", "seal"} => Stage(key[p]).data = "full"
    /\ pc[p] = "publish" => ~InPlace /\ staging[key[p]].data = "full"
    /\ pc[p] = "private" => ~InPlace /\ Written(staging[key[p]])
    /\ pc[p] = "partial" => Written(staging[private[p]])

Stages == \A p \in Callers : StageOf(p)

\* A receipt comes with data that were flushed, unless the entry is being removed.
\* What follows is known of entries only where a removal is not interrupted.
EntryOf(k) ==
    entries[k].receipt.used > 0 =>
        \/ HalfRemovals \/ entries[k].data = "full"
        \/ writer[k] # None /\ pc[writer[k]] = "cleared"

\* A leased entry is full; one that is built is not complete, and has no receipt
\* from its first file to its last.
HolderOf(p) ==
    HalfRemovals = FALSE =>
    /\ pc[p] \in Holding => entries[key[p]].data = "full" /\ entries[key[p]].receipt.used > 0
    /\ pc[p] \in {"stages", "clear"} => ~Complete(key[p])
    /\ pc[p] \in Filling => entries[key[p]].receipt.used = 0

Whole == (\A k \in Keys : EntryOf(k)) /\ (\A p \in Callers : HolderOf(p))

IInv == TypeOK /\ ReadLocks /\ WriteLocks /\ Stages /\ Whole

-----------------------------------------------------------------------------
(* The invariant is inductive *)

LEMMA AbsentTyped ==
    /\ NoReceipt \in Receipt /\ Unread \in [Keys -> Receipt]
    /\ Absent \in Tree /\ Fresh \in Tree
    /\ Absent.data = "none" /\ Fresh.data = "part"
    /\ Absent.receipt = NoReceipt /\ Fresh.receipt = NoReceipt /\ NoReceipt.used = 0
<1>1. NoReceipt \in Receipt
  BY CacheAssumption DEF NoReceipt, Receipt
<1>2. Unread \in [Keys -> Receipt]
  BY <1>1 DEF Unread
<1>3. Absent \in Tree
  BY <1>1 DEF Absent, Tree
<1>4. Fresh \in Tree
  BY <1>3 DEF Fresh, Tree, Absent
<1> QED
  BY <1>1, <1>2, <1>3, <1>4 DEF Absent, Fresh, NoReceipt

\* The receipt of a new access is one.
LEMMA NewestTyped == ASSUME TypeOK, NEW p \in Callers
    PROVE Newest(p) \subseteq Receipt /\ \A r \in Newest(p) : r.used > 0
BY CacheAssumption DEF TypeOK, Newest, Receipt

\* A tree with some of its parts replaced is one.
LEMMA TreeUpdate ==
    ASSUME NEW t \in Tree, NEW d \in {"none", "part", "written", "full"}, NEW z \in Nat,
           NEW r \in Receipt, NEW f \in BOOLEAN
    PROVE /\ [t EXCEPT !.data = d] \in Tree /\ [t EXCEPT !.size = z] \in Tree
          /\ [t EXCEPT !.data = d, !.size = z] \in Tree
          /\ [t EXCEPT !.data = d, !.receipt = r] \in Tree
          /\ [t EXCEPT !.data = d, !.size = z, !.receipt = r] \in Tree
          /\ [t EXCEPT !.receipt = r, !.firm = f] \in Tree
BY DEF Tree

\* Who builds an entry has it to itself.
LEMMA BuilderOwns == ASSUME IInv, NEW p \in Callers, pc[p] \in Writing
    PROVE /\ key[p] \in Keys /\ writer[key[p]] = p
          /\ \A q \in Callers : q # p /\ pc[q] \in Reading \cup Writing => key[q] # key[p]
<1> USE CacheAssumption DEF IInv
<1>1. key[p] \in Keys /\ writer[key[p]] = p
  BY DEF ReadLocks, WriteLocks, Writing, Builds
<1>2. readers[key[p]] = {}
  BY <1>1 DEF WriteLocks
<1>3. ASSUME NEW q \in Callers, q # p, pc[q] \in Reading \cup Writing PROVE key[q] # key[p]
  BY <1>1, <1>2, <1>3 DEF ReadLocks, WriteLocks
<1> QED
  BY <1>1, <1>3

LEMMA ReaderHolds == ASSUME IInv, NEW p \in Callers, pc[p] \in Reading
    PROVE /\ key[p] \in Keys /\ p \in readers[key[p]] /\ writer[key[p]] = None
          /\ \A q \in Callers : pc[q] \in Writing => key[q] # key[p]
BY CacheAssumption DEF IInv, ReadLocks, WriteLocks, TypeOK, Writing, Reading, Holding, Builds

\* What a builder does with its entry leaves the others' as they are.
LEMMA OthersKeep ==
    ASSUME IInv, NEW p \in Callers, pc[p] \in Writing, kind' = kind,
           \A q \in Callers : q # p => pc'[q] = pc[q] /\ key'[q] = key[q] /\ private'[q] = private[q],
           \A k \in Keys : k # key[p] => entries'[k] = entries[k] /\ writer'[k] = writer[k],
           \A n \in Names : n # key[p] /\ writer[n] # None => staging'[n] = staging[n]
    PROVE /\ \A q \in Callers : q # p => StageOf(q)' /\ HolderOf(q)'
          /\ \A k \in Keys : k # key[p] => EntryOf(k)'
<1> USE CacheAssumption DEF IInv, Names
<1>1. ASSUME NEW q \in Callers, q # p PROVE StageOf(q)'
  <2>1. pc[q] \in Writing => key[q] \in Keys /\ key[q] # key[p] /\ writer[key[q]] # None
    BY <1>1, BuilderOwns DEF WriteLocks, TypeOK
  <2>2. pc[q] = "partial" => private[q] \in Privates /\ private[q] # key[p] /\ writer[private[q]] # None
    BY BuilderOwns DEF WriteLocks
  <2> QED
    BY <1>1, <2>1, <2>2 DEF Stages, StageOf, Stage, InPlace, Written, Writing, Builds
<1>2. ASSUME NEW q \in Callers, q # p PROVE HolderOf(q)'
  <2>1. pc[q] \in Reading \cup Writing => key[q] \in Keys /\ key[q] # key[p]
    BY <1>2, BuilderOwns, ReaderHolds
  <2> QED
    BY <1>2, <2>1 DEF Whole, HolderOf, Complete, Writing, Reading, Holding, Builds, Filling
<1>3. ASSUME NEW k \in Keys, k # key[p] PROVE EntryOf(k)'
  BY <1>3 DEF Whole, EntryOf, WriteLocks, TypeOK
<1> QED
  BY <1>1, <1>2, <1>3

LEMMA OpenInv == ASSUME IInv, NEW p \in Callers, NEW k \in Keys, NEW m \in {"get", "lease"}, Open(p, k, m) PROVE IInv'
<1> USE CacheAssumption, AbsentTyped DEF IInv, Open, Goto, disk, locks, scan, bounds, Names
<1>1. TypeOK'
  BY DEF TypeOK, ReadLocks, Holding, Builds
<1>2. ReadLocks'
  BY DEF ReadLocks, TypeOK, Reading, Holding, Builds
<1>3. WriteLocks'
  BY DEF WriteLocks, ReadLocks, TypeOK, Writing, Reading, Holding, Builds
<1>4. Stages'
  BY DEF Stages, StageOf, WriteLocks, ReadLocks, TypeOK, Stage, InPlace, Written, Writing, Builds
<1>5. Whole'
  BY DEF Whole, HolderOf, EntryOf, WriteLocks, ReadLocks, Stages, StageOf, TypeOK, Complete, Tree, Receipt, Writing, Reading, Holding, Builds, Filling
<1> QED
  BY <1>1, <1>2, <1>3, <1>4, <1>5

LEMMA ShareInv == ASSUME IInv, NEW p \in Callers, Share(p) PROVE IInv'
<1> USE CacheAssumption, AbsentTyped DEF IInv, Share, Goto, disk, locks, scan, bounds, Names
<1>1. TypeOK'
  BY DEF TypeOK, ReadLocks, Holding, Builds
<1>2. ReadLocks'
  BY DEF ReadLocks, TypeOK, Reading, Holding, Builds
<1>3. WriteLocks'
  BY DEF WriteLocks, ReadLocks, TypeOK, Writing, Reading, Holding, Builds
<1>4. Stages'
  BY DEF Stages, StageOf, WriteLocks, ReadLocks, TypeOK, Stage, InPlace, Written, Writing, Builds
<1>5. Whole'
  BY DEF Whole, HolderOf, EntryOf, WriteLocks, ReadLocks, Stages, StageOf, TypeOK, Complete, Tree, Receipt, Writing, Reading, Holding, Builds, Filling
<1> QED
  BY <1>1, <1>2, <1>3, <1>4, <1>5

\* A call that ends leaves no lock, and an entry that is not half removed.
LEMMA LeftInv == ASSUME IInv, NEW p \in Callers, pc[p] # "idle", Left(p), UNCHANGED <<kind, disk, calls>>,
                        crashes' \in Nat,
                        pc[p] = "cleared" => HalfRemovals \/ entries[key[p]].receipt.used = 0 PROVE IInv'
<1> USE CacheAssumption, AbsentTyped DEF IInv, Left, Unlock, Forget, Goto, disk, Names
<1>1. TypeOK'
  BY DEF TypeOK, Holding, Builds
<1>2. ReadLocks'
  BY DEF ReadLocks, TypeOK, Reading, Holding, Builds
<1>3. WriteLocks'
  BY DEF WriteLocks, ReadLocks, TypeOK, Writing, Reading, Holding, Builds
<1>4. Stages'
  BY DEF Stages, StageOf, TypeOK, Stage, InPlace, Written
<1>5. Whole'
  BY DEF Whole, HolderOf, EntryOf, WriteLocks, ReadLocks, TypeOK, Complete, Writing, Reading, Holding, Builds, Filling
<1> QED
  BY <1>1, <1>2, <1>3, <1>4, <1>5

LEMMA InspectInv == ASSUME IInv, NEW p \in Callers, Inspect(p) PROVE IInv'
<1> USE CacheAssumption DEF IInv, Inspect, Goto, disk, locks, bounds, Names
<1>0. key[p] \in Keys /\ p \in readers[key[p]] /\ writer[key[p]] = None
  BY DEF ReadLocks, WriteLocks, TypeOK, Reading
<1>1. CASE Complete(key[p]) /\ pc' = [pc EXCEPT ![p] = "hit"]
  <2> USE <1>0, <1>1
  <2>0. /\ counted' = [counted EXCEPT ![p] = entries[key[p]].size]
        /\ UNCHANGED <<kind, disk, locks, key, mode, private, seen, todo, room, cancelled, bounds>>
    BY DEF TypeOK, Holding, Builds, Left
  <2>a. entries[key[p]].size \in 0 .. Capacity
    BY DEF Complete, TypeOK, Tree
  <2>1. TypeOK'
    BY <2>0, <2>a DEF TypeOK, Holding
  <2>2. ReadLocks'
    BY <2>0 DEF ReadLocks, TypeOK, Reading, Holding
  <2>3. WriteLocks'
    BY <2>0 DEF WriteLocks, TypeOK, Writing, Builds
  <2>4. Stages'
    BY <2>0 DEF Stages, StageOf, TypeOK, Stage, InPlace, Written
  <2>5. HalfRemovals = FALSE => entries[key[p]].data = "full"
    BY DEF Whole, HolderOf, EntryOf, Complete, TypeOK, Tree
  <2>6. Whole'
    BY <2>0, <2>5 DEF Whole, HolderOf, EntryOf, TypeOK, WriteLocks, Complete, Holding, Filling, Writing, Builds
  <2> QED
    BY <2>1, <2>2, <2>3, <2>4, <2>6
<1>2. CASE ~Complete(key[p]) /\ mode[p] = "get" /\ Unlock(p) /\ Goto(p, "try")
           /\ UNCHANGED <<key, mode, private, scan, cancelled>>
  <2> USE <1>0, <1>2 DEF Unlock, scan
  <2>1. TypeOK'
    BY DEF TypeOK
  <2>2. ReadLocks'
    BY DEF ReadLocks, TypeOK, Reading, Holding
  <2>3. WriteLocks'
    BY DEF WriteLocks, ReadLocks, TypeOK, Writing, Builds
  <2>4. Stages'
    BY DEF Stages, StageOf, TypeOK, Stage, InPlace, Written
  <2>5. Whole'
    BY DEF Whole, HolderOf, EntryOf, WriteLocks, TypeOK, Complete, Holding, Filling, Writing, Builds
  <2> QED
    BY <2>1, <2>2, <2>3, <2>4, <2>5
<1>3. CASE Left(p)
  BY <1>3, LeftInv DEF TypeOK
<1> QED
  BY <1>1, <1>2, <1>3

LEMMA ReadInv == ASSUME IInv, NEW p \in Callers, Read(p) PROVE IInv'
<1> USE CacheAssumption, AbsentTyped DEF IInv, Read, Goto, disk, locks, scan, bounds, Names
<1>1. TypeOK'
  <2>1. entries' \in [Keys -> Tree] /\ staging' \in [Names -> Tree]
    BY DEF TypeOK, ReadLocks, Tree, Receipt, InPlace, Stage
  <2>2. pc' \in [Callers -> {"idle", "share", "inspect", "try", "again", "partial"} \cup Holding \cup Builds]
    BY DEF TypeOK, Holding, Builds
  <2>3. /\ writer' \in [Names -> Callers \cup {None}] /\ readers' \in [Keys -> SUBSET Callers]
        /\ namespace' \in Callers \cup {None}
    BY DEF TypeOK
  <2>4. /\ counted' \in [Callers -> 0 .. Capacity] /\ seen' \in [Callers -> [Keys -> Receipt]]
        /\ todo' \in [Callers -> SUBSET Keys] /\ DOMAIN room' = Callers
    BY DEF TypeOK, ReadLocks, Tree
  <2>5. /\ key' \in [Callers -> Keys \cup {None}] /\ mode' \in [Callers -> {"get", "lease"}]
        /\ private' \in [Callers -> Privates \cup {None}] /\ cancelled' \in [Callers -> BOOLEAN]
    BY DEF TypeOK
  <2> QED
    BY <2>1, <2>2, <2>3, <2>4, <2>5 DEF TypeOK
<1>2. ReadLocks'
  BY DEF ReadLocks, TypeOK, Reading, Holding, Builds
<1>3. WriteLocks'
  BY DEF WriteLocks, ReadLocks, TypeOK, Writing, Reading, Holding, Builds
<1>4. Stages'
  BY DEF Stages, StageOf, WriteLocks, ReadLocks, TypeOK, Stage, InPlace, Written, Writing, Builds
<1>5. Whole'
  BY DEF Whole, HolderOf, EntryOf, WriteLocks, ReadLocks, Stages, StageOf, TypeOK, Complete, Tree, Receipt, Writing, Reading, Holding, Builds, Filling
<1> QED
  BY <1>1, <1>2, <1>3, <1>4, <1>5

LEMMA EvictInv == ASSUME IInv, NEW p \in Callers, Evict(p) PROVE IInv'
<1> USE CacheAssumption, AbsentTyped DEF IInv, Goto, disk, locks, scan, bounds, Names
<1>1. PICK v \in Keys :
         /\ todo' = [todo EXCEPT ![p] = @ \ {v}] /\ DOMAIN room' = DOMAIN room
         /\ entries' = entries \/ (entries' = [entries EXCEPT ![v] = Absent] /\ Unlocked(v))
  BY DEF Evict, TypeOK
<1>2. UNCHANGED <<kind, staging, locks, pc, key, mode, private, counted, seen, cancelled, bounds>>
  BY DEF Evict
<1>3. Unlocked(v) => /\ writer[v] = None
                     /\ \A q \in Callers : pc[q] \in Reading \cup Writing => key[q] # v
  BY DEF Unlocked, ReadLocks, WriteLocks
<1>4. entries' \in [Keys -> Tree] /\ \A k \in Keys : k # v => entries'[k] = entries[k]
  <2>1. CASE entries' = [entries EXCEPT ![v] = Absent]
    BY <2>1 DEF TypeOK
  <2> QED
    BY <1>1, <2>1 DEF TypeOK
<1>5. entries' = entries \/ (Unlocked(v) /\ entries'[v].receipt.used = 0)
  BY <1>1 DEF TypeOK
<1>6. TypeOK'
  BY <1>1, <1>2, <1>4 DEF TypeOK
<1>7. ReadLocks'
  BY <1>2 DEF ReadLocks
<1>8. WriteLocks'
  BY <1>2 DEF WriteLocks
<1>9. Stages'
  BY <1>2, <1>3, <1>4, <1>5 DEF Stages, StageOf, ReadLocks, Stage, InPlace, Written, Writing, Builds
<1>10. Whole'
  BY <1>2, <1>3, <1>4, <1>5 DEF Whole, HolderOf, EntryOf, ReadLocks, Complete, Writing, Reading, Holding, Builds, Filling
<1> QED
  BY <1>6, <1>7, <1>8, <1>9, <1>10

LEMMA TouchInv == ASSUME IInv, NEW p \in Callers, Touch(p) PROVE IInv'
<1> USE CacheAssumption, AbsentTyped DEF IInv, Goto, Forget, bounds, Names
<1>0. key[p] \in Keys /\ p \in readers[key[p]] /\ writer[key[p]] = None
  BY ReaderHolds DEF Touch, Reading, Holding
<1>1. PICK receipt \in Receipt :
        /\ entries' = [entries EXCEPT ![key[p]].receipt = receipt, ![key[p]].firm = FALSE]
        /\ receipt.used > 0
  BY NewestTyped DEF Touch
<1>2. /\ entries' \in [Keys -> Tree] /\ entries'[key[p]].data = entries[key[p]].data
      /\ entries'[key[p]].receipt.used > 0
      /\ \A k \in Keys : k # key[p] => entries'[k] = entries[k]
  <2>1. entries' = [entries EXCEPT ![key[p]] = [entries[key[p]] EXCEPT !.receipt = receipt, !.firm = FALSE]]
    BY <1>0, <1>1 DEF TypeOK
  <2>2. /\ entries[key[p]] \in Tree
        /\ [entries[key[p]] EXCEPT !.receipt = receipt, !.firm = FALSE].data = entries[key[p]].data
        /\ [entries[key[p]] EXCEPT !.receipt = receipt, !.firm = FALSE].receipt = receipt
    BY <1>0 DEF TypeOK, Tree
  <2>3. [entries[key[p]] EXCEPT !.receipt = receipt, !.firm = FALSE] \in Tree
    BY <2>2, TreeUpdate
  <2> QED
    BY <1>0, <1>1, <2>1, <2>2, <2>3 DEF TypeOK
<1>3. TypeOK'
  BY <1>2 DEF Touch, TypeOK, Holding
<1>4. ReadLocks'
  BY DEF Touch, ReadLocks, TypeOK, Reading, Holding
<1>5. WriteLocks'
  BY <1>0 DEF Touch, WriteLocks, TypeOK, Writing, Builds
<1>6. Stages'
  BY <1>0, <1>2 DEF Touch, Stages, StageOf, WriteLocks, ReadLocks, TypeOK, Stage, InPlace, Written, Writing, Builds
<1>7. Whole'
  BY <1>0, <1>2 DEF Touch, Whole, HolderOf, EntryOf, WriteLocks, ReadLocks, TypeOK, Complete, Writing, Reading, Holding, Builds, Filling
<1> QED
  BY <1>3, <1>4, <1>5, <1>6, <1>7

LEMMA CrowdedInv == ASSUME IInv, NEW p \in Callers, Crowded(p) PROVE IInv'
BY LeftInv DEF IInv, TypeOK, Crowded, bounds

LEMMA TryBuildInv == ASSUME IInv, NEW p \in Callers, TryBuild(p) PROVE IInv'
<1> USE CacheAssumption DEF IInv, TryBuild, Goto, disk, scan, bounds, Names
<1>0. key[p] \in Keys
  BY DEF ReadLocks
<1>1. CASE Unlocked(key[p])
  <2> USE <1>0, <1>1
  <2>0. /\ writer' = [writer EXCEPT ![key[p]] = p] /\ pc' = [pc EXCEPT ![p] = "again"]
        /\ writer[key[p]] = None /\ readers[key[p]] = {}
    BY DEF Unlocked
  <2>1. TypeOK'
    BY <2>0 DEF TypeOK
  <2>2. ReadLocks'
    BY <2>0 DEF ReadLocks, TypeOK, Reading, Holding
  <2>3. WriteLocks'
    BY <2>0 DEF WriteLocks, TypeOK, Writing, Builds
  <2>4. Stages'
    BY <2>0 DEF Stages, StageOf, TypeOK, Stage, InPlace, Written
  <2>5. Whole'
    BY <2>0 DEF Whole, HolderOf, EntryOf, WriteLocks, TypeOK, Complete, Holding, Filling, Writing, Builds
  <2> QED
    BY <2>1, <2>2, <2>3, <2>4, <2>5
<1>2. CASE ~Unlocked(key[p])
  <2> USE <1>0, <1>2
  <2>0. pc' = [pc EXCEPT ![p] = "share"] /\ UNCHANGED writer
    OBVIOUS
  <2>1. TypeOK'
    BY <2>0 DEF TypeOK
  <2>2. ReadLocks'
    BY <2>0 DEF ReadLocks, TypeOK, Reading, Holding
  <2>3. WriteLocks'
    BY <2>0 DEF WriteLocks, TypeOK, Writing, Builds
  <2>4. Stages'
    BY <2>0 DEF Stages, StageOf, TypeOK, Stage, InPlace, Written
  <2>5. Whole'
    BY <2>0 DEF Whole, HolderOf, EntryOf, WriteLocks, TypeOK, Complete, Holding, Filling, Writing, Builds
  <2> QED
    BY <2>1, <2>2, <2>3, <2>4, <2>5
<1> QED
  BY <1>1, <1>2

LEMMA AgainInv == ASSUME IInv, NEW p \in Callers, Again(p) PROVE IInv'
<1> USE CacheAssumption DEF IInv, Again, Goto, disk, scan, bounds, Names
<1>0. key[p] \in Keys /\ writer[key[p]] = p /\ readers[key[p]] = {}
  BY DEF ReadLocks, WriteLocks, TypeOK, Writing
<1>1. CASE Complete(key[p])
  <2> USE <1>0, <1>1
  <2>0. pc' = [pc EXCEPT ![p] = "share"] /\ writer' = [writer EXCEPT ![key[p]] = None]
    OBVIOUS
  <2>1. TypeOK'
    BY <2>0 DEF TypeOK
  <2>2. ReadLocks'
    BY <2>0 DEF ReadLocks, TypeOK, Reading, Holding
  <2>3. WriteLocks'
    BY <2>0 DEF WriteLocks, ReadLocks, TypeOK, Writing, Builds
  <2>4. Stages'
    BY <2>0 DEF Stages, StageOf, TypeOK, Stage, InPlace, Written
  <2>5. Whole'
    BY <2>0 DEF Whole, HolderOf, EntryOf, WriteLocks, TypeOK, Complete, Holding, Filling, Writing, Builds
  <2> QED
    BY <2>1, <2>2, <2>3, <2>4, <2>5
<1>2. CASE ~Complete(key[p])
  <2> USE <1>0, <1>2
  <2>0. pc' = [pc EXCEPT ![p] = "stages"] /\ UNCHANGED writer
    OBVIOUS
  <2>1. TypeOK'
    BY <2>0 DEF TypeOK, Builds
  <2>2. ReadLocks'
    BY <2>0 DEF ReadLocks, TypeOK, Reading, Holding
  <2>3. WriteLocks'
    BY <2>0 DEF WriteLocks, TypeOK, Writing, Builds
  <2>4. Stages'
    BY <2>0 DEF Stages, StageOf, TypeOK, Stage, InPlace, Written
  <2>5. Whole'
    BY <2>0 DEF Whole, HolderOf, EntryOf, WriteLocks, TypeOK, Complete, Holding, Filling, Writing, Builds
  <2> QED
    BY <2>1, <2>2, <2>3, <2>4, <2>5
<1> QED
  BY <1>1, <1>2

LEMMA CleanStagesInv == ASSUME IInv, NEW p \in Callers, CleanStages(p) PROVE IInv'
<1> USE CacheAssumption, AbsentTyped DEF IInv, CleanStages, Goto, disk, locks, scan, bounds, Names, Unlocked
<1>1. TypeOK'
  BY DEF TypeOK, ReadLocks, Holding, Builds
<1>2. ReadLocks'
  BY DEF ReadLocks, TypeOK, Reading, Holding, Builds
<1>3. WriteLocks'
  BY DEF WriteLocks, ReadLocks, TypeOK, Writing, Reading, Holding, Builds
<1>4. Stages'
  BY DEF Stages, StageOf, WriteLocks, ReadLocks, TypeOK, Stage, InPlace, Written, Writing, Builds
<1>5. Whole'
  BY DEF Whole, HolderOf, EntryOf, WriteLocks, ReadLocks, Stages, StageOf, TypeOK, Complete, Tree, Receipt, Writing, Reading, Holding, Builds, Filling
<1> QED
  BY <1>1, <1>2, <1>3, <1>4, <1>5

LEMMA ClearInv == ASSUME IInv, NEW p \in Callers, Clear(p) PROVE IInv'
<1> USE CacheAssumption DEF IInv, Clear, Goto, locks, scan, bounds, Names
<1>0. /\ key[p] \in Keys /\ writer[key[p]] = p
      /\ \A q \in Callers : q # p /\ pc[q] \in Reading \cup Writing => key[q] # key[p]
  BY BuilderOwns DEF Writing, Builds
<1>1. entries' \in [Keys -> Tree]
  <2>1. Halves(entries[key[p]]) \subseteq Tree
    <3> SUFFICES ASSUME NEW h \in Halves(entries[key[p]]) PROVE h \in Tree
      OBVIOUS
    <3>1. PICK d \in {"none", "part", entries[key[p]].data}, r \in {NoReceipt, entries[key[p]].receipt} :
            h = [entries[key[p]] EXCEPT !.data = d,
                   !.size = IF d = entries[key[p]].data THEN @ ELSE 0, !.receipt = r]
      BY DEF Halves
    <3>2. /\ entries[key[p]] \in Tree /\ entries[key[p]].data \in {"none", "part", "written", "full"}
          /\ entries[key[p]].size \in Nat /\ entries[key[p]].receipt \in Receipt
      BY <1>0 DEF TypeOK, Tree
    <3>3. PICK z \in Nat : h = [entries[key[p]] EXCEPT !.data = d, !.size = z, !.receipt = r]
      BY <3>1, <3>2
    <3>4. d \in {"none", "part", "written", "full"} /\ r \in Receipt
      BY <3>2, AbsentTyped
    <3> QED
      BY <3>2, <3>3, <3>4, TreeUpdate
  <2> QED
    BY <1>0, <2>1 DEF TypeOK
<1>2. \A k \in Keys : k # key[p] => entries'[k] = entries[k]
  BY DEF TypeOK
<1>3. \A n \in Names : n # key[p] => staging'[n] = staging[n]
  BY DEF TypeOK
<1>4. TypeOK'
  BY <1>1 DEF TypeOK, Builds
<1>5. ReadLocks'
  BY DEF ReadLocks, TypeOK, Reading, Holding
<1>6. WriteLocks'
  BY <1>0 DEF WriteLocks, TypeOK, Writing, Builds
<1>7. /\ \A q \in Callers : q # p => StageOf(q)' /\ HolderOf(q)'
      /\ \A k \in Keys : k # key[p] => EntryOf(k)'
  BY <1>0, <1>2, <1>3, OthersKeep DEF TypeOK, Writing, Builds
<1>8. StageOf(p)'
  BY <1>0, <1>1, <1>2, <1>3 DEF Stages, StageOf, Stage, InPlace, Written, TypeOK
<1>9. HolderOf(p)'
  BY <1>0, <1>1, <1>2, <1>3 DEF Whole, HolderOf, TypeOK, InPlace, Holding, Filling
<1>10. EntryOf(key[p])'
  BY <1>0, <1>1, <1>2, <1>3 DEF Whole, HolderOf, EntryOf, TypeOK, InPlace, Filling
<1> QED
  BY <1>0, <1>4, <1>5, <1>6, <1>7, <1>8, <1>9, <1>10 DEF Stages, Whole

LEMMA PrepareInv == ASSUME IInv, NEW p \in Callers, Prepare(p) PROVE IInv'
<1> USE CacheAssumption DEF IInv, Prepare, Goto, locks, scan, bounds, Names
<1>0. /\ key[p] \in Keys /\ writer[key[p]] = p
      /\ \A q \in Callers : q # p /\ pc[q] \in Reading \cup Writing => key[q] # key[p]
  BY BuilderOwns DEF Writing, Builds
<1>1. /\ entries' \in [Keys -> Tree] /\ staging' \in [Names -> Tree]
      /\ entries'[key[p]].receipt.used = 0
  BY <1>0, AbsentTyped DEF TypeOK
<1>2. \A k \in Keys : k # key[p] => entries'[k] = entries[k]
  BY DEF TypeOK
<1>3. \A n \in Names : n # key[p] => staging'[n] = staging[n]
  BY DEF TypeOK
<1>4. TypeOK'
  BY <1>1 DEF TypeOK, Builds
<1>5. ReadLocks'
  BY DEF ReadLocks, TypeOK, Reading, Holding
<1>6. WriteLocks'
  BY <1>0 DEF WriteLocks, TypeOK, Writing, Builds
<1>7. /\ \A q \in Callers : q # p => StageOf(q)' /\ HolderOf(q)'
      /\ \A k \in Keys : k # key[p] => EntryOf(k)'
  BY <1>0, <1>2, <1>3, OthersKeep DEF TypeOK, Writing, Builds
<1>8. StageOf(p)'
  BY <1>0, <1>1, <1>2, <1>3 DEF Stages, StageOf, Stage, InPlace, Written, TypeOK
<1>9. HolderOf(p)'
  BY <1>0, <1>1, <1>2, <1>3 DEF Whole, HolderOf, TypeOK, InPlace, Holding, Filling
<1>10. EntryOf(key[p])'
  BY <1>0, <1>1, <1>2, <1>3 DEF Whole, HolderOf, EntryOf, TypeOK, InPlace, Filling
<1> QED
  BY <1>0, <1>4, <1>5, <1>6, <1>7, <1>8, <1>9, <1>10 DEF Stages, Whole

LEMMA BuildInv == ASSUME IInv, NEW p \in Callers, Build(p) PROVE IInv'
<1> USE CacheAssumption DEF IInv, Names
<1>0. /\ key[p] \in Keys /\ writer[key[p]] = p
      /\ \A q \in Callers : q # p /\ pc[q] \in Reading \cup Writing => key[q] # key[p]
  BY BuilderOwns DEF Build, Writing, Builds
<1>1. /\ entries' \in [Keys -> Tree] /\ staging' \in [Names -> Tree]
      /\ InPlace => entries'[key[p]].receipt.used = 0
      /\ ~InPlace => entries' = entries /\ staging'[key[p]].data = "written"
  <2>1. /\ [Fresh EXCEPT !.data = "written", !.size = Size[key[p]]] \in Tree
        /\ [Fresh EXCEPT !.data = "written", !.size = Size[key[p]]].data = "written"
        /\ [Fresh EXCEPT !.data = "written", !.size = Size[key[p]]].receipt.used = 0
    BY <1>0, AbsentTyped DEF Tree
  <2> QED
    BY <1>0, <2>1 DEF Build, TypeOK, PutStage
<1>p. /\ pc' = [pc EXCEPT ![p] = "flush"] \/ (~InPlace /\ pc' = [pc EXCEPT ![p] = "private"])
      /\ counted' = [counted EXCEPT ![p] = Size[key[p]]]
      /\ UNCHANGED <<kind, locks, key, mode, private, seen, todo, room, cancelled, bounds>>
  BY DEF Build, Goto
<1>q. /\ pc[p] = "build" /\ Size[key[p]] \in 0 .. Capacity /\ pc'[p] \in {"flush", "private"}
      /\ \A q \in Callers : q # p => pc'[q] = pc[q]
      /\ key' = key /\ private' = private /\ readers' = readers /\ writer' = writer
  BY <1>0, <1>p DEF Build, TypeOK, locks
<1>2. \A k \in Keys : k # key[p] => entries'[k] = entries[k]
  BY DEF Build, TypeOK, PutStage
<1>3. \A n \in Names : n # key[p] => staging'[n] = staging[n]
  BY DEF Build, TypeOK, PutStage
<1>4. TypeOK'
  <2>1. counted' \in [Callers -> 0..Capacity]
    BY <1>p, <1>q DEF TypeOK
  <2>2. pc' \in [Callers -> {"idle", "share", "inspect", "try", "again", "partial"}
                            \cup Holding \cup Builds]
    BY <1>p DEF TypeOK, Builds
  <2> HIDE DEF Holding, Builds
  <2>3. UNCHANGED <<kind, locks, key, mode, private, seen, todo, room, cancelled, bounds>>
    BY <1>p
  <2> QED
    BY <1>1, <2>1, <2>2, <2>3 DEF TypeOK, locks, bounds
<1>5. ReadLocks'
  <2>1. \A q \in Callers : /\ pc'[q] \in Reading <=> pc[q] \in Reading
                           /\ pc'[q] # "idle" => pc[q] # "idle"
    BY <1>q DEF Reading, Holding
  <2> QED
    BY <1>q, <2>1 DEF ReadLocks, TypeOK
<1>6. WriteLocks'
  <2>1. \A q \in Callers : /\ pc'[q] \in Writing <=> pc[q] \in Writing
                           /\ pc'[q] = "partial" => pc[q] = "partial"
    BY <1>q DEF Writing, Builds
  <2> QED
    BY <1>q, <2>1 DEF WriteLocks, TypeOK
<1>7. /\ \A q \in Callers : q # p => StageOf(q)' /\ HolderOf(q)'
      /\ \A k \in Keys : k # key[p] => EntryOf(k)'
  BY <1>0, <1>2, <1>3, <1>p, <1>q, OthersKeep DEF locks, Writing, Builds
<1>8. StageOf(p)'
  BY <1>0, <1>1, <1>p, <1>q DEF Stages, StageOf, Stage, InPlace, Written, TypeOK
<1>9. HolderOf(p)'
  BY <1>0, <1>1, <1>p, <1>q DEF Whole, HolderOf, TypeOK, InPlace, Holding, Filling
<1>10. EntryOf(key[p])'
  BY <1>0, <1>1, <1>p, <1>q DEF Whole, HolderOf, EntryOf, TypeOK, InPlace, Filling
<1> QED
  BY <1>0, <1>4, <1>5, <1>6, <1>7, <1>8, <1>9, <1>10, <1>p DEF Stages, Whole

LEMMA SynchronizeInv == ASSUME IInv, NEW p \in Callers, Synchronize(p) PROVE IInv'
<1> USE CacheAssumption DEF IInv, Synchronize, Goto, locks, scan, bounds, Names
<1>0. /\ key[p] \in Keys /\ writer[key[p]] = p
      /\ \A q \in Callers : q # p /\ pc[q] \in Reading \cup Writing => key[q] # key[p]
  BY BuilderOwns DEF Writing, Builds
<1>1. /\ entries' \in [Keys -> Tree] /\ staging' \in [Names -> Tree]
      /\ InPlace => entries'[key[p]].data = "full" /\ entries'[key[p]].receipt = entries[key[p]].receipt
      /\ ~InPlace => entries' = entries /\ staging'[key[p]].data = "full"
  <2>1. Stage(key[p]) \in Tree /\ (InPlace => Stage(key[p]) = entries[key[p]])
    BY <1>0 DEF TypeOK, Stage
  <2>2. /\ [Stage(key[p]) EXCEPT !.data = "full"] \in Tree
        /\ [Stage(key[p]) EXCEPT !.data = "full"].data = "full"
        /\ [Stage(key[p]) EXCEPT !.data = "full"].receipt = Stage(key[p]).receipt
    BY <2>1 DEF Tree
  <2> QED
    BY <1>0, <2>1, <2>2 DEF TypeOK, PutStage
<1>2. \A k \in Keys : k # key[p] => entries'[k] = entries[k]
  BY DEF TypeOK, PutStage
<1>3. \A n \in Names : n # key[p] => staging'[n] = staging[n]
  BY DEF TypeOK, PutStage
<1>4. TypeOK'
  BY <1>1 DEF TypeOK, Builds
<1>5. ReadLocks'
  BY DEF ReadLocks, TypeOK, Reading, Holding
<1>6. WriteLocks'
  BY <1>0 DEF WriteLocks, TypeOK, Writing, Builds
<1>7. /\ \A q \in Callers : q # p => StageOf(q)' /\ HolderOf(q)'
      /\ \A k \in Keys : k # key[p] => EntryOf(k)'
  BY <1>0, <1>2, <1>3, OthersKeep DEF TypeOK, Writing, Builds
<1>8. StageOf(p)'
  BY <1>0, <1>1, <1>2, <1>3 DEF Stages, StageOf, Stage, InPlace, Written, TypeOK
<1>9. HolderOf(p)'
  BY <1>0, <1>1, <1>2, <1>3 DEF Whole, HolderOf, TypeOK, InPlace, Holding, Filling
<1>10. EntryOf(key[p])'
  BY <1>0, <1>1, <1>2, <1>3 DEF Whole, HolderOf, EntryOf, TypeOK, InPlace, Filling
<1> QED
  BY <1>0, <1>4, <1>5, <1>6, <1>7, <1>8, <1>9, <1>10 DEF Stages, Whole

\* Whoever leaves gives back its own locks, of which it has one on a key at most.
LEMMA LocksReleased == ASSUME IInv, NEW p \in Callers, key[p] \in Keys, Unlock(p)
    PROVE /\ writer' \in [Names -> Callers \cup {None}]
          /\ \A k \in Keys : k # key[p] => writer'[k] = writer[k] /\ readers'[k] = readers[k]
          /\ \A q \in Callers : q # p => \A n \in Names : writer[n] = q => writer'[n] = q
          /\ writer[key[p]] \in {p, None} => writer'[key[p]] = None
          /\ readers'[key[p]] = readers[key[p]] \ {p}
BY CacheAssumption DEF IInv, Unlock, WriteLocks, ReadLocks, TypeOK, Names

LEMMA SealInv == ASSUME IInv, NEW p \in Callers, Seal(p) PROVE IInv'
<1> USE CacheAssumption DEF IInv, Goto, Forget, locks, bounds, Names
<1>0. /\ key[p] \in Keys /\ writer[key[p]] = p /\ pc[p] = "seal"
      /\ \A q \in Callers : q # p /\ pc[q] \in Reading \cup Writing => key[q] # key[p]
  BY BuilderOwns DEF Seal, Writing, Builds
<1>1. PICK receipt \in Receipt : PutStage(key[p], [Stage(key[p]) EXCEPT !.receipt = receipt, !.firm = TRUE])
  BY NewestTyped DEF Seal
<1>2. /\ entries' \in [Keys -> Tree] /\ staging' \in [Names -> Tree]
      /\ InPlace => entries'[key[p]].data = "full"
      /\ ~InPlace => entries' = entries /\ staging'[key[p]].data = "full"
  <2>1. Stage(key[p]) \in Tree /\ Stage(key[p]).data = "full"
    BY <1>0 DEF TypeOK, Stage, Stages, StageOf
  <2>2. [Stage(key[p]) EXCEPT !.receipt = receipt, !.firm = TRUE] \in Tree
    BY <2>1, TreeUpdate
  <2>3. [Stage(key[p]) EXCEPT !.receipt = receipt, !.firm = TRUE].data = "full"
    BY <2>1 DEF Tree
  <2> QED
    BY <1>0, <1>1, <2>2, <2>3 DEF TypeOK, PutStage
<1>3. \A k \in Keys : k # key[p] => entries'[k] = entries[k]
  BY <1>1 DEF TypeOK, PutStage
<1>4. \A n \in Names : n # key[p] => staging'[n] = staging[n]
  BY <1>1 DEF TypeOK, PutStage
<1>5. /\ counted' \in [Callers -> 0 .. Capacity] /\ seen' \in [Callers -> [Keys -> Receipt]]
      /\ todo' \in [Callers -> SUBSET Keys] /\ DOMAIN room' = Callers
      /\ UNCHANGED <<kind, key, mode, private, cancelled, bounds>>
  BY AbsentTyped DEF Seal, TypeOK
<1>6. CASE InPlace /\ Unlock(p) /\ pc' = [pc EXCEPT ![p] = "share"]
  <2> USE <1>6
  <2>1. TypeOK'
    BY <1>2, <1>5 DEF Unlock, TypeOK
  <2>2. ReadLocks'
    BY <1>0, <1>5 DEF Unlock, ReadLocks, TypeOK, Reading, Holding
  <2>0. /\ \A q \in Callers : q # p => pc'[q] = pc[q] /\ key'[q] = key[q] /\ private'[q] = private[q]
        /\ \A k \in Keys : k # key[p] => writer'[k] = writer[k] /\ readers'[k] = readers[k]
        /\ writer'[key[p]] = None
        /\ \A q \in Callers : q # p => \A n \in Names : writer[n] = q => writer'[n] = q
    BY <1>0, <1>5, LocksReleased DEF TypeOK
  <2>3. WriteLocks'
    <3>1. ASSUME NEW q \in Callers PROVE
            /\ pc'[q] \in Writing => writer'[key'[q]] = q
            /\ pc'[q] = "partial" => private'[q] \in Privates /\ writer'[private'[q]] = q
      BY <1>0, <1>5, <2>0, BuilderOwns DEF WriteLocks, TypeOK, Writing, Builds
    <3>2. ASSUME NEW k \in Keys, writer'[k] # None PROVE
            key'[writer'[k]] = k /\ pc'[writer'[k]] \in Writing /\ readers'[k] = {}
      <4>1. k # key[p] /\ writer'[k] = writer[k] /\ readers'[k] = readers[k] /\ writer[k] \in Callers
        BY <2>0, <3>2 DEF TypeOK
      <4>2. key[writer[k]] = k /\ pc[writer[k]] \in Writing /\ readers[k] = {}
        BY <3>2, <4>1 DEF WriteLocks
      <4> QED
        BY <2>0, <4>1, <4>2
    <3> QED
      BY <3>1, <3>2 DEF WriteLocks
  <2>4. /\ \A q \in Callers : q # p => StageOf(q)' /\ HolderOf(q)'
        /\ \A k \in Keys : k # key[p] => EntryOf(k)'
    BY <1>0, <1>3, <1>4, <1>5, <2>0, OthersKeep DEF Writing, Builds
  <2>5. StageOf(p)'
    BY <1>6 DEF StageOf, TypeOK
  <2>6. HolderOf(p)' /\ EntryOf(key[p])'
    BY <1>0, <1>2, <1>5 DEF HolderOf, EntryOf, TypeOK, Holding, Filling
  <2> QED
    BY <1>0, <1>5, <2>1, <2>2, <2>3, <2>4, <2>5, <2>6 DEF Stages, Whole
<1>7. CASE ~InPlace /\ UNCHANGED locks /\ pc' = [pc EXCEPT ![p] = "publish"]
  <2> USE <1>7
  <2>1. TypeOK'
    BY <1>2, <1>5 DEF TypeOK, Builds
  <2>2. ReadLocks'
    BY <1>0, <1>5 DEF ReadLocks, TypeOK, Reading, Holding
  <2>3. WriteLocks'
    BY <1>0, <1>5 DEF WriteLocks, TypeOK, Writing, Builds
  <2>4. /\ \A q \in Callers : q # p => StageOf(q)' /\ HolderOf(q)'
        /\ \A k \in Keys : k # key[p] => EntryOf(k)'
    BY <1>0, <1>3, <1>4, <1>5, OthersKeep DEF TypeOK, Writing, Builds
  <2>5. StageOf(p)'
    BY <1>0, <1>2, <1>5 DEF StageOf, InPlace, TypeOK
  <2>6. HolderOf(p)' /\ EntryOf(key[p])'
    BY <1>0, <1>2, <1>5 DEF HolderOf, EntryOf, Whole, TypeOK, Holding, Filling
  <2> QED
    BY <1>0, <1>5, <2>1, <2>2, <2>3, <2>4, <2>5, <2>6 DEF Stages, Whole
<1> QED
  BY <1>6, <1>7 DEF Seal

LEMMA PublishInv == ASSUME IInv, NEW p \in Callers, Publish(p) PROVE IInv'
<1> USE CacheAssumption, AbsentTyped DEF IInv, Publish, Goto, disk, locks, scan, bounds, Names, Unlock
<1>1. TypeOK'
  BY DEF TypeOK, ReadLocks, Holding, Builds
<1>2. ReadLocks'
  BY DEF ReadLocks, TypeOK, Reading, Holding, Builds
<1>3. WriteLocks'
  BY DEF WriteLocks, ReadLocks, TypeOK, Writing, Reading, Holding, Builds
<1>4. Stages'
  BY DEF Stages, StageOf, WriteLocks, ReadLocks, TypeOK, Stage, InPlace, Written, Writing, Builds
<1>5. Whole'
  BY DEF Whole, HolderOf, EntryOf, WriteLocks, ReadLocks, Stages, StageOf, TypeOK, Complete, Tree, Receipt, Writing, Reading, Holding, Builds, Filling
<1> QED
  BY <1>1, <1>2, <1>3, <1>4, <1>5

LEMMA TransientInv == ASSUME IInv, NEW p \in Callers, Transient(p) PROVE IInv'
<1> USE CacheAssumption DEF IInv, Goto, scan, bounds
<1>0. /\ key[p] \in Keys /\ writer[key[p]] = p /\ pc[p] = "private"
      /\ \A q \in Callers : q # p /\ pc[q] \in Reading \cup Writing => key[q] # key[p]
  BY BuilderOwns DEF Transient, Writing, Builds
<1>1. PICK n \in Privates :
         /\ writer[n] = None /\ private' = [private EXCEPT ![p] = n]
         /\ staging' = [staging EXCEPT ![n] = staging[key[p]], ![key[p]] = Absent]
         /\ writer' = [writer EXCEPT ![n] = p, ![key[p]] = None]
  BY DEF Transient
<1>2. pc' = [pc EXCEPT ![p] = "partial"] /\ UNCHANGED <<kind, entries, readers, namespace, key, mode, scan, cancelled, bounds>>
  BY DEF Transient
<1>3. n \in Names /\ key[p] \in Names /\ n # key[p]
  BY <1>0 DEF Names
<1>4. /\ staging' \in [Names -> Tree] /\ staging'[n] = staging[key[p]]
      /\ \A i \in Names : i \notin {n, key[p]} => staging'[i] = staging[i]
  BY <1>1, <1>3, AbsentTyped DEF TypeOK
<1>5. /\ writer' \in [Names -> Callers \cup {None}] /\ writer'[n] = p /\ writer'[key[p]] = None
      /\ \A i \in Names : i \notin {n, key[p]} => writer'[i] = writer[i]
  BY <1>1, <1>3 DEF TypeOK
<1>6. TypeOK'
  BY <1>1, <1>2, <1>4, <1>5 DEF TypeOK
<1>7. ReadLocks'
  BY <1>0, <1>2 DEF ReadLocks, TypeOK, Reading, Holding
<1>8. WriteLocks'
  BY <1>0, <1>1, <1>2, <1>3, <1>5 DEF WriteLocks, ReadLocks, TypeOK, Names, Writing, Builds
<1>9. /\ \A q \in Callers : q # p => StageOf(q)' /\ HolderOf(q)'
      /\ \A k \in Keys : k # key[p] => EntryOf(k)'
  <2>1. /\ \A q \in Callers : q # p => pc'[q] = pc[q] /\ key'[q] = key[q] /\ private'[q] = private[q]
        /\ \A k \in Keys : k # key[p] => entries'[k] = entries[k] /\ writer'[k] = writer[k]
        /\ \A i \in Names : i # key[p] /\ writer[i] # None => staging'[i] = staging[i]
    <3>1. \A q \in Callers : q # p => pc'[q] = pc[q] /\ key'[q] = key[q] /\ private'[q] = private[q]
      BY <1>1, <1>2 DEF TypeOK
    <3>2. \A k \in Keys : k # key[p] => entries'[k] = entries[k] /\ writer'[k] = writer[k]
      BY <1>2, <1>5 DEF Names
    <3>3. \A i \in Names : i # key[p] /\ writer[i] # None => staging'[i] = staging[i]
      BY <1>1, <1>4
    <3> QED
      BY <3>1, <3>2, <3>3
  <2> QED
    BY <1>0, <1>2, <2>1, OthersKeep DEF Writing, Builds
<1>10. StageOf(p)'
  BY <1>0, <1>1, <1>2, <1>4 DEF Stages, StageOf, Written, TypeOK
<1>11. HolderOf(p)' /\ EntryOf(key[p])'
  BY <1>0, <1>2 DEF Whole, HolderOf, EntryOf, TypeOK, Holding, Filling
<1> QED
  BY <1>0, <1>2, <1>6, <1>7, <1>8, <1>9, <1>10, <1>11 DEF Stages, Whole


LEMMA DropInv == ASSUME IInv, NEW p \in Callers, Drop(p) PROVE IInv'
BY LeftInv DEF IInv, TypeOK, Drop, bounds

LEMMA DropPartialInv == ASSUME IInv, NEW p \in Callers, DropPartial(p) PROVE IInv'
<1> USE CacheAssumption, AbsentTyped DEF IInv, DropPartial, Goto, disk, locks, scan, bounds, Names, Left, Unlock, Forget
<1>1. TypeOK'
  <2>1. staging' \in [Names -> Tree]
    BY DEF TypeOK
  <2> QED
    BY <2>1 DEF TypeOK
<1>2. ReadLocks'
  BY DEF ReadLocks, TypeOK, Reading, Holding, Builds
<1>3. WriteLocks'
  BY DEF WriteLocks, ReadLocks, TypeOK, Writing, Reading, Holding, Builds
<1>4. Stages'
  BY DEF Stages, StageOf, WriteLocks, ReadLocks, TypeOK, Stage, InPlace, Written, Writing, Builds
<1>5. Whole'
  BY DEF Whole, HolderOf, EntryOf, WriteLocks, ReadLocks, Stages, StageOf, TypeOK, Complete, Tree, Receipt, Writing, Reading, Holding, Builds, Filling
<1> QED
  BY <1>1, <1>2, <1>3, <1>4, <1>5

LEMMA GrowInv == ASSUME IInv, NEW p \in Callers, Grow(p) PROVE IInv'
<1> USE CacheAssumption DEF IInv, Grow, locks, scan, bounds, Names
<1>0. key[p] \in Keys /\ p \in readers[key[p]] /\ writer[key[p]] = None
  BY ReaderHolds DEF Reading, Holding
<1>1. /\ entries' \in [Keys -> Tree] /\ entries'[key[p]].data = entries[key[p]].data
      /\ \A k \in Keys : k # key[p] => entries'[k] = entries[k]
  <2>1. entries' = [entries EXCEPT ![key[p]] = [entries[key[p]] EXCEPT !.size = entries[key[p]].size + 1]]
    BY <1>0 DEF TypeOK
  <2>2. /\ entries[key[p]] \in Tree /\ entries[key[p]].size + 1 \in Nat
        /\ [entries[key[p]] EXCEPT !.size = entries[key[p]].size + 1].data = entries[key[p]].data
    BY <1>0 DEF TypeOK, Tree
  <2>3. [entries[key[p]] EXCEPT !.size = entries[key[p]].size + 1] \in Tree
    BY <2>2 DEF Tree
  <2> QED
    BY <1>0, <2>1, <2>2, <2>3 DEF TypeOK
<1>2. TypeOK'
  BY <1>1 DEF TypeOK
<1>3. ReadLocks'
  BY DEF ReadLocks
<1>4. WriteLocks'
  BY DEF WriteLocks
<1>5. Stages'
  BY <1>0, <1>1 DEF Stages, StageOf, WriteLocks, ReadLocks, Stage, InPlace, Written, Writing, Builds
<1>6. Whole'
  BY <1>0, <1>1 DEF Whole, HolderOf, EntryOf, WriteLocks, ReadLocks, TypeOK, Complete, Writing, Reading, Holding, Builds, Filling
<1> QED
  BY <1>2, <1>3, <1>4, <1>5, <1>6

LEMMA FailInv == ASSUME IInv, NEW p \in Callers, Fail(p) PROVE IInv'
<1> USE CacheAssumption, AbsentTyped DEF IInv, Fail, Goto, disk, locks, scan, bounds, Names, Left, Unlock, Forget, PutStage, Stage, InPlace
<1>1. TypeOK'
  BY DEF TypeOK, ReadLocks, Holding, Builds
<1>2. ReadLocks'
  BY DEF ReadLocks, TypeOK, Reading, Holding, Builds
<1>3. WriteLocks'
  BY DEF WriteLocks, ReadLocks, TypeOK, Writing, Reading, Holding, Builds
<1>4. Stages'
  BY DEF Stages, StageOf, WriteLocks, ReadLocks, TypeOK, Stage, InPlace, Written, Writing, Builds
<1>5. Whole'
  <2>1. /\ key[p] \in Keys /\ writer[key[p]] = p
        /\ \A q \in Callers : q # p /\ pc[q] \in Reading \cup Writing => key[q] # key[p]
    BY BuilderOwns DEF Writing, Builds
  <2>2. /\ \A q \in Callers : q # p => pc'[q] = pc[q] /\ key'[q] = key[q] /\ private'[q] = private[q]
        /\ \A k \in Keys : k # key[p] => entries'[k] = entries[k] /\ writer'[k] = writer[k]
        /\ \A n \in Names : n # key[p] => staging'[n] = staging[n]
    BY <2>1, LocksReleased DEF TypeOK
  <2>5. /\ \A q \in Callers : q # p => HolderOf(q)'
        /\ \A k \in Keys : k # key[p] => EntryOf(k)'
    BY <2>1, <2>2, OthersKeep DEF Writing, Builds
  <2>3. HolderOf(p)'
    BY DEF HolderOf, TypeOK, Holding, Filling
  <2>4. \A k \in Keys : k = key[p] => EntryOf(k)'
    BY <2>1 DEF EntryOf, Whole, HolderOf, Filling, TypeOK
  <2> QED
    BY <2>3, <2>4, <2>5 DEF Whole
<1> QED
  BY <1>1, <1>2, <1>3, <1>4, <1>5

LEMMA CancelInv == ASSUME IInv, NEW p \in Callers, Cancel(p) PROVE IInv'
<1> USE CacheAssumption, AbsentTyped DEF IInv, Cancel, Goto, disk, locks, scan, bounds, Names
<1>1. TypeOK'
  BY DEF TypeOK, ReadLocks, Holding, Builds
<1>2. ReadLocks'
  BY DEF ReadLocks, TypeOK, Reading, Holding, Builds
<1>3. WriteLocks'
  BY DEF WriteLocks, ReadLocks, TypeOK, Writing, Reading, Holding, Builds
<1>4. Stages'
  BY DEF Stages, StageOf, WriteLocks, ReadLocks, TypeOK, Stage, InPlace, Written, Writing, Builds
<1>5. Whole'
  BY DEF Whole, HolderOf, EntryOf, WriteLocks, ReadLocks, Stages, StageOf, TypeOK, Complete, Tree, Receipt, Writing, Reading, Holding, Builds, Filling
<1> QED
  BY <1>1, <1>2, <1>3, <1>4, <1>5

LEMMA GiveUpInv == ASSUME IInv, NEW p \in Callers, GiveUp(p) PROVE IInv'
BY LeftInv DEF IInv, TypeOK, GiveUp, Interruptible, bounds, Tree, Receipt

LEMMA CrashInv == ASSUME IInv, NEW p \in Callers, Crash(p) PROVE IInv'
BY LeftInv DEF IInv, TypeOK, Crash, Interruptible

LEMMA PowerLossInv == ASSUME IInv, PowerLoss PROVE IInv'
<1> USE CacheAssumption, AbsentTyped DEF IInv, Names
<1>0. ASSUME NEW k \in Keys PROVE
        \E d \in {entries[k].data, "part"}, r \in {entries[k].receipt, NoReceipt} :
            /\ entries'[k] = [entries[k] EXCEPT !.data = d, !.receipt = r]
            /\ d = entries[k].data \/ entries[k].data = "written"
  <2>1. PICK data \in SUBSET {i \in Keys : entries[i].data = "written"},
             receipts \in SUBSET {i \in Keys : entries[i].receipt.used > 0 /\ ~entries[i].firm} :
         entries' = [i \in Keys |->
              [entries[i] EXCEPT !.data = IF i \in data THEN "part" ELSE @,
                                 !.receipt = IF i \in receipts THEN NoReceipt ELSE @]]
    BY DEF PowerLoss
  <2> DEFINE d == IF k \in data THEN "part" ELSE entries[k].data
             r == IF k \in receipts THEN NoReceipt ELSE entries[k].receipt
  <2>2. entries'[k] = [entries[k] EXCEPT !.data = d, !.receipt = r]
    BY <2>1 DEF TypeOK, Tree
  <2> QED
    BY <2>1, <2>2
<1>1. entries' \in [Keys -> Tree]
  <2>1. ASSUME NEW k \in Keys PROVE entries'[k] \in Tree
    <3>1. PICK d \in {entries[k].data, "part"}, r \in {entries[k].receipt, NoReceipt} :
            entries'[k] = [entries[k] EXCEPT !.data = d, !.receipt = r]
      BY <1>0
    <3>2. entries[k] \in Tree /\ d \in {"none", "part", "written", "full"} /\ r \in Receipt
      BY DEF TypeOK, Tree
    <3>3. [entries[k] EXCEPT !.data = d, !.receipt = r] \in Tree
      BY <3>2 DEF Tree
    <3> QED
      BY <3>1, <3>3
  <2>2. entries' = [k \in Keys |-> entries'[k]]
    BY DEF PowerLoss
  <2> QED
    BY <2>1, <2>2
<1>2. \A k \in Keys : HalfRemovals = FALSE /\ entries'[k].receipt.used > 0 => entries'[k].data = "full"
  <2> SUFFICES ASSUME NEW k \in Keys, HalfRemovals = FALSE, entries'[k].receipt.used > 0 PROVE entries'[k].data = "full"
    OBVIOUS
  <2>1. entries[k].receipt.used > 0 /\ (entries[k].data = "full" => entries'[k].data = "full")
    <3>1. PICK d \in {entries[k].data, "part"}, r \in {entries[k].receipt, NoReceipt} :
            /\ entries'[k] = [entries[k] EXCEPT !.data = d, !.receipt = r]
            /\ d = entries[k].data \/ entries[k].data = "written"
      BY <1>0
    <3>2. entries'[k].data = d /\ entries'[k].receipt = r
      BY <3>1 DEF TypeOK, Tree
    <3> QED
      BY <3>1, <3>2
  <2>2. \A q \in Callers : pc[q] = "cleared" => entries[key[q]].receipt.used = 0
    BY DEF PowerLoss, Interruptible
  <2>3. ~(writer[k] # None /\ pc[writer[k]] = "cleared")
    BY <2>1, <2>2 DEF WriteLocks, TypeOK
  <2> QED
    BY <2>1, <2>3 DEF Whole, EntryOf
<1>3. TypeOK'
  <2>1. /\ UNCHANGED <<kind, staging, calls>> /\ crashes' = crashes + 1 /\ namespace' = None
        /\ writer' = [n \in Names |-> None] /\ readers' = [k \in Keys |-> {}]
        /\ pc' = [p \in Callers |-> "idle"] /\ key' = [p \in Callers |-> None]
        /\ mode' = [p \in Callers |-> "get"] /\ private' = [p \in Callers |-> None]
        /\ counted' = [p \in Callers |-> 0] /\ seen' = [p \in Callers |-> Unread]
        /\ todo' = [p \in Callers |-> {}] /\ room' = [p \in Callers |-> 0]
        /\ cancelled' = [p \in Callers |-> FALSE]
    BY DEF PowerLoss
  <2> QED
    BY <1>1, <2>1 DEF TypeOK
<1>4. ReadLocks'
  BY DEF PowerLoss, ReadLocks, Reading, Holding
<1>5. WriteLocks'
  BY DEF PowerLoss, WriteLocks, Writing, Builds
<1>6. Stages'
  BY DEF PowerLoss, Stages, StageOf
<1>7. Whole'
  BY <1>2 DEF PowerLoss, Whole, EntryOf, HolderOf, Holding, Filling
<1> QED
  BY <1>3, <1>4, <1>5, <1>6, <1>7

LEMMA InitInv == Init => IInv
<1> SUFFICES ASSUME Init PROVE IInv
  OBVIOUS
<1> USE CacheAssumption, AbsentTyped DEF Init, Names
<1>1. entries \in [Keys -> Tree] /\ \A k \in Keys : entries[k].receipt.used > 0 => entries[k].data = "full"
  BY DEF Tree, Receipt
<1>2. TypeOK
  BY <1>1 DEF TypeOK
<1>3. ReadLocks /\ WriteLocks
  BY DEF ReadLocks, WriteLocks, Reading, Writing, Holding, Builds
<1>4. Stages /\ Whole
  BY <1>1 DEF Stages, StageOf, Whole, EntryOf, HolderOf, Holding, Filling
<1> QED
  BY <1>2, <1>3, <1>4 DEF IInv

LEMMA StepInv == ASSUME IInv, [Next]_vars PROVE IInv'
<1>1. ASSUME NEW p \in Callers, Step(p) PROVE IInv'
  BY <1>1, ShareInv, InspectInv, ReadInv, EvictInv, TouchInv, CrowdedInv, TryBuildInv, AgainInv,
     CleanStagesInv, ClearInv, PrepareInv, BuildInv, SynchronizeInv, SealInv, PublishInv,
     TransientInv, FailInv, GiveUpInv DEF Step
<1>2. ASSUME NEW p \in Callers,
             (\E k \in Keys, m \in {"get", "lease"} : Open(p, k, m))
             \/ Drop(p) \/ DropPartial(p) \/ Grow(p) \/ Cancel(p) \/ Crash(p) PROVE IInv'
  BY <1>2, OpenInv, DropInv, DropPartialInv, GrowInv, CancelInv, CrashInv
<1>3. CASE PowerLoss
  BY <1>3, PowerLossInv
<1>4. CASE UNCHANGED vars
  BY <1>4 DEF IInv, TypeOK, ReadLocks, WriteLocks, Stages, StageOf, Stage, InPlace, Written, Whole,
     EntryOf, HolderOf, Complete, vars, disk, locks, scan, bounds
<1> QED
  BY <1>1, <1>2, <1>3, <1>4 DEF Next

-----------------------------------------------------------------------------
(* Safety *)

THEOREM Inductive == Spec => []IInv
<1>1. Init => IInv
  BY InitInv
<1>2. IInv /\ [Next]_vars => IInv'
  BY StepInv
<1> QED
  BY <1>1, <1>2, PTL DEF Spec

\* The types of the state.
THEOREM Typed == Spec => []TypeOK
<1>1. IInv => TypeOK
  BY DEF IInv
<1> QED
  BY <1>1, Inductive, PTL

\* Where the removal of an entry with a receipt is not interrupted, leased entries
\* and the private copies of partial extractions stay whole.
THEOREM LeasesWhole == ASSUME HalfRemovals = FALSE PROVE Spec => []LeasesAreWhole
<1>1. IInv => LeasesAreWhole
  BY DEF IInv, LeasesAreWhole, Whole, HolderOf, Stages, StageOf, Written
<1> QED
  BY <1>1, Inductive, PTL

-----------------------------------------------------------------------------
(* The cache implements the leased entries *)

Done == {k \in Keys : Complete(k) /\ BuilderOf(k) = None}
Lessees == [p \in Callers |-> IF pc[p] \in Holding THEN key[p] ELSE None]
Makers == [k \in Keys |-> BuilderOf(k)]

\* Who is building is seen from the callers alone.
LEMMA BuilderOfIs == ASSUME IInv, NEW k \in Keys
    PROVE /\ \A q \in Callers : BuilderOf(k) = q <=> pc[q] \in Builds /\ key[q] = k
          /\ BuilderOf(k) \in Callers \cup {None}
<1> USE CacheAssumption DEF IInv
<1>1. BuilderOf(k) \in Callers \cup {None}
  BY DEF BuilderOf, TypeOK, Names
<1>2. ASSUME NEW q \in Callers, BuilderOf(k) = q PROVE pc[q] \in Builds /\ key[q] = k
  BY <1>2 DEF BuilderOf, WriteLocks
<1>3. ASSUME NEW q \in Callers, pc[q] \in Builds, key[q] = k PROVE BuilderOf(k) = q
  BY <1>3 DEF BuilderOf, WriteLocks, Writing
<1> QED
  BY <1>1, <1>2, <1>3

LEMMA BuilderOfNext == ASSUME IInv', NEW k \in Keys
    PROVE /\ \A q \in Callers : BuilderOf(k)' = q <=> pc'[q] \in Builds /\ key'[q] = k
          /\ BuilderOf(k)' \in Callers \cup {None}
<1> USE CacheAssumption DEF IInv
<1>1. BuilderOf(k)' \in Callers \cup {None}
  BY DEF BuilderOf, TypeOK, Names
<1>2. ASSUME NEW q \in Callers, BuilderOf(k)' = q PROVE pc'[q] \in Builds /\ key'[q] = k
  BY <1>2 DEF BuilderOf, WriteLocks
<1>3. ASSUME NEW q \in Callers, pc'[q] \in Builds, key'[q] = k PROVE BuilderOf(k)' = q
  BY <1>3 DEF BuilderOf, WriteLocks, Writing
<1> QED
  BY <1>1, <1>2, <1>3

\* A step of one caller that begins or ends neither a build nor a lease, and leaves
\* the entries that are not being built as complete as they are.
LEMMA Quiet ==
    ASSUME IInv, IInv', NEW p \in Callers,
           \A q \in Callers : q # p => pc'[q] = pc[q] /\ key'[q] = key[q],
           pc'[p] \in Builds <=> pc[p] \in Builds, pc'[p] \in Holding <=> pc[p] \in Holding,
           pc[p] \in Builds \cup Holding => key'[p] = key[p],
           \A k \in Keys : Complete(k)' = Complete(k) \/ (pc[p] \in Builds /\ key[p] = k)
    PROVE UNCHANGED <<Done, Lessees, Makers>>
<1>1. \A k \in Keys : BuilderOf(k)' = BuilderOf(k)
  <2> SUFFICES ASSUME NEW k \in Keys PROVE BuilderOf(k)' = BuilderOf(k)
    OBVIOUS
  <2>1. \A q \in Callers : BuilderOf(k)' = q <=> BuilderOf(k) = q
    BY BuilderOfIs, BuilderOfNext
  <2>2. BuilderOf(k) \in Callers \cup {None} /\ BuilderOf(k)' \in Callers \cup {None}
    BY BuilderOfIs, BuilderOfNext
  <2> QED
    BY <2>1, <2>2
<1>2. Makers' = Makers
  BY <1>1 DEF Makers
<1>3. Lessees' = Lessees
  BY DEF Lessees
<1>4. Done' = Done
  BY <1>1, BuilderOfIs, CacheAssumption DEF Done
<1> QED
  BY <1>2, <1>3, <1>4

\* A step in which a build ends, with the entry or without it.
LEMMA BuildOver ==
    ASSUME IInv, IInv', NEW p \in Callers, pc[p] \in Builds, pc'[p] \notin Builds \cup Holding,
           \A q \in Callers : q # p => pc'[q] = pc[q] /\ key'[q] = key[q],
           \A k \in Keys : k # key[p] => Complete(k)' = Complete(k)
    PROVE Entries!Finish(key[p]) \/ Entries!Abandon(key[p])
<1>0. PICK e \in Keys : e = key[p] /\ BuilderOf(e) = p /\ p # None
  BY BuilderOwns, BuilderOfIs, CacheAssumption DEF Writing
<1>1. BuilderOf(e)' = None /\ \A k \in Keys : k # e => BuilderOf(k)' = BuilderOf(k)
  <2>1. BuilderOf(e)' = None
    <3>1. \A q \in Callers : ~(pc'[q] \in Builds /\ key'[q] = e)
      BY <1>0, BuilderOwns DEF Writing
    <3> QED
      BY <1>0, <3>1, BuilderOfNext
  <2>2. ASSUME NEW k \in Keys, k # e PROVE BuilderOf(k)' = BuilderOf(k)
    <3>1. \A q \in Callers : BuilderOf(k)' = q <=> BuilderOf(k) = q
      BY <1>0, <2>2, BuilderOfIs, BuilderOfNext
    <3>2. BuilderOf(k) \in Callers \cup {None} /\ BuilderOf(k)' \in Callers \cup {None}
      BY BuilderOfIs, BuilderOfNext
    <3> QED
      BY <3>1, <3>2
  <2> QED
    BY <2>1, <2>2
<1>2. Lessees' = Lessees
  BY DEF Lessees, Builds, Holding
<1>3. Done' = Done \/ Done' = Done \cup {e}
  <2>1. \A k \in Keys : k # e => (k \in Done' <=> k \in Done)
    BY <1>0, <1>1 DEF Done
  <2>2. e \notin Done
    BY <1>0 DEF Done
  <2> QED
    BY <1>0, <2>1, <2>2 DEF Done
<1>4. Makers[e] # None /\ Makers' = [Makers EXCEPT ![e] = None]
  BY <1>0, <1>1 DEF Makers
<1>5. Entries!Finish(e) \/ Entries!Abandon(e)
  BY <1>2, <1>3, <1>4 DEF Entries!Finish, Entries!Abandon, Done, Lessees, Makers
<1> QED
  BY <1>0, <1>5

\* A step in which a lease ends.
LEMMA LeaseOver ==
    ASSUME IInv, IInv', NEW p \in Callers, pc[p] \in Holding, pc'[p] \notin Builds \cup Holding,
           \A q \in Callers : q # p => pc'[q] = pc[q] /\ key'[q] = key[q],
           \A k \in Keys : Complete(k)' = Complete(k)
    PROVE Entries!Return(p)
<1>1. \A k \in Keys : BuilderOf(k)' = BuilderOf(k)
  <2> SUFFICES ASSUME NEW k \in Keys PROVE BuilderOf(k)' = BuilderOf(k)
    OBVIOUS
  <2>1. \A q \in Callers : BuilderOf(k)' = q <=> BuilderOf(k) = q
    BY BuilderOfIs, BuilderOfNext DEF Builds, Holding
  <2>2. BuilderOf(k) \in Callers \cup {None} /\ BuilderOf(k)' \in Callers \cup {None}
    BY BuilderOfIs, BuilderOfNext
  <2> QED
    BY <2>1, <2>2
<1>2. Done' = Done /\ Makers' = Makers
  BY <1>1 DEF Done, Makers
<1>3. Lessees' = [Lessees EXCEPT ![p] = None]
  BY DEF Lessees
<1> QED
  BY <1>2, <1>3 DEF Entries!Return, Done, Lessees, Makers

\* The steps that change no lease and no build.
LEMMA QuietSteps ==
    ASSUME IInv, IInv', NEW p \in Callers,
           \/ \E k \in Keys, m \in {"get", "lease"} : Open(p, k, m)
           \/ Share(p) \/ Read(p) \/ TryBuild(p) \/ CleanStages(p) \/ Clear(p) \/ Prepare(p)
           \/ Build(p) \/ Synchronize(p) \/ DropPartial(p) \/ Cancel(p)
    PROVE UNCHANGED <<Done, Lessees, Makers>>
<1> USE CacheAssumption DEF IInv
<1>1. CASE \E k \in Keys, m \in {"get", "lease"} : Open(p, k, m)
  <2>1. /\ pc[p] \notin Builds \cup Holding /\ pc'[p] \notin Builds \cup Holding /\ entries' = entries
        /\ \A q \in Callers : q # p => pc'[q] = pc[q] /\ key'[q] = key[q]
    BY <1>1 DEF Open, Goto, disk, TypeOK, Builds, Holding
  <2> QED
    BY <2>1, Quiet DEF Complete
<1>2. CASE Share(p)
  BY <1>2, Quiet DEF Share, Goto, disk, TypeOK, Complete, Builds, Holding
<1>3. CASE Read(p)
  BY <1>3, Quiet DEF Read, Goto, disk, TypeOK, Complete, Builds, Holding
<1>4. CASE TryBuild(p)
  <2>1. /\ pc[p] \notin Builds \cup Holding /\ pc'[p] \notin Builds \cup Holding /\ entries' = entries
        /\ \A q \in Callers : q # p => pc'[q] = pc[q] /\ key'[q] = key[q]
    BY <1>4 DEF TryBuild, Goto, disk, TypeOK, Builds, Holding
  <2> QED
    BY <2>1, Quiet DEF Complete
<1>5. CASE CleanStages(p)
  <2>1. \A k \in Keys : Complete(k)' = Complete(k)
    BY <1>5, AbsentTyped DEF CleanStages, Complete, TypeOK, Tree, Receipt
  <2> QED
    BY <1>5, <2>1, Quiet DEF CleanStages, Goto, TypeOK, Builds, Holding
<1>6. CASE Clear(p)
  <2>1. \A k \in Keys : k # key[p] => Complete(k)' = Complete(k)
    BY <1>6 DEF Clear, Complete, TypeOK
  <2>2. /\ pc[p] \in Builds \ Holding /\ pc'[p] \in Builds \ Holding /\ key' = key
        /\ \A q \in Callers : q # p => pc'[q] = pc[q]
    BY <1>6 DEF Clear, Goto, TypeOK, Builds, Holding
  <2> QED
    BY <2>1, <2>2, Quiet
<1>7. CASE Prepare(p)
  <2>1. \A k \in Keys : k # key[p] => Complete(k)' = Complete(k)
    BY <1>7 DEF Prepare, Complete, TypeOK
  <2>2. /\ pc[p] \in Builds \ Holding /\ pc'[p] \in Builds \ Holding /\ key' = key
        /\ \A q \in Callers : q # p => pc'[q] = pc[q]
    BY <1>7 DEF Prepare, Goto, TypeOK, Builds, Holding
  <2> QED
    BY <2>1, <2>2, Quiet
<1>8. CASE Build(p)
  <2>1. \A k \in Keys : k # key[p] => Complete(k)' = Complete(k)
    BY <1>8 DEF Build, PutStage, Complete, TypeOK
  <2>2. /\ pc[p] \in Builds \ Holding /\ pc'[p] \in Builds \ Holding /\ key' = key
        /\ \A q \in Callers : q # p => pc'[q] = pc[q]
    BY <1>8 DEF Build, Goto, TypeOK, Builds, Holding
  <2> QED
    BY <2>1, <2>2, Quiet
<1>9. CASE Synchronize(p)
  <2>1. \A k \in Keys : k # key[p] => Complete(k)' = Complete(k)
    BY <1>9 DEF Synchronize, PutStage, Complete, TypeOK
  <2>2. /\ pc[p] \in Builds \ Holding /\ pc'[p] \in Builds \ Holding /\ key' = key
        /\ \A q \in Callers : q # p => pc'[q] = pc[q]
    BY <1>9 DEF Synchronize, Goto, TypeOK, Builds, Holding
  <2> QED
    BY <2>1, <2>2, Quiet
<1>10. CASE DropPartial(p)
  BY <1>10, Quiet DEF DropPartial, Left, Goto, TypeOK, Complete, Builds, Holding
<1>11. CASE Cancel(p)
  BY <1>11, Quiet DEF Cancel, disk, TypeOK, Complete, Builds, Holding
<1> QED
  BY <1>1, <1>2, <1>3, <1>4, <1>5, <1>6, <1>7, <1>8, <1>9, <1>10, <1>11

\* A hit takes the lease.
LEMMA InspectLeases == ASSUME IInv, IInv', NEW p \in Callers, Inspect(p)
    PROVE (\E k \in Keys : Entries!Lease(p, k)) \/ UNCHANGED <<Done, Lessees, Makers>>
<1> USE CacheAssumption DEF IInv
<1>0. key[p] \in Keys /\ writer[key[p]] = None /\ pc[p] = "inspect"
  BY ReaderHolds DEF Inspect, Reading
<1>1. CASE Complete(key[p]) /\ pc' = [pc EXCEPT ![p] = "hit"]
  <2>1. key' = key /\ writer' = writer /\ entries' = entries
    BY <1>1 DEF Inspect, Goto, Left, disk, locks, TypeOK, Holding, Builds
  <2>2. \A k \in Keys : BuilderOf(k)' = BuilderOf(k)
    BY <1>0, <1>1, <2>1 DEF BuilderOf, TypeOK, Names, Builds
  <2>3. Done' = Done /\ Makers' = Makers /\ key[p] \in Done
    BY <1>0, <1>1, <2>1, <2>2 DEF Done, Makers, Complete, BuilderOf
  <2>4. Lessees[p] = None /\ Lessees' = [Lessees EXCEPT ![p] = key[p]]
    BY <1>0, <1>1, <2>1 DEF Lessees, TypeOK, Holding
  <2> QED
    BY <1>0, <2>3, <2>4 DEF Entries!Lease, Done, Lessees, Makers
<1>2. CASE pc' = [pc EXCEPT ![p] = "try"] \/ Left(p)
  <2>1. /\ pc[p] \notin Builds \cup Holding /\ pc'[p] \notin Builds \cup Holding
        /\ \A q \in Callers : q # p => pc'[q] = pc[q]
    BY <1>0, <1>2 DEF Left, Goto, TypeOK, Builds, Holding
  <2>2. entries' = entries /\ \A q \in Callers : q # p => key'[q] = key[q]
    BY DEF Inspect, Left, disk, TypeOK
  <2> QED
    BY <2>1, <2>2, Quiet DEF Complete
<1> QED
  BY <1>1, <1>2 DEF Inspect, Goto

\* Only entries that nobody leases are evicted.
LEMMA EvictEvicts == ASSUME IInv, IInv', NEW p \in Callers, Evict(p)
    PROVE (\E v \in Keys : Entries!Evict(v)) \/ UNCHANGED <<Done, Lessees, Makers>>
<1> USE CacheAssumption DEF IInv
<1>1. PICK v \in Keys : entries' = entries \/ (entries' = [entries EXCEPT ![v] = Absent] /\ Unlocked(v))
  BY DEF Evict, TypeOK
<1>2. UNCHANGED <<writer, pc, key>>
  BY DEF Evict, locks
<1>3. Lessees' = Lessees /\ Makers' = Makers /\ \A k \in Keys : BuilderOf(k)' = BuilderOf(k)
  BY <1>2 DEF Lessees, Makers, BuilderOf
<1>4. CASE entries' = entries
  BY <1>3, <1>4 DEF Done, Complete
<1>5. CASE entries' = [entries EXCEPT ![v] = Absent] /\ Unlocked(v)
  <2>1. \A q \in Callers : Lessees[q] # v
    BY <1>5 DEF Unlocked, Lessees, ReadLocks, Reading
  <2>2. Done' = Done \ {v}
    BY <1>3, <1>5, AbsentTyped DEF Done, Complete, TypeOK
  <2> QED
    BY <1>3, <2>1, <2>2 DEF Entries!Evict, Entries!Leased, Done, Lessees, Makers
<1> QED
  BY <1>1, <1>4, <1>5

\* The access update of a hit leaves the entry complete.
LEMMA TouchKeeps == ASSUME HalfRemovals = FALSE, IInv, IInv', NEW p \in Callers, Touch(p)
    PROVE UNCHANGED <<Done, Lessees, Makers>>
<1> USE CacheAssumption DEF IInv
<1>0. key[p] \in Keys /\ pc[p] = "touch" /\ entries[key[p]].receipt.used > 0
  BY ReaderHolds DEF Touch, Whole, HolderOf, Reading, Holding
<1>1. PICK receipt \in Receipt :
        /\ entries' = [entries EXCEPT ![key[p]].receipt = receipt, ![key[p]].firm = FALSE]
        /\ receipt.used > 0
  BY NewestTyped DEF Touch
<1>2. /\ entries'[key[p]].receipt = receipt /\ entries'[key[p]].data = entries[key[p]].data
      /\ entries'[key[p]].size = entries[key[p]].size
      /\ \A k \in Keys : k # key[p] => entries'[k] = entries[k]
  BY <1>0, <1>1 DEF TypeOK, Tree
<1>3. entries[key[p]].receipt.bytes <= Capacity /\ receipt.bytes <= Capacity
  BY <1>0 DEF TypeOK, Tree, Receipt
<1>4. \A k \in Keys : Complete(k)' = Complete(k)
  BY <1>0, <1>1, <1>2, <1>3 DEF Complete
<1> QED
  BY <1>0, <1>4, Quiet DEF Touch, Goto, TypeOK, Builds, Holding

\* Who finds the entry missing under the exclusive lock begins to build it.
LEMMA AgainBegins == ASSUME IInv, IInv', NEW p \in Callers, Again(p)
    PROVE Entries!Begin(p, key[p]) \/ UNCHANGED <<Done, Lessees, Makers>>
<1> USE CacheAssumption DEF IInv
<1>0. key[p] \in Keys /\ writer[key[p]] = p /\ pc[p] = "again" /\ readers[key[p]] = {}
  BY BuilderOwns DEF Again, Writing, WriteLocks
<1>1. CASE Complete(key[p])
  <2>1. /\ pc[p] \notin Builds \cup Holding /\ pc'[p] \notin Builds \cup Holding /\ entries' = entries
        /\ \A q \in Callers : q # p => pc'[q] = pc[q] /\ key'[q] = key[q]
    BY <1>0, <1>1 DEF Again, Goto, disk, TypeOK, Builds, Holding
  <2> QED
    BY <2>1, Quiet DEF Complete
<1>2. CASE ~Complete(key[p])
  <2>1. pc' = [pc EXCEPT ![p] = "stages"] /\ key' = key /\ writer' = writer /\ entries' = entries
    BY <1>2 DEF Again, Goto, disk
  <2>2. BuilderOf(key[p]) = None
    BY <1>0, CacheAssumption DEF BuilderOf, Builds
  <2>3. /\ Makers' = [Makers EXCEPT ![key[p]] = p]
        /\ \A k \in Keys : k # key[p] => BuilderOf(k)' = BuilderOf(k)
    <3>1. ASSUME NEW k \in Keys, k # key[p] PROVE BuilderOf(k)' = BuilderOf(k)
      BY <1>0, <2>1, <3>1 DEF BuilderOf, WriteLocks, TypeOK
    <3>2. PICK e \in Keys : e = key[p]
      BY <1>0
    <3>3. BuilderOf(e)' = p
      BY <1>0, <2>1, <3>2, BuilderOfNext DEF TypeOK, Builds
    <3> QED
      BY <3>1, <3>2, <3>3 DEF Makers
  <2>4. Lessees' = Lessees /\ Lessees[p] = None /\ \A q \in Callers : Lessees[q] # key[p]
    BY <1>0, <2>1 DEF Lessees, TypeOK, ReadLocks, Reading, Holding
  <2>5. Done' = Done /\ key[p] \notin Done
    BY <1>2, <2>1, <2>3 DEF Done, Complete
  <2>6. Makers[key[p]] = None
    BY <1>0, <2>2 DEF Makers
  <2> QED
    BY <2>3, <2>4, <2>5, <2>6 DEF Entries!Begin, Entries!Leased, Done, Lessees, Makers
<1> QED
  BY <1>1, <1>2

\* An entry is complete with its receipt, for an extraction with its publication;
\* a partial extraction and a failure leave none.
LEMMA BuildsOver ==
    ASSUME IInv, IInv', NEW p \in Callers, Publish(p) \/ Transient(p) \/ Fail(p) \/ Seal(p)
    PROVE \/ Entries!Finish(key[p]) \/ Entries!Abandon(key[p])
          \/ UNCHANGED <<Done, Lessees, Makers>>
<1> USE CacheAssumption DEF IInv
<1>1. CASE Publish(p)
  <2>1. \A k \in Keys : k # key[p] => Complete(k)' = Complete(k)
    BY <1>1 DEF Publish, Complete, TypeOK
  <2> QED
    BY <1>1, <2>1, BuildOver DEF Publish, Goto, TypeOK, Builds, Holding
<1>2. CASE Transient(p)
  BY <1>2, BuildOver DEF Transient, Goto, Complete, TypeOK, Builds, Holding
<1>3. CASE Fail(p)
  <2>1. \A k \in Keys : k # key[p] => Complete(k)' = Complete(k)
    BY <1>3 DEF Fail, PutStage, Complete, TypeOK
  <2> QED
    BY <1>3, <2>1, BuildOver DEF Fail, Left, Goto, TypeOK, Builds, Holding
<1>4. CASE Seal(p)
  <2>1. \A k \in Keys : k # key[p] => Complete(k)' = Complete(k)
    BY <1>4 DEF Seal, PutStage, Complete, TypeOK
  <2>2. /\ pc[p] = "seal" /\ key' = key
        /\ pc' = [pc EXCEPT ![p] = "share"] \/ pc' = [pc EXCEPT ![p] = "publish"]
    BY <1>4 DEF Seal, Goto
  <2>3. CASE pc' = [pc EXCEPT ![p] = "share"]
    BY <2>1, <2>2, <2>3, BuildOver DEF TypeOK, Builds, Holding
  <2>4. CASE pc' = [pc EXCEPT ![p] = "publish"]
    <3>1. /\ pc[p] \in Builds \ Holding /\ pc'[p] \in Builds \ Holding
          /\ \A q \in Callers : q # p => pc'[q] = pc[q]
      BY <2>2, <2>4 DEF TypeOK, Builds, Holding
    <3> QED
      BY <2>1, <2>2, <3>1, Quiet
  <2> QED
    BY <2>2, <2>3, <2>4
<1> QED
  BY <1>1, <1>2, <1>3, <1>4

\* A call that ends where it stands ends its lease or its build.
LEMMA LeavesEnd ==
    ASSUME IInv, IInv', NEW p \in Callers, Drop(p) \/ Crowded(p) \/ GiveUp(p) \/ Crash(p)
    PROVE \/ Entries!Return(p) \/ Entries!Finish(key[p]) \/ Entries!Abandon(key[p])
          \/ UNCHANGED <<Done, Lessees, Makers>>
<1> USE CacheAssumption DEF IInv
<1>1. /\ pc[p] # "idle" /\ pc' = [pc EXCEPT ![p] = "idle"] /\ entries' = entries
      /\ key' = [key EXCEPT ![p] = None]
  BY DEF Drop, Crowded, GiveUp, Crash, Left, Goto, disk
<1>2. \A k \in Keys : Complete(k)' = Complete(k)
  BY <1>1 DEF Complete
<1>3. CASE pc[p] \in Holding
  BY <1>1, <1>2, <1>3, LeaseOver DEF TypeOK, Builds, Holding
<1>4. CASE pc[p] \in Builds
  BY <1>1, <1>2, <1>4, BuildOver DEF TypeOK, Builds, Holding
<1>5. CASE pc[p] \notin Builds \cup Holding
  BY <1>1, <1>2, <1>5, Quiet DEF TypeOK, Builds, Holding
<1> QED
  BY <1>3, <1>4, <1>5

\* A leased install that outgrows the limit is no longer complete.
LEMMA GrowSpoils == ASSUME IInv, IInv', NEW p \in Callers, Grow(p) PROVE Entries!Spoil(key[p]) \/ UNCHANGED <<Done, Lessees, Makers>>
<1> USE CacheAssumption DEF IInv
<1>0. key[p] \in Keys /\ pc[p] = "leased"
  BY DEF Grow, ReadLocks
<1>1. /\ entries'[key[p]].receipt = entries[key[p]].receipt /\ entries'[key[p]].data = entries[key[p]].data
      /\ entries'[key[p]].size = entries[key[p]].size + 1
      /\ \A k \in Keys : k # key[p] => entries'[k] = entries[k]
  BY <1>0 DEF Grow, TypeOK, Tree
<1>2. Lessees' = Lessees /\ Makers' = Makers /\ \A k \in Keys : BuilderOf(k)' = BuilderOf(k)
  BY DEF Grow, locks, Lessees, Makers, BuilderOf
<1>3. Done' = Done \/ Done' = Done \ {key[p]}
  <2>1. \A k \in Keys : k # key[p] => (k \in Done' <=> k \in Done)
    BY <1>1, <1>2 DEF Done, Complete
  <2>2. key[p] \in Done' => key[p] \in Done
    BY <1>0, <1>1, <1>2 DEF Done, Complete, TypeOK, Tree
  <2> QED
    BY <2>1, <2>2 DEF Done
<1>4. Lessees[p] = key[p]
  BY <1>0 DEF Lessees, Holding
<1> QED
  BY <1>2, <1>3, <1>4 DEF Entries!Spoil, Entries!Leased, Done, Lessees, Makers

\* Losing power completes nothing.
LEMMA PowerEnds == ASSUME HalfRemovals = FALSE, IInv, IInv', PowerLoss PROVE Entries!LosePower
<1> USE CacheAssumption DEF IInv
<1>1. Lessees' = [p \in Callers |-> None] /\ Makers' = [k \in Keys |-> None]
  BY DEF PowerLoss, Lessees, Makers, BuilderOf, Holding, Names
<1>2. ASSUME NEW k \in Keys, Complete(k)' PROVE Complete(k) /\ BuilderOf(k) = None
  <2>1. PICK data \in SUBSET {i \in Keys : entries[i].data = "written"},
             receipts \in SUBSET {i \in Keys : entries[i].receipt.used > 0 /\ ~entries[i].firm} :
         entries' = [i \in Keys |->
              [entries[i] EXCEPT !.data = IF i \in data THEN "part" ELSE @,
                                 !.receipt = IF i \in receipts THEN NoReceipt ELSE @]]
    BY DEF PowerLoss
  <2>2. /\ entries'[k].receipt \in {NoReceipt, entries[k].receipt} /\ entries'[k].size = entries[k].size
        /\ entries'[k].data \in {"part", entries[k].data}
        /\ entries'[k].data = "part" => entries[k].data \in {"part", "written"}
    <3> DEFINE d == IF k \in data THEN "part" ELSE entries[k].data
               r == IF k \in receipts THEN NoReceipt ELSE entries[k].receipt
    <3>1. entries'[k] = [entries[k] EXCEPT !.data = d, !.receipt = r]
      BY <2>1 DEF TypeOK, Tree
    <3>2. entries'[k].data = d /\ entries'[k].receipt = r /\ entries'[k].size = entries[k].size
      BY <3>1 DEF TypeOK, Tree
    <3>3. k \in data => entries[k].data = "written"
      BY <2>1
    <3> QED
      BY <3>2, <3>3
  <2>3. Complete(k)
    BY <1>2, <2>2, AbsentTyped DEF Complete
  <2>4. ASSUME BuilderOf(k) # None PROVE FALSE
    <3>1. PICK q \in Callers : pc[q] \in Builds /\ key[q] = k
      BY <2>4, BuilderOfIs
    <3>2. pc[q] = "cleared" => entries[k].receipt.used = 0
      <4>1. Interruptible(q)
        BY DEF PowerLoss
      <4> QED
        BY <3>1, <4>1 DEF Interruptible
    <3>3. entries[k].receipt.used # 0
      BY <2>3 DEF Complete, TypeOK, Tree, Receipt
    <3> QED
      BY <2>3, <3>1, <3>2, <3>3 DEF Whole, HolderOf, Builds, Filling
  <2> QED
    BY <2>3, <2>4
<1>3. Done' \subseteq Done
  BY <1>2 DEF Done
<1> QED
  BY <1>1, <1>3 DEF Entries!LosePower, Done, Lessees, Makers

\* Where the removal of an entry with a receipt is not interrupted, the cache leases
\* complete entries only, each built by one caller and evicted under nobody.
THEOREM Implements == ASSUME HalfRemovals = FALSE PROVE Spec => EntriesSpec
<1>1. Init => Entries!Init
  <2> SUFFICES ASSUME Init PROVE Entries!Init
    OBVIOUS
  <2>1. Done \in SUBSET Keys
    BY DEF Done
  <2>2. Lessees = [p \in Callers |-> None] /\ Makers = [k \in Keys |-> None]
    BY DEF Init, Lessees, Makers, BuilderOf, Holding, Names
  <2> QED
    BY <2>1, <2>2 DEF Entries!Init, Done, Lessees, Makers
<1>2. IInv /\ IInv' /\ [Next]_vars => [Entries!Next]_Entries!vars
  <2> SUFFICES ASSUME IInv, IInv', [Next]_vars PROVE Entries!Next \/ UNCHANGED <<Done, Lessees, Makers>>
    BY DEF Entries!vars, Done, Lessees, Makers
  <2>1. ASSUME NEW p \in Callers,
               Step(p) \/ Drop(p) \/ DropPartial(p) \/ Grow(p) \/ Cancel(p) \/ Crash(p)
               \/ (\E k \in Keys, m \in {"get", "lease"} : Open(p, k, m))
        PROVE Entries!Next \/ UNCHANGED <<Done, Lessees, Makers>>
    <3>1. pc[p] # "idle" => key[p] \in Keys
      BY DEF IInv, ReadLocks
    <3>2. CASE \/ (\E k \in Keys, m \in {"get", "lease"} : Open(p, k, m))
               \/ Share(p) \/ Read(p) \/ TryBuild(p) \/ CleanStages(p) \/ Clear(p) \/ Prepare(p)
               \/ Build(p) \/ Synchronize(p) \/ DropPartial(p) \/ Cancel(p)
      BY <3>2, QuietSteps
    <3>3. CASE Inspect(p)
      BY <3>3, InspectLeases DEF Entries!Next
    <3>4. CASE Evict(p)
      BY <3>4, EvictEvicts DEF Entries!Next
    <3>5. CASE Touch(p)
      BY <3>5, TouchKeeps
    <3>6. CASE Again(p)
      BY <3>1, <3>6, AgainBegins DEF Entries!Next, Again
    <3>7. CASE Publish(p) \/ Transient(p) \/ Fail(p) \/ Seal(p)
      BY <3>1, <3>7, BuildsOver DEF Entries!Next, Publish, Transient, Fail, Seal
    <3>8. CASE Drop(p) \/ Crowded(p) \/ GiveUp(p) \/ Crash(p)
      BY <3>1, <3>8, LeavesEnd DEF Entries!Next, Drop, Crowded, GiveUp, Crash
    <3>9. CASE Grow(p)
      BY <3>1, <3>9, GrowSpoils DEF Entries!Next, Grow
    <3> QED
      BY <2>1, <3>2, <3>3, <3>4, <3>5, <3>6, <3>7, <3>8, <3>9 DEF Step
  <2>2. CASE PowerLoss
    BY <2>2, PowerEnds DEF Entries!Next
  <2>3. CASE UNCHANGED vars
    BY <2>3 DEF Done, Lessees, Makers, Complete, BuilderOf, vars, disk, locks
  <2> QED
    BY <2>1, <2>2, <2>3 DEF Next
<1> QED
  BY <1>1, <1>2, Inductive, PTL DEF Spec, EntriesSpec, Entries!Spec
-----------------------------------------------------------------------------
(* Sums of bytes *)

Units(b, S) == UNION {{k} \X (1 .. b[k]) : k \in S}
Sum(b, S) == Cardinality(Units(b, S))

LEMMA SumFinite ==
    ASSUME NEW S \in SUBSET Keys, NEW b, \A k \in S : b[k] \in Nat
    PROVE  IsFiniteSet(Units(b, S)) /\ Sum(b, S) \in Nat
<1> DEFINE F == {{k} \X (1 .. b[k]) : k \in S}
<1>1. IsFiniteSet(S)
  BY CacheAssumption, FS_Subset
<1>2. IsFiniteSet(F)
  <2> DEFINE f == [k \in S |-> {k} \X (1 .. b[k])]
  <2>1. f \in Surjection(S, F)
    BY DEF Surjection
  <2> QED
    BY <1>1, <2>1, FS_Surjection
<1>3. ASSUME NEW T \in F PROVE IsFiniteSet(T)
  <2>1. PICK k \in S : T = {k} \X (1 .. b[k])
    OBVIOUS
  <2>2. IsFiniteSet({k}) /\ IsFiniteSet(1 .. b[k])
    <3>1. PICK n \in Nat : n = b[k]
      BY <2>1
    <3>2. 1 \in Int /\ n \in Int
      BY <3>1
    <3>3. IsFiniteSet(1 .. n)
      BY <3>2, FS_Interval
    <3> QED
      BY <3>1, <3>3, FS_Singleton
  <2> QED
    BY <2>1, <2>2, FS_Product
<1>4. IsFiniteSet(UNION F)
  BY <1>2, <1>3, FS_UNION
<1> QED
  BY <1>4, FS_CardinalityType DEF Units, Sum

\* A sum of fewer or smaller terms is smaller.
LEMMA SumLess ==
    ASSUME NEW S \in SUBSET Keys, NEW T \in SUBSET Keys, NEW a, NEW b,
           \A k \in S : b[k] \in Nat,
           \A k \in T : a[k] \in Nat /\ (a[k] > 0 => k \in S /\ a[k] <= b[k])
    PROVE  Sum(a, T) <= Sum(b, S)
<1>1. Units(a, T) \subseteq Units(b, S)
  <2> SUFFICES ASSUME NEW u \in Units(a, T) PROVE u \in Units(b, S)
    OBVIOUS
  <2>1. PICK k \in T : u \in {k} \X (1 .. a[k])
    BY DEF Units
  <2>2. PICK i \in 1 .. a[k] : u = <<k, i>>
    BY <2>1
  <2>3. a[k] \in Nat /\ a[k] > 0
    BY <2>2
  <2>4. k \in S /\ i \in 1 .. b[k]
    BY <2>2, <2>3
  <2>5. u \in {k} \X (1 .. b[k])
    BY <2>2, <2>4
  <2> QED
    BY <2>4, <2>5 DEF Units
<1> QED
  BY <1>1, SumFinite, FS_Subset DEF Sum

\* A sum is one of its terms and the sum of the others.
LEMMA SumSplit ==
    ASSUME NEW S \in SUBSET Keys, NEW b, \A k \in S : b[k] \in Nat, NEW x \in S
    PROVE  Sum(b, S) = b[x] + Sum(b, S \ {x})
<1> DEFINE own == {x} \X (1 .. b[x])
           rest == Units(b, S \ {x})
<1>1. IsFiniteSet(own) /\ Cardinality(own) = b[x]
  <2>1. IsFiniteSet({x}) /\ Cardinality({x}) = 1
    BY FS_Singleton
  <2>2. IsFiniteSet(1 .. b[x]) /\ Cardinality(1 .. b[x]) = b[x]
    <3>1. PICK n \in Nat : n = b[x]
      OBVIOUS
    <3>2. 1 \in Int /\ n \in Int
      BY <3>1
    <3>3. IsFiniteSet(1 .. n) /\ Cardinality(1 .. n) = IF 1 > n THEN 0 ELSE n - 1 + 1
      BY <3>2, FS_Interval
    <3>4. Cardinality(1 .. n) = n
      BY <3>1, <3>3
    <3> QED
      BY <3>1, <3>3, <3>4
  <2>3. IsFiniteSet(own) /\ Cardinality(own) = 1 * b[x]
    BY <2>1, <2>2, FS_Product
  <2> QED
    BY <2>3
<1>2. IsFiniteSet(rest) /\ Cardinality(rest) \in Nat
  BY SumFinite, FS_CardinalityType
<1>3. Units(b, S) = own \cup rest
  BY DEF Units
<1>4. own \cap rest = {}
  <2> SUFFICES ASSUME NEW u \in own, u \in rest PROVE FALSE
    OBVIOUS
  <2>1. PICK k \in S \ {x} : u \in {k} \X (1 .. b[k])
    BY DEF Units
  <2> QED
    BY <2>1
<1> HIDE DEF own, rest
<1>5. Cardinality(own \cup rest) = b[x] + Cardinality(rest)
  <2>1. Cardinality(own \cap rest) = 0
    BY <1>4, FS_EmptySet
  <2> QED
    BY <1>1, <1>2, <2>1, FS_Union
<1> QED
  BY <1>3, <1>5 DEF Sum, rest

-----------------------------------------------------------------------------
(* Room *)

Held == [k \in Keys |-> Retained(k)]

\* Who adopts an entry has the namespace to itself.
Adopting == {"touch", "seal", "publish"}
Adopters == \A p \in Callers : pc[p] \in Adopting => namespace = p

\* Entries that may still count against the room of an adoption, as it remembers them:
\* what it skipped or may yet look at, but not what it evicted.
Claimed(p) == {k \in Keys \ {key[p]} : k \in todo[p] \/ Retained(k) > 0}
Remembered(p) == [k \in Keys |-> seen[p][k].bytes]

RoomOf(p) ==
    pc[p] \in {"touch", "seal"} =>
        /\ room[p] \in Int /\ key[p] \notin todo[p]
        /\ \A k \in Claimed(p) : Retained(k) <= seen[p][k].bytes
        /\ room[p] + counted[p] + Sum(Remembered(p), Claimed(p)) <= Capacity

\* A receipt that is written but not yet in place fits beside the others.
SealedOf(p) ==
    pc[p] = "publish" =>
        staging[key[p]].receipt.bytes + Sum(Held, Keys \ {key[p]}) <= Capacity

Roomy ==
    /\ Adopters
    /\ \A p \in Callers : RoomOf(p) /\ SealedOf(p)
    /\ Sum(Held, Keys) <= Capacity

LEMMA HeldTyped == ASSUME TypeOK PROVE
    /\ \A k \in Keys : Held[k] \in Nat /\ Held[k] = Retained(k) /\ Retained(k) = entries[k].receipt.bytes
    /\ \A p \in Callers : /\ counted[p] \in Nat /\ todo[p] \in SUBSET Keys
                          /\ \A k \in Keys : seen[p][k] \in Receipt /\ seen[p][k].bytes \in Nat
                                             /\ Remembered(p)[k] = seen[p][k].bytes
    /\ \A n \in Names : staging[n].receipt \in Receipt /\ staging[n].receipt.bytes \in Nat
BY CacheAssumption DEF TypeOK, Tree, Receipt, Held, Retained, Remembered

LEMMA HeldNext == ASSUME TypeOK' PROVE
    /\ \A k \in Keys : Held'[k] \in Nat /\ Held'[k] = Retained(k)' /\ Retained(k)' = entries'[k].receipt.bytes
    /\ \A n \in Names : staging'[n].receipt \in Receipt /\ staging'[n].receipt.bytes \in Nat
BY CacheAssumption DEF TypeOK, Tree, Receipt, Held, Retained

\* A step that writes no receipt, and ends adoptions or leaves them alone, keeps the room.
LEMMA Shrinks ==
    ASSUME IInv, IInv', Roomy,
           \A k \in Keys : entries'[k].receipt.bytes <= entries[k].receipt.bytes,
           \A q \in Callers : pc'[q] \in Adopting =>
               /\ pc'[q] = pc[q] /\ key'[q] = key[q] /\ (namespace = q => namespace' = q)
               /\ counted'[q] = counted[q] /\ seen'[q] = seen[q]
               /\ todo'[q] = todo[q] /\ room'[q] = room[q]
               /\ pc[q] = "publish" =>
                    staging'[key[q]].receipt.bytes = staging[key[q]].receipt.bytes
    PROVE  Roomy'
<1>1. TypeOK /\ TypeOK' /\ ReadLocks
  BY DEF IInv
<1>2. \A k \in Keys : Held[k] \in Nat /\ Held'[k] \in Nat /\ Held'[k] <= Held[k]
                      /\ Held[k] = Retained(k) /\ Held'[k] = Retained(k)'
  BY <1>1, HeldTyped, HeldNext
<1>3. Adopters'
  BY DEF Roomy, Adopters
<1>4. Sum(Held', Keys) <= Capacity
  <2>1. Sum(Held', Keys) <= Sum(Held, Keys)
    BY <1>2, SumLess
  <2>2. Sum(Held, Keys) \in Nat /\ Sum(Held', Keys) \in Nat /\ Sum(Held, Keys) <= Capacity
    BY <1>2, SumFinite DEF Roomy
  <2> QED
    BY <2>1, <2>2, CacheAssumption
<1>5. ASSUME NEW q \in Callers PROVE RoomOf(q)'
  <2> SUFFICES ASSUME pc'[q] \in {"touch", "seal"} PROVE RoomOf(q)'
    BY DEF RoomOf
  <2>1. /\ pc[q] \in {"touch", "seal"} /\ key'[q] = key[q] /\ counted'[q] = counted[q]
        /\ seen'[q] = seen[q] /\ todo'[q] = todo[q] /\ room'[q] = room[q]
    BY DEF Adopting
  <2>2. /\ room[q] \in Int /\ key[q] \notin todo[q]
        /\ \A k \in Claimed(q) : Retained(k) <= seen[q][k].bytes
        /\ room[q] + counted[q] + Sum(Remembered(q), Claimed(q)) <= Capacity
    BY <2>1 DEF Roomy, RoomOf
  <2>3. Claimed(q)' \subseteq Claimed(q) /\ Claimed(q) \subseteq Keys
        /\ \A k \in Claimed(q)' : Retained(k)' <= seen[q][k].bytes
    <3>1. \A k \in Keys : Retained(k)' <= Retained(k) /\ Retained(k) \in Nat /\ Retained(k)' \in Nat
                          /\ seen[q][k].bytes \in Nat
      BY <1>1, <1>2, HeldTyped
    <3>2. Claimed(q)' \subseteq Claimed(q) /\ Claimed(q) \subseteq Keys
      BY <2>1, <3>1 DEF Claimed
    <3>3. ASSUME NEW k \in Keys, k \in Claimed(q) PROVE Retained(k)' <= seen[q][k].bytes
      <4>1. Retained(k) <= seen[q][k].bytes
        BY <2>2, <3>3
      <4> QED BY <3>1, <4>1
    <3> QED BY <3>2, <3>3
  <2>4. Remembered(q)' = Remembered(q)
    BY <2>1 DEF Remembered
  <2>5. \A k \in Keys : Remembered(q)[k] \in Nat
    BY <1>1, HeldTyped
  <2> DEFINE after == Sum(Remembered(q), Claimed(q)')
             before == Sum(Remembered(q), Claimed(q))
  <2>6. after \in Nat /\ before \in Nat /\ after <= before
    <3>1. PICK T \in SUBSET Keys : T = Claimed(q)'
      BY <2>3
    <3>2. \A k \in T : Remembered(q)[k] \in Nat /\ k \in Claimed(q)
      BY <2>3, <2>5, <3>1
    <3> QED
      BY <2>3, <2>5, <3>1, <3>2, SumLess, SumFinite
  <2>7. counted[q] \in Nat /\ room[q] + counted[q] + before <= Capacity
    BY <1>1, <2>2, HeldTyped
  <2> HIDE DEF after, before
  <2>8. room'[q] + counted'[q] + after <= Capacity
    BY <2>1, <2>2, <2>6, <2>7, CacheAssumption
  <2>9. Sum(Remembered(q), Claimed(q))' = after
    BY <2>4 DEF after, Sum, Units
  <2> QED
    BY <2>1, <2>2, <2>3, <2>8, <2>9 DEF RoomOf
<1>6. ASSUME NEW q \in Callers PROVE SealedOf(q)'
  <2> SUFFICES ASSUME pc'[q] = "publish" PROVE SealedOf(q)'
    BY DEF SealedOf
  <2>1. pc[q] = "publish" /\ key'[q] = key[q] /\ key[q] \in Keys
        /\ staging'[key[q]].receipt.bytes = staging[key[q]].receipt.bytes
    BY <1>1 DEF Adopting, ReadLocks
  <2>2. staging[key[q]].receipt.bytes + Sum(Held, Keys \ {key[q]}) <= Capacity
    BY <2>1 DEF Roomy, SealedOf
  <2>3. PICK S \in SUBSET Keys : S = Keys \ {key[q]}
    OBVIOUS
  <2>4. Sum(Held', S) <= Sum(Held, S) /\ Sum(Held', S) \in Nat /\ Sum(Held, S) \in Nat
    BY <1>2, SumLess, SumFinite
  <2>5. staging[key[q]].receipt.bytes \in Nat
    BY <1>1, <2>1, HeldTyped DEF Names
  <2>6. staging'[key[q]].receipt.bytes + Sum(Held', S) <= Capacity
    BY <2>1, <2>2, <2>3, <2>4, <2>5, CacheAssumption
  <2> QED
    BY <2>1, <2>3, <2>6 DEF SealedOf
<1> QED
  BY <1>3, <1>4, <1>5, <1>6 DEF Roomy

\* Steps that write nothing.
LEMMA QuietRoomy ==
    ASSUME IInv, IInv', Roomy, NEW p \in Callers,
           \/ \E k \in Keys, m \in {"get", "lease"} : Open(p, k, m)
           \/ Share(p) \/ Inspect(p) \/ Crowded(p) \/ TryBuild(p) \/ Again(p)
           \/ Drop(p) \/ GiveUp(p) \/ Cancel(p) \/ Crash(p)
    PROVE  Roomy'
<1>1. TypeOK
  BY DEF IInv
<1>2. UNCHANGED disk
  BY DEF Open, Share, Inspect, Crowded, TryBuild, Again, Drop, GiveUp, Cancel, Crash, disk
<1>3. \A k \in Keys : entries'[k].receipt.bytes <= entries[k].receipt.bytes
  BY <1>1, <1>2, HeldTyped DEF disk
<1>4. CASE Left(p)
  <2>1. pc'[p] \notin Adopting
    BY <1>1, <1>4 DEF Left, Goto, TypeOK, Adopting
  <2>2. \A q \in Callers : q # p =>
            /\ pc'[q] = pc[q] /\ key'[q] = key[q] /\ (namespace = q => namespace' = q)
            /\ counted'[q] = counted[q] /\ seen'[q] = seen[q] /\ todo'[q] = todo[q] /\ room'[q] = room[q]
    BY <1>1, <1>4 DEF Left, Goto, Unlock, Forget, TypeOK
  <2> QED
    BY <1>2, <1>3, <2>1, <2>2, Shrinks DEF disk
<1>5. CASE Cancel(p)
  BY <1>2, <1>3, <1>5, Shrinks DEF Cancel, disk, locks, scan
<1>6. ASSUME ~Left(p), ~Cancel(p) PROVE Roomy'
  <2>1. CASE Inspect(p)
    <3>1. pc'[p] \in {"hit", "try"} /\ UNCHANGED <<key, seen, todo, room>>
          /\ (\A q \in Callers : q # p => pc'[q] = pc[q] /\ counted'[q] = counted[q])
          /\ (namespace' = namespace \/ Unlock(p))
      BY <1>1, <1>6, <2>1 DEF Inspect, Goto, TypeOK, scan, locks
    <3>2. \A q \in Callers : q # p /\ namespace = q => namespace' = q
      BY <3>1 DEF Unlock
    <3> QED
      BY <1>2, <1>3, <3>1, <3>2, Shrinks DEF disk, Adopting
  <2>2. CASE \/ \E k \in Keys, m \in {"get", "lease"} : Open(p, k, m)
             \/ Share(p) \/ TryBuild(p) \/ Again(p)
    <3>1. pc'[p] \in {"share", "inspect", "again", "stages"}
          /\ (\A q \in Callers : q # p => pc'[q] = pc[q] /\ key'[q] = key[q])
          /\ UNCHANGED <<counted, seen, todo, room, namespace>>
      BY <1>1, <2>2 DEF Open, Share, TryBuild, Again, Goto, TypeOK, scan, locks
    <3> QED
      BY <1>2, <1>3, <3>1, Shrinks DEF disk, Adopting
  <2>3. CASE Crowded(p) \/ Drop(p) \/ GiveUp(p) \/ Crash(p)
    BY <1>6, <2>3 DEF Crowded, Drop, GiveUp, Crash
  <2> QED
    BY <1>6, <2>1, <2>2, <2>3
<1> QED
  BY <1>4, <1>5, <1>6

\* Steps of a build before its adoption, and its end: they only take receipts away.
LEMMA BuildRoomy ==
    ASSUME IInv, IInv', Roomy, NEW p \in Callers,
           \/ CleanStages(p) \/ Clear(p) \/ Prepare(p) \/ Build(p) \/ Synchronize(p)
           \/ Transient(p) \/ DropPartial(p) \/ Grow(p) \/ Fail(p)
    PROVE  Roomy'
<1> USE CacheAssumption DEF Names
<1>1. /\ TypeOK /\ key[p] \in Keys
      /\ \A k \in Keys : entries[k].receipt.bytes \in Nat /\ entries[k] \in Tree /\ staging[k] \in Tree
      /\ \A t \in Tree : t.receipt.bytes \in Nat
  BY HeldTyped DEF IInv, TypeOK, ReadLocks, Tree, Receipt, CleanStages, Clear, Prepare, Build, Synchronize,
     Transient, DropPartial, Grow, Fail
<1>2. NoReceipt.bytes = 0 /\ Absent.receipt = NoReceipt /\ Fresh.receipt = NoReceipt
  BY DEF NoReceipt, Absent, Fresh
<1>3. /\ pc'[p] \notin Adopting
      /\ \A q \in Callers : q # p =>
            /\ pc'[q] = pc[q] /\ key'[q] = key[q] /\ (namespace = q => namespace' = q)
            /\ counted'[q] = counted[q] /\ seen'[q] = seen[q] /\ todo'[q] = todo[q] /\ room'[q] = room[q]
  <2>1. CASE Left(p)
    BY <1>1, <2>1 DEF Left, Goto, Unlock, Forget, TypeOK, Adopting
  <2>2. CASE CleanStages(p) \/ Clear(p) \/ Prepare(p) \/ Build(p) \/ Synchronize(p) \/ Transient(p)
    <3>1. /\ pc'[p] \in {"clear", "cleared", "build", "flush", "private", "adopt", "partial"}
          /\ UNCHANGED <<key, seen, todo, room, namespace>>
          /\ \A q \in Callers : q # p => pc'[q] = pc[q] /\ counted'[q] = counted[q]
      BY <1>1, <2>2 DEF CleanStages, Clear, Prepare, Build, Synchronize, Transient, Goto, TypeOK, scan, locks
    <3> QED
      BY <3>1 DEF Adopting
  <2>3. CASE Grow(p)
    BY <2>3 DEF Grow, scan, locks, Adopting
  <2> QED
    BY <2>1, <2>2, <2>3 DEF DropPartial, Fail
<1>4. \A k \in Keys : entries'[k].receipt.bytes <= entries[k].receipt.bytes
  <2>1. CASE CleanStages(p)
    BY <1>1, <1>2, <2>1 DEF CleanStages
  <2>2. CASE Clear(p)
    <3>1. CASE entries' = entries
      BY <1>1, <3>1
    <3>2. CASE entries' # entries
      <4>1. PICK h \in Halves(entries[key[p]]) : entries' = [entries EXCEPT ![key[p]] = h]
        BY <2>2, <3>2 DEF Clear
      <4>2. h.receipt \in {NoReceipt, entries[key[p]].receipt}
        <5>1. PICK d \in {"none", "part", entries[key[p]].data}, r \in {NoReceipt, entries[key[p]].receipt} :
                h = [entries[key[p]] EXCEPT !.data = d,
                       !.size = IF d = entries[key[p]].data THEN @ ELSE 0, !.receipt = r]
          BY DEF Halves
        <5>2. entries[key[p]] \in [data : {"none", "part", "written", "full"}, size : Nat,
                                   receipt : Receipt, firm : BOOLEAN]
          BY <1>1 DEF Tree
        <5>3. h.receipt = r
          BY <5>1, <5>2
        <5> QED
          BY <5>3
      <4> QED
        BY <1>1, <1>2, <4>1, <4>2 DEF TypeOK
    <3> QED
      BY <3>1, <3>2
  <2>3. CASE Prepare(p)
    BY <1>1, <1>2, <2>3 DEF Prepare, TypeOK
  <2>4. CASE Build(p)
    <3>1. [Fresh EXCEPT !.data = "written", !.size = Size[key[p]]].receipt = NoReceipt
      BY <1>2 DEF Fresh, Absent
    <3> QED
      BY <1>1, <1>2, <2>4, <3>1 DEF Build, PutStage, TypeOK
  <2>5. CASE Synchronize(p)
    <3>1. InPlace => [Stage(key[p]) EXCEPT !.data = "full"].receipt = entries[key[p]].receipt
      BY <1>1 DEF Stage, Tree
    <3> QED
      BY <1>1, <2>5, <3>1 DEF Synchronize, PutStage, TypeOK
  <2>6. CASE Transient(p) \/ DropPartial(p)
    BY <1>1, <2>6 DEF Transient, DropPartial
  <2>7. CASE Grow(p)
    <3>1. entries' = [entries EXCEPT ![key[p]] = [entries[key[p]] EXCEPT !.size = entries[key[p]].size + 1]]
      BY <1>1, <2>7 DEF Grow, TypeOK
    <3>2. [entries[key[p]] EXCEPT !.size = entries[key[p]].size + 1].receipt = entries[key[p]].receipt
      BY <1>1 DEF Tree
    <3> QED
      BY <1>1, <3>1, <3>2 DEF TypeOK
  <2>8. CASE Fail(p)
    BY <1>1, <1>2, <2>8 DEF Fail, PutStage, TypeOK
  <2> QED
    BY <2>1, <2>2, <2>3, <2>4, <2>5, <2>6, <2>7, <2>8
<1>5. ASSUME NEW q \in Callers, q # p, pc[q] = "publish" PROVE staging'[key[q]] = staging[key[q]]
  <2>1. /\ namespace = q /\ key[q] \in Keys /\ writer[key[q]] = q
        /\ pc[p] \in Writing => key[q] # key[p]
    BY <1>5, BuilderOwns DEF Roomy, Adopters, Adopting, Writing, Builds
  <2>2. CASE Clear(p) \/ Prepare(p) \/ Build(p) \/ Synchronize(p) \/ Fail(p)
    <3>1. key[q] # key[p]
      BY <2>1, <2>2 DEF Clear, Prepare, Build, Synchronize, Fail, Writing, Builds
    <3> QED
      BY <1>1, <2>1, <2>2, <3>1 DEF Clear, Prepare, Build, Synchronize, Fail, PutStage, TypeOK
  <2>3. CASE DropPartial(p) \/ Grow(p)
    <3>1. DropPartial(p) => private[p] \in Privates /\ private[p] # key[q]
      BY <2>1 DEF DropPartial, IInv, WriteLocks
    <3> QED
      BY <1>1, <2>1, <2>3, <3>1 DEF DropPartial, Grow, TypeOK
  <2>4. CASE CleanStages(p) \/ Transient(p)
    BY <1>5, <2>1, <2>4 DEF CleanStages, Transient
  <2> QED
    BY <2>2, <2>3, <2>4
<1> QED
  BY <1>3, <1>4, <1>5, Shrinks

LEMMA PowerRoomy == ASSUME IInv, IInv', Roomy, PowerLoss PROVE Roomy'
<1>1. \A q \in Callers : pc'[q] \notin Adopting
  BY DEF PowerLoss, Adopting
<1>2. ASSUME NEW k \in Keys PROVE entries'[k].receipt.bytes <= entries[k].receipt.bytes
  <2>1. PICK data \in SUBSET {i \in Keys : entries[i].data = "written"},
             receipts \in SUBSET {i \in Keys : entries[i].receipt.used > 0 /\ ~entries[i].firm} :
         entries' = [i \in Keys |->
              [entries[i] EXCEPT !.data = IF i \in data THEN "part" ELSE @,
                                 !.receipt = IF i \in receipts THEN NoReceipt ELSE @]]
    BY DEF PowerLoss
  <2>2. entries[k] \in Tree /\ entries[k].receipt.bytes \in Nat
    BY HeldTyped DEF IInv, TypeOK
  <2>3. entries'[k].receipt \in {NoReceipt, entries[k].receipt}
    BY <2>1, <2>2 DEF Tree
  <2> QED
    BY <2>2, <2>3 DEF NoReceipt
<1> QED
  BY <1>1, <1>2, Shrinks

\* While a caller adopts, nobody else does.
LEMMA OneAdopts ==
    ASSUME Roomy, NEW p \in Callers, pc[p] \in Adopting, NEW q \in Callers, q # p
    PROVE  pc[q] \notin Adopting
BY DEF Roomy, Adopters

\* Room is counted against every other entry that has a receipt.
LEMMA ReadRoomy == ASSUME IInv, IInv', Roomy, NEW p \in Callers, Read(p) PROVE Roomy'
<1>1. /\ TypeOK /\ TypeOK' /\ key[p] \in Keys /\ key' = key /\ entries' = entries /\ staging' = staging
      /\ namespace = None /\ namespace' = p /\ pc'[p] \in {"touch", "seal"} /\ counted' = counted
      /\ seen'[p] = [k \in Keys |-> entries[k].receipt]
      /\ todo'[p] = {k \in Keys \ {key[p]} : entries[k] # Absent}
      /\ room'[p] = Capacity - counted[p] - Kept(Keys \ {key[p]})
      /\ \A q \in Callers : q # p => pc'[q] = pc[q]
  BY DEF Read, Goto, IInv, TypeOK, ReadLocks, disk
<1>2. \A q \in Callers : pc[q] \notin Adopting /\ (q # p => pc'[q] \notin Adopting)
  BY <1>1, CacheAssumption DEF Roomy, Adopters
<1>3. Held' = Held
  BY <1>1 DEF Held, Retained
<1>4. /\ \A k \in Keys : Held[k] \in Nat /\ Held[k] = Retained(k) /\ Retained(k)' = Retained(k)
                         /\ Retained(k) = entries[k].receipt.bytes
      /\ counted[p] \in Nat
  BY <1>1, HeldTyped DEF Retained
<1>5. PICK S \in SUBSET Keys : S = Keys \ {key[p]}
  OBVIOUS
<1>6. Kept(S) = Sum(Held, S) /\ Sum(Held, S) \in Nat
  <2>1. {{k} \X (1 .. Retained(k)) : k \in S} = {{k} \X (1 .. Held[k]) : k \in S}
    BY <1>4
  <2>2. Kept(S) = Sum(Held, S)
    BY <2>1 DEF Kept, Sum, Units
  <2>3. Sum(Held, S) \in Nat
    BY <1>4, SumFinite
  <2> QED
    BY <2>2, <2>3
<1>7. Claimed(p)' \subseteq S
  BY <1>1, <1>5 DEF Claimed
<1>8. \A k \in Keys : Remembered(p)'[k] = Held[k]
  BY <1>1, <1>4 DEF Remembered
<1>9. PICK T, b : T \in SUBSET Keys /\ T = Claimed(p)' /\ b = Remembered(p)'
  BY <1>7
<1>10. Sum(b, T) <= Sum(Held, S) /\ Sum(b, T) \in Nat
  BY <1>4, <1>7, <1>8, <1>9, SumLess, SumFinite
<1>11. RoomOf(p)'
  <2>1. room'[p] \in Int /\ room'[p] + counted'[p] + Sum(b, T) <= Capacity
    BY <1>1, <1>4, <1>5, <1>6, <1>10, CacheAssumption
  <2>2. Sum(Remembered(p), Claimed(p))' = Sum(b, T)
    BY <1>9 DEF Sum, Units
  <2>3. \A k \in Claimed(p)' : Retained(k)' <= seen'[p][k].bytes
    BY <1>1, <1>4, <1>5, <1>7
  <2> QED
    BY <1>1, <2>1, <2>2, <2>3 DEF RoomOf
<1>12. \A q \in Callers : RoomOf(q)' /\ SealedOf(q)'
  BY <1>1, <1>2, <1>11 DEF RoomOf, SealedOf, Adopting
<1> QED
  BY <1>1, <1>2, <1>3, <1>12 DEF Roomy, Adopters

\* An eviction frees what it counts as free, or more.
LEMMA EvictRoomy == ASSUME IInv, IInv', Roomy, NEW p \in Callers, Evict(p) PROVE Roomy'
<1>1. PICK v \in todo[p] :
         /\ todo' = [todo EXCEPT ![p] = @ \ {v}]
         /\ \/ /\ entries' = [entries EXCEPT ![v] = Absent]
               /\ room' = [room EXCEPT ![p] = @ + seen[p][v].bytes]
            \/ UNCHANGED <<entries, room>>
  BY DEF Evict
<1>2. /\ TypeOK /\ TypeOK' /\ key[p] \in Keys /\ v \in Keys /\ pc[p] \in {"touch", "seal"}
      /\ UNCHANGED <<staging, namespace, pc, key, counted, seen>> /\ todo[p] \in SUBSET Keys
      /\ todo'[p] = todo[p] \ {v}
  BY <1>1 DEF Evict, IInv, TypeOK, ReadLocks, locks
<1>3. /\ \A q \in Callers : q # p => pc[q] \notin Adopting
  BY <1>2, OneAdopts DEF Adopting
<1>4. /\ room[p] \in Int /\ key[p] \notin todo[p]
      /\ \A k \in Claimed(p) : Retained(k) <= seen[p][k].bytes
      /\ room[p] + counted[p] + Sum(Remembered(p), Claimed(p)) <= Capacity
  BY <1>2 DEF Roomy, RoomOf
<1>5. /\ \A k \in Keys : /\ Held[k] \in Nat /\ Held'[k] \in Nat /\ Held[k] = Retained(k)
                         /\ Held'[k] = Retained(k)' /\ Retained(k) = entries[k].receipt.bytes
                         /\ Retained(k)' = entries'[k].receipt.bytes
                         /\ seen[p][k].bytes \in Nat /\ Remembered(p)[k] = seen[p][k].bytes
      /\ counted[p] \in Nat
  BY <1>2, HeldTyped, HeldNext
<1>6. Absent.receipt.bytes = 0
  BY DEF Absent, NoReceipt
<1>7. \A k \in Keys : Held'[k] <= Held[k] /\ (k # v => Held'[k] = Held[k])
  <2> SUFFICES ASSUME NEW k \in Keys PROVE Held'[k] <= Held[k] /\ (k # v => Held'[k] = Held[k])
    OBVIOUS
  <2>1. CASE entries' = entries
    BY <1>5, <2>1
  <2>2. CASE entries' = [entries EXCEPT ![v] = Absent]
    <3>1. entries'[k] = IF k = v THEN Absent ELSE entries[k]
      BY <1>2, <2>2 DEF TypeOK
    <3> QED
      BY <1>5, <1>6, <3>1
  <2> QED
    BY <1>1, <2>1, <2>2
<1>8. Sum(Held', Keys) <= Capacity
  <2>1. Sum(Held', Keys) <= Sum(Held, Keys) /\ Sum(Held, Keys) \in Nat /\ Sum(Held', Keys) \in Nat
    BY <1>5, <1>7, SumLess, SumFinite
  <2> QED
    BY <2>1, CacheAssumption DEF Roomy
<1>8a. PICK b : b = Remembered(p)
  OBVIOUS
<1>9. PICK S \in SUBSET Keys : S = Claimed(p) /\ b = Remembered(p)
  BY <1>8a DEF Claimed
<1>10. v \in S /\ \A k \in Keys : b[k] \in Nat /\ b[k] = seen[p][k].bytes
  BY <1>2, <1>4, <1>5, <1>9 DEF Claimed
<1>11. Claimed(p)' \subseteq S /\ Remembered(p)' = b
  BY <1>2, <1>5, <1>7, <1>9 DEF Claimed, Remembered
<1>12. PICK T \in SUBSET Keys : T = Claimed(p)'
  BY <1>11
<1>13. Sum(b, S) \in Nat /\ Sum(b, T) \in Nat /\ Sum(b, T) <= Sum(b, S)
  BY <1>10, <1>11, <1>12, SumLess, SumFinite
<1>14. room'[p] \in Int /\ room'[p] + counted[p] + Sum(b, T) <= Capacity
  <2>1. CASE UNCHANGED <<entries, room>>
    BY <1>4, <1>5, <1>9, <1>13, <2>1, CacheAssumption
  <2>2. CASE /\ entries' = [entries EXCEPT ![v] = Absent]
             /\ room' = [room EXCEPT ![p] = @ + seen[p][v].bytes]
    <3>1. Held'[v] = 0
      BY <1>2, <1>5, <1>6, <2>2 DEF TypeOK
    <3>2. v \notin T
      BY <1>2, <1>5, <1>12, <3>1 DEF Claimed
    <3>3. T \subseteq S \ {v}
      BY <1>11, <1>12, <3>2
    <3>4. Sum(b, T) <= Sum(b, S \ {v}) /\ Sum(b, S \ {v}) \in Nat
      BY <1>10, <3>3, SumLess, SumFinite
    <3>5. Sum(b, S) = b[v] + Sum(b, S \ {v})
      BY <1>10, SumSplit
    <3>6. room'[p] = room[p] + b[v]
      BY <1>2, <1>10, <2>2 DEF TypeOK
    <3> QED
      BY <1>2, <1>4, <1>5, <1>9, <1>10, <1>13, <3>4, <3>5, <3>6, CacheAssumption
  <2> QED
    BY <1>1, <2>1, <2>2
<1>15. RoomOf(p)'
  <2>1. Sum(Remembered(p), Claimed(p))' = Sum(b, T)
    BY <1>11, <1>12 DEF Sum, Units
  <2>2. \A k \in Claimed(p)' : Retained(k)' <= seen'[p][k].bytes
    <3> SUFFICES ASSUME NEW k \in S, k \in Claimed(p)' PROVE Retained(k)' <= seen'[p][k].bytes
      BY <1>11
    <3>1. Retained(k) <= seen[p][k].bytes /\ Retained(k)' <= Retained(k)
      BY <1>4, <1>5, <1>7, <1>9
    <3> QED
      BY <1>2, <1>5, <3>1
  <2> QED
    BY <1>2, <1>4, <1>14, <2>1, <2>2 DEF RoomOf
<1>16. \A q \in Callers : RoomOf(q)' /\ SealedOf(q)'
  BY <1>2, <1>3, <1>15 DEF RoomOf, SealedOf, Adopting
<1> QED
  BY <1>2, <1>8, <1>16 DEF Roomy, Adopters

\* With room left, the entry fits beside all others that are retained.
LEMMA Fits ==
    ASSUME IInv, Roomy, NEW p \in Callers, pc[p] \in {"touch", "seal"}, room[p] >= 0
    PROVE  counted[p] + Sum(Held, Keys \ {key[p]}) <= Capacity
<1>1. TypeOK
  BY DEF IInv
<1>2. /\ room[p] \in Int
      /\ \A k \in Claimed(p) : Retained(k) <= seen[p][k].bytes
      /\ room[p] + counted[p] + Sum(Remembered(p), Claimed(p)) <= Capacity
  BY DEF Roomy, RoomOf
<1>3. /\ \A k \in Keys : /\ Held[k] \in Nat /\ Held[k] = Retained(k)
                         /\ Remembered(p)[k] \in Nat /\ Remembered(p)[k] = seen[p][k].bytes
      /\ counted[p] \in Nat
  BY <1>1, HeldTyped
<1>4. PICK S \in SUBSET Keys, T \in SUBSET Keys : S = Keys \ {key[p]} /\ T = Claimed(p)
  BY DEF Claimed
<1>5. \A k \in S : Held[k] > 0 => k \in T /\ Held[k] <= Remembered(p)[k]
  BY <1>2, <1>3, <1>4 DEF Claimed
<1>6. Sum(Held, S) <= Sum(Remembered(p), T) /\ Sum(Held, S) \in Nat /\ Sum(Remembered(p), T) \in Nat
  BY <1>3, <1>5, SumLess, SumFinite
<1> QED
  BY <1>2, <1>3, <1>4, <1>6, CacheAssumption

\* An entry's receipt is replaced.
LEMMA Replaced ==
    ASSUME TypeOK, TypeOK', NEW k \in Keys,
           \A j \in Keys : j # k => entries'[j].receipt = entries[j].receipt,
           entries'[k].receipt.bytes + Sum(Held, Keys \ {k}) <= Capacity
    PROVE  Sum(Held', Keys) <= Capacity
<1>1. \A j \in Keys : /\ Held[j] \in Nat /\ Held'[j] \in Nat /\ Held[j] = entries[j].receipt.bytes
                      /\ Held'[j] = entries'[j].receipt.bytes
  BY HeldTyped, HeldNext
<1>2. PICK S \in SUBSET Keys : S = Keys \ {k}
  OBVIOUS
<1>3. Sum(Held', S) <= Sum(Held, S) /\ Sum(Held', S) \in Nat /\ Sum(Held, S) \in Nat
  BY <1>1, <1>2, SumLess, SumFinite
<1>4. Sum(Held', Keys) = Held'[k] + Sum(Held', S)
  BY <1>1, <1>2, SumSplit
<1> QED
  BY <1>1, <1>2, <1>3, <1>4, CacheAssumption

LEMMA NewestBytes == ASSUME NEW p \in Callers, NEW r \in Newest(p) PROVE r.bytes = counted[p]
BY DEF Newest

LEMMA TouchRoomy == ASSUME IInv, IInv', Roomy, NEW p \in Callers, Touch(p) PROVE Roomy'
<1>1. /\ TypeOK /\ TypeOK' /\ key[p] \in Keys /\ pc[p] = "touch" /\ room[p] >= 0
      /\ staging' = staging /\ key' = key
      /\ \A q \in Callers : pc'[q] = IF q = p THEN "leased" ELSE pc[q]
  BY DEF Touch, Goto, IInv, TypeOK, ReadLocks
<1>2. PICK r \in Newest(p) :
         entries' = [entries EXCEPT ![key[p]].receipt = r, ![key[p]].firm = FALSE]
  BY DEF Touch
<1>3. /\ \A k \in Keys : k # key[p] => entries'[k] = entries[k]
      /\ entries'[key[p]].receipt = r
  <2>1. entries[key[p]] \in Tree
    BY <1>1 DEF TypeOK
  <2>2. entries' = [entries EXCEPT ![key[p]] = [entries[key[p]] EXCEPT !.receipt = r, !.firm = FALSE]]
    BY <1>1, <1>2 DEF TypeOK
  <2>3. [entries[key[p]] EXCEPT !.receipt = r, !.firm = FALSE].receipt = r
    BY <2>1 DEF Tree
  <2> QED
    BY <1>1, <2>2, <2>3 DEF TypeOK
<1>4. counted[p] + Sum(Held, Keys \ {key[p]}) <= Capacity
  BY <1>1, Fits
<1>5. Sum(Held', Keys) <= Capacity
  <2>1. entries'[key[p]].receipt.bytes + Sum(Held, Keys \ {key[p]}) <= Capacity
    BY <1>3, <1>4, NewestBytes
  <2> QED
    BY <1>1, <1>3, <2>1, Replaced
<1>6. \A q \in Callers : pc'[q] \notin Adopting
  BY <1>1, OneAdopts DEF Adopting
<1> QED
  BY <1>5, <1>6 DEF Roomy, Adopters, RoomOf, SealedOf, Adopting

LEMMA SealRoomy == ASSUME IInv, IInv', Roomy, NEW p \in Callers, Seal(p) PROVE Roomy'
<1>1. /\ TypeOK /\ TypeOK' /\ key[p] \in Keys /\ key[p] \in Names /\ pc[p] = "seal" /\ room[p] >= 0
      /\ key' = key /\ kind' = kind
  BY DEF Seal, IInv, ReadLocks, Names
<1>2. PICK r \in Newest(p) : PutStage(key[p], [Stage(key[p]) EXCEPT !.receipt = r, !.firm = TRUE])
  BY DEF Seal
<1>3. [Stage(key[p]) EXCEPT !.receipt = r, !.firm = TRUE].receipt = r
  BY <1>1 DEF Stage, TypeOK, Tree
<1>4. counted[p] + Sum(Held, Keys \ {key[p]}) <= Capacity /\ r.bytes = counted[p]
  BY <1>1, Fits, NewestBytes
<1>5. \A q \in Callers : q # p => pc[q] \notin Adopting
  BY <1>1, OneAdopts DEF Adopting
<1>6. CASE InPlace
  <2>1. entries'[key[p]].receipt = r /\ \A k \in Keys : k # key[p] => entries'[k] = entries[k]
    BY <1>1, <1>2, <1>3, <1>6 DEF PutStage, TypeOK
  <2>2. Sum(Held', Keys) <= Capacity
    BY <1>1, <1>4, <2>1, Replaced
  <2>3. \A q \in Callers : pc'[q] \notin Adopting
    BY <1>1, <1>5, <1>6 DEF Seal, Goto, TypeOK, Adopting
  <2> QED
    BY <2>2, <2>3 DEF Roomy, Adopters, RoomOf, SealedOf, Adopting
<1>7. CASE ~InPlace
  <2>1. entries' = entries /\ staging'[key[p]].receipt = r
    BY <1>1, <1>2, <1>3, <1>7 DEF PutStage, TypeOK
  <2>2. Held' = Held
    BY <2>1 DEF Held, Retained
  <2>3. /\ namespace' = namespace /\ pc'[p] = "publish"
        /\ \A q \in Callers : q # p => pc'[q] \notin Adopting
    BY <1>1, <1>5, <1>7 DEF Seal, Goto, TypeOK, locks
  <2>4. SealedOf(p)' /\ RoomOf(p)'
    BY <1>1, <1>4, <2>1, <2>2, <2>3 DEF SealedOf, RoomOf
  <2>5. \A q \in Callers : SealedOf(q)' /\ RoomOf(q)'
    BY <2>3, <2>4 DEF SealedOf, RoomOf, Adopting
  <2>6. Adopters'
    BY <1>1, <2>3 DEF Roomy, Adopters, Adopting
  <2> QED
    BY <2>2, <2>5, <2>6 DEF Roomy
<1> QED
  BY <1>6, <1>7

LEMMA PublishRoomy == ASSUME IInv, IInv', Roomy, NEW p \in Callers, Publish(p) PROVE Roomy'
<1>1. /\ TypeOK /\ TypeOK' /\ key[p] \in Keys /\ pc[p] = "publish"
      /\ entries' = [entries EXCEPT ![key[p]] = staging[key[p]]]
      /\ \A q \in Callers : pc'[q] = IF q = p THEN "share" ELSE pc[q]
  BY DEF Publish, Goto, IInv, TypeOK, ReadLocks
<1>2. staging[key[p]].receipt.bytes + Sum(Held, Keys \ {key[p]}) <= Capacity
  BY <1>1 DEF Roomy, SealedOf
<1>3. entries'[key[p]] = staging[key[p]] /\ \A k \in Keys : k # key[p] => entries'[k] = entries[k]
  BY <1>1 DEF TypeOK
<1>4. Sum(Held', Keys) <= Capacity
  BY <1>1, <1>2, <1>3, Replaced
<1>5. \A q \in Callers : pc'[q] \notin Adopting
  BY <1>1, OneAdopts DEF Adopting
<1> QED
  BY <1>4, <1>5 DEF Roomy, Adopters, RoomOf, SealedOf, Adopting

LEMMA StutterRoomy == ASSUME IInv, IInv', Roomy, UNCHANGED vars PROVE Roomy'
BY HeldTyped, Shrinks DEF vars, disk, locks, scan, IInv

LEMMA InitRoomy == Init => Roomy
<1> SUFFICES ASSUME Init PROVE Roomy
  OBVIOUS
<1>1. TypeOK
  BY InitInv DEF IInv
<1>2. {{k} \X (1 .. Retained(k)) : k \in Keys} = {{k} \X (1 .. Held[k]) : k \in Keys}
  BY <1>1, HeldTyped
<1>3. Kept(Keys) = Sum(Held, Keys)
  BY <1>2 DEF Kept, Sum, Units
<1> QED
  BY <1>3 DEF Init, Roomy, Adopters, RoomOf, SealedOf, Adopting

LEMMA StepRoomy == ASSUME IInv, IInv', Roomy, [Next]_vars PROVE Roomy'
<1>1. ASSUME NEW p \in Callers, Step(p) PROVE Roomy'
  BY <1>1, QuietRoomy, BuildRoomy, ReadRoomy, EvictRoomy, TouchRoomy, SealRoomy, PublishRoomy DEF Step
<1>2. ASSUME NEW p \in Callers,
             (\E k \in Keys, m \in {"get", "lease"} : Open(p, k, m))
             \/ Drop(p) \/ DropPartial(p) \/ Grow(p) \/ Cancel(p) \/ Crash(p) PROVE Roomy'
  BY <1>2, QuietRoomy, BuildRoomy
<1> QED
  BY <1>1, <1>2, PowerRoomy, StutterRoomy DEF Next

\* What the receipts of a namespace retain fits its limit, however many callers adopt, evict
\* and rebuild at once (hit, build and evict under state.lock).
THEOREM Fitting == Spec => []WithinCapacity
<1>1. Init => IInv /\ Roomy
  BY InitInv, InitRoomy
<1>2. (IInv /\ Roomy) /\ [Next]_vars => (IInv /\ Roomy)'
  BY StepInv, StepRoomy
<1>3. IInv /\ Roomy => WithinCapacity
  <2> SUFFICES ASSUME IInv, Roomy PROVE WithinCapacity
    OBVIOUS
  <2>1. {{k} \X (1 .. Retained(k)) : k \in Keys} = {{k} \X (1 .. Held[k]) : k \in Keys}
    BY HeldTyped DEF IInv
  <2>2. Kept(Keys) = Sum(Held, Keys)
    BY <2>1 DEF Kept, Sum, Units
  <2> QED
    BY <2>2 DEF Roomy, WithinCapacity
<1> QED
  BY <1>1, <1>2, <1>3, PTL DEF Spec
=============================================================================
