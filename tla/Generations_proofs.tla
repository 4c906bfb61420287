------------------------- MODULE Generations_proofs -------------------------
(***************************************************************************)
(* Theorems about the life of a generation, for any number of graphs,      *)
(* slots, sources and class maps, and graphs that end in any order; only   *)
(* the last, about the class maps renders use, restricts when they end.    *)
(***************************************************************************)
EXTENDS Generations, TLAPS

-----------------------------------------------------------------------------
(* The inductive invariant *)

\* A lease whose release is on its way belongs to nobody any more.
DyingUnowned == Owned \cap dying = {}

\* epochs and leases have the same domain.
EpochsOfLeases == \A i \in Ids : epochs[i] # 0 <=> leases[i] # {}

\* What the phase of the describe call says about its locals and its graph.
Attempts ==
    /\ attempt.pc = "idle" => attempt = Idle
    /\ attempt.pc # "idle" => attempt.by \in Graphs /\ graph[attempt.by] = NoBundle
    /\ attempt.pc \in {"bundled", "maps", "describe"} =>
         attempt.lease # NoLease /\ attempt.listing \in Listings
    /\ attempt.pc \in {"maps", "describe"} => attempt.maps # NoMaps
    /\ attempt.pc = "describe" => installed[attempt.lease.id] # NoMaps

\* A describe call bundles a second time only if the first had no class maps.
Budget ==
    /\ attempt.pc \in {"bundle", "bundled"} => attempt.maps = attempt.evaluation
    /\ attempt.pc = "bundle" => nextEpoch + 1 <= MaxEpoch
    /\ attempt.pc = "bundle" /\ attempt.evaluation = NoMaps => nextEpoch + 2 <= MaxEpoch
    /\ attempt.pc = "bundled" /\ attempt.evaluation = NoMaps => nextEpoch + 1 <= MaxEpoch

\* A request belongs to the describe call in its phase, which makes one at a
\* time, or to a graph that exists.
Jobs ==
    /\ \A s \in Slots : job[s] # NoJob =>
         IF job[s].by = Describer
         THEN job[s].kind = attempt.pc /\ attempt.pc \in {"bundle", "maps", "describe"}
         ELSE graph[job[s].by] # NoBundle /\ job[s].kind \in {"bindings", "render"}
    /\ \A s, t \in Slots : Describing(s) /\ Describing(t) => s = t

\* Whoever owns a bundle state has its class maps, and a ready graph its bindings.
Prepared ==
    /\ \A b \in Alive : installed[b.id] # NoMaps
    /\ \A g \in Graphs : ready[g] => graph[g] # NoBundle /\ graph[g].id \in bound

IInv == /\ TypeOK /\ LeasesExact /\ DyingUnowned /\ EpochsOfLeases
        /\ Attempts /\ Budget /\ Jobs /\ Prepared

-----------------------------------------------------------------------------
(* Lemmas on types *)

LEMMA NoConfusion ==
    /\ MaxEpoch \in Nat /\ NoMaps \notin Css /\ Describer \notin Graphs
    /\ NoBundle \notin Bundle /\ NoLease \notin Lease /\ NoJob \notin Job
    /\ Idle \in Attempt /\ Epochs \subseteq Nat \ {0}
BY GenerationsAssumption DEF Idle, Attempt, Epochs

\* Whoever is alive is a bundle state, and what it owns is a lease.
LEMMA OwnedTypes ==
    ASSUME TypeOK
    PROVE  /\ Alive \subseteq Bundle /\ Owned \subseteq Lease
           /\ \A b \in Bundle : LeaseOf(b) \in Lease /\ LeaseOf(b).id = b.id
           /\ \A b \in Alive : LeaseOf(b) \in Owned
<1>1. Alive \subseteq Bundle
  BY DEF TypeOK, Alive, Attempt
<1>2. \A b \in Bundle : LeaseOf(b) \in Lease /\ LeaseOf(b).id = b.id
  BY DEF Bundle, Lease, LeaseOf
<1>3. Owned \subseteq Lease
  BY <1>1, <1>2 DEF TypeOK, Owned, Attempt
<1> QED BY <1>1, <1>2, <1>3 DEF Owned

\* Disposing and loading keep a worker a worker.
LEMMA WorkerTypes ==
    ASSUME NEW n \in Nat, NEW eps \in [Ids -> 0..n], NEW w \in Worker(n)
    PROVE  Cleaned(w, eps) \in Worker(n)
BY DEF Worker, Cleaned, Unloaded

LEMMA LoadedTypes ==
    ASSUME TypeOK, NEW i \in Ids, NEW w \in Worker(nextEpoch)
    PROVE  WithCode(w, i) \in Worker(nextEpoch) /\ WithMaps(w, i) \in Worker(nextEpoch)
<1>1. epochs[i] \in 0..nextEpoch /\ installed[i] \in Css \cup {NoMaps}
  BY DEF TypeOK
<1>2. WithCode(w, i) \in Worker(nextEpoch)
  BY <1>1 DEF WithCode, Worker
<1>3. [w[i] EXCEPT !.maps = installed[i]] \in [epoch : 0..nextEpoch, maps : Css \cup {NoMaps}]
  BY <1>1 DEF Worker
<1>4. WithMaps(w, i) \in Worker(nextEpoch)
  BY <1>3 DEF WithMaps, Worker
<1> QED BY <1>2, <1>4

\* The worker of a slot without what belongs to no current epoch.
LEMMA CleanedTypes ==
    ASSUME TypeOK, NEW s \in Slots
    PROVE  /\ nextEpoch \in Nat /\ worker[s] \in Worker(nextEpoch)
           /\ Cleaned(worker[s], epochs) \in Worker(nextEpoch)
           /\ [i \in Ids |-> Unloaded] \in Worker(nextEpoch)
<1>1. /\ nextEpoch \in Nat /\ epochs \in [Ids -> 0..nextEpoch]
      /\ worker[s] \in Worker(nextEpoch)
  BY NoConfusion DEF TypeOK
<1>2. Unloaded \in [epoch : 0..nextEpoch, maps : Css \cup {NoMaps}]
  BY <1>1 DEF Unloaded
<1> QED BY <1>1, <1>2, WorkerTypes DEF Worker

-----------------------------------------------------------------------------
(* Lemmas on ownership *)

\* A step that gives nobody a new lease and leaves the pool's leases alone keeps
\* them exact: what its last owner dropped is on its way to be released.
LEMMA Dropping ==
    ASSUME LeasesExact, DyingUnowned, UNCHANGED leases, Owned' \subseteq Owned, DropUnowned
    PROVE  LeasesExact' /\ DyingUnowned'
<1>1. Owned' \cup dying' = Owned \cup dying
  BY DEF DropUnowned
<1>2. LeasesExact'
  BY <1>1 DEF LeasesExact
<1>3. DyingUnowned'
  BY DEF DyingUnowned, DropUnowned
<1> QED BY <1>2, <1>3

\* A step of the pool that no owner notices keeps what the owners rely on.
LEMMA OwnersUnchanged ==
    ASSUME IInv, UNCHANGED <<pool, runtime>>
    PROVE  /\ LeasesExact' /\ DyingUnowned' /\ EpochsOfLeases'
           /\ Attempts' /\ Budget' /\ Prepared'
<1>1. Alive' = Alive /\ Owned' = Owned
  BY DEF Alive, Owned, runtime
<1>2. LeasesExact' /\ DyingUnowned' /\ EpochsOfLeases'
  BY <1>1 DEF IInv, LeasesExact, DyingUnowned, EpochsOfLeases, pool, runtime
<1>3. Attempts' /\ Budget'
  BY DEF IInv, Attempts, Budget, pool, runtime
<1>4. Prepared'
  BY <1>1 DEF IInv, Prepared, pool, runtime
<1> QED BY <1>2, <1>3, <1>4

-----------------------------------------------------------------------------
(* The invariant holds initially *)

LEMMA InitInvariant == Init => IInv
<1> SUFFICES ASSUME Init PROVE IInv
  OBVIOUS
<1> USE NoConfusion
<1>1. TypeOK
  BY DEF Init, TypeOK, Worker, Unloaded
<1>2. Alive = {} /\ Owned = {}
  BY DEF Init, Alive, Owned, Idle
<1>3. LeasesExact /\ DyingUnowned /\ EpochsOfLeases
  BY <1>2 DEF Init, LeasesExact, DyingUnowned, EpochsOfLeases
<1>4. Attempts /\ Budget
  BY DEF Init, Attempts, Budget, Idle
<1>5. Jobs /\ Prepared
  BY <1>2 DEF Init, Jobs, Prepared, Describing, ServedBy
<1> QED BY <1>1, <1>3, <1>4, <1>5 DEF IInv

-----------------------------------------------------------------------------
(* Requests in the pool: no owner changes *)

LEMMA EditStep == IInv /\ Edit => IInv'
<1> SUFFICES ASSUME IInv, Edit PROVE IInv'
  OBVIOUS
<1>1. TypeOK'
  BY DEF IInv, Edit, TypeOK, pool, runtime
<1>2. Jobs'
  BY DEF IInv, Edit, Jobs, Describing, ServedBy, runtime
<1> QED BY <1>1, <1>2, OwnersUnchanged DEF IInv, Edit

LEMMA StartStep ==
    ASSUME IInv, NEW s \in Slots, StartDescriber(s) \/ \E g \in Graphs : StartGraph(s, g)
    PROVE  IInv'
<1> USE NoConfusion
<1>1. PICK by \in Graphs \cup {Describer},
           kind \in {"bundle", "maps", "describe", "bindings", "render"} :
        /\ Start(s, by, kind)
        /\ IF by = Describer
           THEN ~Busy(Describer) /\ kind = attempt.pc /\ attempt.pc \in {"bundle", "maps", "describe"}
           ELSE graph[by] # NoBundle /\ kind \in {"bindings", "render"}
  BY DEF StartDescriber, StartGraph
<1>2. [by |-> by, kind |-> kind, phase |-> "prepare"] \in Job
  BY DEF Job
<1>3. Cleaned(worker[s], epochs) \in Worker(nextEpoch)
  BY CleanedTypes DEF IInv
<1>4. TypeOK'
  BY <1>1, <1>2, <1>3 DEF IInv, TypeOK, Start, pool, runtime
<1>5. Jobs'
  BY <1>1, <1>2 DEF IInv, TypeOK, Jobs, Start, Busy, Describing, ServedBy, runtime
<1> QED BY <1>1, <1>4, <1>5, OwnersUnchanged DEF IInv, Start

\* The generation a request is about is one of a lease or of a graph.
LEMMA JobIdTypes ==
    ASSUME IInv, NEW s \in Slots, job[s] # NoJob, job[s].kind # "bundle"
    PROVE  JobId(s) \in Ids
<1> USE NoConfusion
<1>1. job[s] \in Job
  BY DEF IInv, TypeOK
<1>2. CASE Describing(s)
  <2>1. attempt.lease \in Lease
    BY <1>2 DEF IInv, TypeOK, Jobs, Attempts, Attempt, Describing, ServedBy
  <2> QED BY <1>2, <2>1 DEF JobId, Lease
<1>3. CASE ~Describing(s)
  <2>1. job[s].by \in Graphs /\ graph[job[s].by] # NoBundle
    BY <1>1, <1>3 DEF IInv, Jobs, Job, Describing, ServedBy
  <2>2. graph[job[s].by] \in Bundle
    BY <2>1 DEF IInv, TypeOK
  <2> QED BY <1>3, <2>2 DEF JobId, Bundle
<1> QED BY <1>2, <1>3

LEMMA PrepareStep ==
    ASSUME IInv, NEW s \in Slots, Prepare(s)
    PROVE  IInv'
<1> USE NoConfusion
<1>1. /\ job[s] # NoJob /\ UNCHANGED <<disk, pool, runtime>>
      /\ job' = [job EXCEPT ![s].phase = "inflight"]
  BY DEF Prepare
<1>2. PICK w \in Worker(nextEpoch) : worker' = [worker EXCEPT ![s] = w]
  <2>1. worker[s] \in Worker(nextEpoch)
    BY CleanedTypes DEF IInv
  <2>2. CASE job[s].kind = "bundle"
    <3>1. Latest # {} => (CHOOSE i \in Latest : TRUE) \in Ids
      BY DEF Latest
    <3>2. Latest # {} => WithCode(worker[s], CHOOSE i \in Latest : TRUE) \in Worker(nextEpoch)
      BY <2>1, <3>1, LoadedTypes DEF IInv
    <3> QED BY <2>1, <2>2, <3>2 DEF Prepare
  <2>3. CASE job[s].kind # "bundle"
    <3>1. JobId(s) \in Ids
      BY <1>1, <2>3, JobIdTypes
    <3>2. WithCode(worker[s], JobId(s)) \in Worker(nextEpoch)
      BY <2>1, <3>1, LoadedTypes DEF IInv
    <3>3. WithMaps(WithCode(worker[s], JobId(s)), JobId(s)) \in Worker(nextEpoch)
      BY <3>1, <3>2, LoadedTypes DEF IInv
    <3> QED BY <2>3, <3>2, <3>3 DEF Prepare
  <2> QED BY <2>2, <2>3
<1>3. job[s] \in Job /\ [job[s] EXCEPT !.phase = "inflight"] \in Job
  BY <1>1 DEF IInv, TypeOK, Job
<1>4. TypeOK'
  BY <1>1, <1>2, <1>3 DEF IInv, TypeOK, pool, runtime
<1>5. Jobs'
  BY <1>1, <1>3 DEF IInv, TypeOK, Jobs, Job, Describing, ServedBy, runtime
<1> QED BY <1>1, <1>4, <1>5, OwnersUnchanged DEF IInv

LEMMA CrashStep ==
    ASSUME IInv, NEW s \in Slots, Crash(s)
    PROVE  IInv'
<1> USE NoConfusion
<1>1. job[s] \in Job /\ [job[s] EXCEPT !.phase = "prepare"] \in Job
  BY DEF Crash, IInv, TypeOK, Job
<1>2. TypeOK'
  BY <1>1, CleanedTypes DEF Crash, IInv, TypeOK, pool, runtime
<1>3. Jobs'
  BY <1>1 DEF Crash, IInv, TypeOK, Jobs, Job, Describing, ServedBy, runtime
<1> QED BY <1>2, <1>3, OwnersUnchanged DEF IInv, Crash

LEMMA CleanIdleStep ==
    ASSUME IInv, NEW s \in Slots, CleanIdle(s)
    PROVE  IInv'
<1>1. TypeOK'
  BY CleanedTypes DEF CleanIdle, IInv, TypeOK, pool, runtime
<1>2. Jobs'
  BY DEF CleanIdle, IInv, Jobs, Describing, ServedBy, runtime
<1> QED BY <1>1, <1>2, OwnersUnchanged DEF IInv, CleanIdle

-----------------------------------------------------------------------------
(* The describe call *)

\* A describe call that ends without a result drops what it held.
LEMMA GiveUpStep ==
    ASSUME IInv, GiveUp, UNCHANGED pool
    PROVE  /\ LeasesExact' /\ DyingUnowned' /\ EpochsOfLeases'
           /\ Attempts' /\ Budget' /\ Prepared'
           /\ attempt' \in Attempt /\ dying' \subseteq Lease
<1> USE NoConfusion
<1>1. Alive' \subseteq Alive /\ Owned' \subseteq Owned
  BY DEF GiveUp, Alive, Owned, Idle
<1>2. LeasesExact' /\ DyingUnowned' /\ EpochsOfLeases'
  BY <1>1, Dropping DEF IInv, GiveUp, EpochsOfLeases, pool
<1>3. Attempts' /\ Budget'
  BY DEF GiveUp, Attempts, Budget, Idle
<1>4. Prepared'
  BY <1>1 DEF IInv, GiveUp, Prepared, pool
<1>5. attempt' \in Attempt /\ dying' \subseteq Lease
  BY OwnedTypes DEF IInv, TypeOK, GiveUp, DropUnowned
<1> QED BY <1>2, <1>3, <1>4, <1>5

\* A describe call that ends with a state of a lease somebody owns, whose class
\* maps are there, hands it to its graph.
LEMMA ConcludeStep ==
    ASSUME IInv, UNCHANGED pool, attempt.pc # "idle",
           NEW b \in Bundle, Conclude(b), LeaseOf(b) \in Owned, installed[b.id] # NoMaps
    PROVE  /\ LeasesExact' /\ DyingUnowned' /\ EpochsOfLeases'
           /\ Attempts' /\ Budget' /\ Prepared'
           /\ attempt' \in Attempt /\ dying' \subseteq Lease
           /\ registry' \in [Ids -> Bundle \cup {NoBundle}]
           /\ graph' \in [Graphs -> Bundle \cup {NoBundle}]
           /\ \A g \in Graphs : graph[g] # NoBundle => graph'[g] # NoBundle
<1> USE NoConfusion
<1>1. /\ attempt.by \in Graphs /\ graph[attempt.by] = NoBundle
      /\ graph \in [Graphs -> Bundle \cup {NoBundle}]
      /\ registry \in [Ids -> Bundle \cup {NoBundle}]
  BY DEF IInv, Attempts, TypeOK
<1>2. Alive' \subseteq Alive \cup {b}
  BY <1>1 DEF Conclude, Alive, Idle
<1>3. Owned' \subseteq Owned
  BY <1>2 DEF Conclude, Owned, Idle
<1>4. LeasesExact' /\ DyingUnowned' /\ EpochsOfLeases'
  BY <1>3, Dropping DEF IInv, Conclude, EpochsOfLeases, pool
<1>5. Attempts' /\ Budget'
  BY DEF Conclude, Attempts, Budget, Idle
<1>6. Prepared'
  BY <1>1, <1>2 DEF IInv, Conclude, Prepared, pool
<1>7. attempt' \in Attempt /\ dying' \subseteq Lease
  BY OwnedTypes DEF IInv, TypeOK, Conclude, DropUnowned
<1>8. /\ registry' \in [Ids -> Bundle \cup {NoBundle}]
      /\ graph' \in [Graphs -> Bundle \cup {NoBundle}]
      /\ \A g \in Graphs : graph[g] # NoBundle => graph'[g] # NoBundle
  BY <1>1 DEF Conclude, Bundle
<1> QED BY <1>4, <1>5, <1>6, <1>7, <1>8

\* Between two requests of a describe call no slot serves it.
LEMMA NoDescriber ==
    ASSUME IInv, attempt.pc \in {"idle", "bundled"}, NEW s \in Slots, job[s] # NoJob
    PROVE  job[s].by # Describer
BY DEF IInv, Jobs

LEMMA LookupStep ==
    ASSUME IInv, NEW g \in Graphs, Lookup(g)
    PROVE  IInv'
<1> USE NoConfusion
<1>1. /\ attempt.pc = "idle" /\ attempt = Idle /\ graph[g] = NoBundle
      /\ nextEpoch + 2 <= MaxEpoch /\ nextEpoch \in Nat
      /\ UNCHANGED <<disk, pool, worker, job, registry, ready, dying>>
  BY CleanedTypes DEF Lookup, IInv, Attempts, TypeOK
<1>2. Candidates \subseteq Alive /\ Alive \subseteq Bundle
  BY OwnedTypes DEF IInv, Candidates
<1>3. \A s \in Slots : job[s] # NoJob => job[s].by # Describer /\ job[s].by # g
  BY <1>1, NoDescriber DEF IInv, Jobs
<1>4. CASE UNCHANGED attempt
  <2>1. PICK b \in Candidates : graph' = [graph EXCEPT ![g] = b]
    BY <1>1, <1>4 DEF Lookup, Idle
  <2>2. b \in Bundle /\ b \in Alive
    BY <1>2, <2>1
  <2>3. Alive' = Alive
    BY <1>1, <1>4, <2>1, <2>2 DEF Alive, IInv, TypeOK
  <2>4. Owned' = Owned
    BY <1>4, <2>3 DEF Owned
  <2>5. TypeOK'
    BY <1>1, <1>4, <2>1, <2>2 DEF IInv, TypeOK, pool
  <2>6. LeasesExact' /\ DyingUnowned' /\ EpochsOfLeases'
    BY <1>1, <2>4 DEF IInv, LeasesExact, DyingUnowned, EpochsOfLeases, pool
  <2>7. Attempts' /\ Budget'
    BY <1>1, <1>4 DEF Attempts, Budget, Idle
  <2>8. Jobs'
    BY <1>1, <1>3, <1>4, <2>1 DEF IInv, Jobs, Describing, ServedBy
  <2>9. Prepared'
    BY <1>1, <2>1, <2>2, <2>3 DEF IInv, TypeOK, Prepared, pool
  <2> QED BY <2>5, <2>6, <2>7, <2>8, <2>9 DEF IInv
<1>5. CASE ~UNCHANGED attempt
  <2> DEFINE maps == IF Candidates = {} THEN NoMaps ELSE disk.css
  <2>1. /\ UNCHANGED graph
        /\ attempt' = [Idle EXCEPT !.pc = "bundle", !.by = g, !.held = Candidates,
                                   !.maps = maps, !.evaluation = maps]
    BY <1>5 DEF Lookup
  <2>2. maps \in Css \cup {NoMaps}
    BY DEF IInv, TypeOK
  <2> HIDE DEF maps
  <2>3. attempt' = [pc |-> "bundle", by |-> g, maps |-> maps, evaluation |-> maps,
                    held |-> Candidates, lease |-> NoLease, listing |-> NoBundle]
    BY <2>1 DEF Idle
  <2>4. Alive' = Alive /\ Owned' = Owned
    <3>1. Alive' = Alive
      BY <1>1, <1>2, <2>1, <2>3 DEF Alive, Idle
    <3> QED BY <1>1, <2>3, <3>1 DEF Owned, Idle
  <2>5. attempt' \in Attempt
    BY <1>2, <2>2, <2>3 DEF Attempt
  <2>6. TypeOK'
    BY <1>1, <2>1, <2>5 DEF IInv, TypeOK, pool
  <2>7. LeasesExact' /\ DyingUnowned' /\ EpochsOfLeases'
    BY <1>1, <2>4 DEF IInv, LeasesExact, DyingUnowned, EpochsOfLeases, pool
  <2>8. Attempts' /\ Budget'
    BY <1>1, <2>1, <2>3 DEF Attempts, Budget, pool
  <2>9. Jobs'
    BY <1>1, <1>3, <2>1 DEF IInv, Jobs, Describing, ServedBy
  <2>10. Prepared'
    BY <1>1, <2>1, <2>4 DEF IInv, Prepared, pool
  <2> QED BY <2>6, <2>7, <2>8, <2>9, <2>10 DEF IInv
<1> QED BY <1>4, <1>5

LEMMA CheckStep ==
    ASSUME IInv, Check
    PROVE  IInv'
<1> USE NoConfusion
<1> DEFINE id   == attempt.lease.id
           maps == IF attempt.maps = NoMaps THEN disk.css ELSE attempt.maps
           old  == {registry[id]} \cap Alive
<1>1. attempt.pc = "bundled" /\ UNCHANGED <<disk, pool, worker, job>>
  BY DEF Check
<1>2. /\ attempt.lease \in Lease /\ attempt.lease # NoLease /\ attempt.listing \in Listings
      /\ attempt.by \in Graphs /\ graph[attempt.by] = NoBundle
      /\ attempt \in Attempt
  BY <1>1 DEF IInv, TypeOK, Attempts, Attempt
<1>3. maps \in Css
  BY <1>2 DEF IInv, TypeOK, Attempt
<1>4. \A s \in Slots : job[s] # NoJob => job[s].by # Describer
  BY <1>1, NoDescriber
<1> HIDE DEF maps
\* The three ways in which the owners stay.
<1>5. ASSUME UNCHANGED <<registry, graph, ready, dying>>,
             \/ /\ attempt.evaluation # maps
                /\ attempt' = [attempt EXCEPT !.pc = "bundle", !.maps = maps, !.evaluation = maps]
             \/ attempt' = [attempt EXCEPT !.pc = "maps", !.maps = maps]
      PROVE  IInv'
  <2>1. /\ attempt' \in Attempt /\ attempt'.held = attempt.held /\ attempt'.by = attempt.by
        /\ attempt'.lease = attempt.lease /\ attempt'.listing = attempt.listing
        /\ attempt'.maps = maps
        /\ \/ /\ attempt'.pc = "bundle" /\ attempt'.evaluation = maps
              /\ attempt.evaluation # maps
           \/ attempt'.pc = "maps"
    <3>1. CASE attempt' = [attempt EXCEPT !.pc = "bundle", !.maps = maps, !.evaluation = maps]
      <4>1. attempt' \in Attempt
        BY <1>2, <1>3, <3>1 DEF Attempt
      <4>2. attempt.evaluation # maps
        BY <1>2, <1>5, <3>1 DEF Attempt
      <4> QED BY <1>2, <3>1, <4>1, <4>2 DEF Attempt
    <3>2. CASE attempt' = [attempt EXCEPT !.pc = "maps", !.maps = maps]
      <4>1. attempt' \in Attempt
        BY <1>2, <1>3, <3>2 DEF Attempt
      <4> QED BY <1>2, <3>2, <4>1 DEF Attempt
    <3> QED BY <1>5, <3>1, <3>2
  <2>2. Alive' = Alive /\ Owned' = Owned
    BY <1>5, <2>1 DEF Alive, Owned
  <2>3. TypeOK'
    BY <1>1, <1>5, <2>1 DEF IInv, TypeOK, pool
  <2>4. LeasesExact' /\ DyingUnowned' /\ EpochsOfLeases'
    BY <1>1, <1>5, <2>2 DEF IInv, LeasesExact, DyingUnowned, EpochsOfLeases, pool
  <2>5. Attempts'
    BY <1>2, <1>3, <1>5, <2>1 DEF Attempts
  <2>6. Budget'
    <3>1. attempt.maps = attempt.evaluation
          /\ (attempt.evaluation = NoMaps => nextEpoch + 1 <= MaxEpoch)
      BY <1>1 DEF IInv, Budget
    <3>2. attempt.evaluation # maps => attempt.evaluation = NoMaps
      BY <3>1 DEF maps
    <3>3. maps # NoMaps
      BY <1>3
    <3>4. attempt'.pc = "bundle" => nextEpoch' + 1 <= MaxEpoch
      BY <1>1, <2>1, <3>1, <3>2 DEF pool
    <3> QED BY <1>1, <2>1, <3>3, <3>4 DEF Budget, pool
  <2>7. Jobs'
    BY <1>1, <1>4, <1>5 DEF IInv, Jobs, Describing, ServedBy
  <2>8. Prepared'
    BY <1>1, <1>5, <2>2 DEF IInv, Prepared, pool
  <2> QED BY <2>3, <2>4, <2>5, <2>6, <2>7, <2>8 DEF IInv
\* A new state that shares the lease of the existing one.
<1>6. ASSUME NEW b \in old,
             Conclude([b EXCEPT !.maps = maps, !.listing = attempt.listing,
                                !.born = attempt.lease.epoch])
      PROVE  IInv'
  <2> DEFINE new == [b EXCEPT !.maps = maps, !.listing = attempt.listing,
                              !.born = attempt.lease.epoch]
  <2>1. b \in Bundle /\ b \in Alive /\ LeaseOf(b) \in Owned
    BY OwnedTypes DEF IInv
  <2>2. new \in Bundle /\ LeaseOf(new) = LeaseOf(b) /\ new.id = b.id
    BY <1>2, <1>3, <2>1 DEF Bundle, Lease, LeaseOf
  <2>3. installed[b.id] # NoMaps
    BY <2>1 DEF IInv, Prepared
  <2> HIDE DEF new
  <2>4. Conclude(new)
    BY <1>6 DEF new
  <2>5. /\ LeasesExact' /\ DyingUnowned' /\ EpochsOfLeases' /\ Attempts' /\ Budget' /\ Prepared'
        /\ attempt' \in Attempt /\ dying' \subseteq Lease
        /\ registry' \in [Ids -> Bundle \cup {NoBundle}]
        /\ graph' \in [Graphs -> Bundle \cup {NoBundle}]
        /\ \A g \in Graphs : graph[g] # NoBundle => graph'[g] # NoBundle
    BY <1>1, <2>1, <2>2, <2>3, <2>4, ConcludeStep
  <2>6. TypeOK'
    BY <1>1, <2>4, <2>5 DEF IInv, TypeOK, Conclude, pool
  <2>7. Jobs'
    BY <1>1, <1>4, <2>5 DEF IInv, TypeOK, Jobs, Job, Describing, ServedBy
  <2> QED BY <2>5, <2>6, <2>7 DEF IInv
<1>7. ASSUME GiveUp PROVE IInv'
  <2>1. /\ LeasesExact' /\ DyingUnowned' /\ EpochsOfLeases' /\ Attempts' /\ Budget' /\ Prepared'
        /\ attempt' \in Attempt /\ dying' \subseteq Lease
    BY <1>1, <1>7, GiveUpStep
  <2>2. TypeOK'
    BY <1>1, <1>7, <2>1 DEF IInv, TypeOK, GiveUp, pool
  <2>3. Jobs'
    BY <1>1, <1>4, <1>7 DEF IInv, Jobs, Describing, ServedBy, GiveUp
  <2> QED BY <2>1, <2>2, <2>3 DEF IInv
<1> QED BY <1>5, <1>6, <1>7 DEF Check, maps

-----------------------------------------------------------------------------
(* Answers *)

\* An answered request leaves its slot, and no other slot serves the describe
\* call if this one did.
LEMMA AnswerJobs ==
    ASSUME IInv, NEW s \in Slots, job[s] # NoJob, job' = [job EXCEPT ![s] = NoJob],
           Describing(s) \/ UNCHANGED attempt,
           \A g \in Graphs : graph[g] # NoBundle => graph'[g] # NoBundle
    PROVE  job' \in [Slots -> Job \cup {NoJob}] /\ Jobs'
<1> USE NoConfusion
<1>1. job' \in [Slots -> Job \cup {NoJob}]
  BY DEF IInv, TypeOK
<1>2. \A t \in Slots : job'[t] # NoJob => t # s /\ job'[t] = job[t] /\ job[t] \in Job
  BY DEF IInv, TypeOK
<1>3. CASE Describing(s)
  <2>1. \A t \in Slots : job'[t] # NoJob => job[t].by # Describer
    BY <1>2, <1>3 DEF IInv, Jobs, Describing, ServedBy
  <2> QED BY <1>1, <1>2, <2>1 DEF IInv, Jobs, Job, Describing, ServedBy
<1>4. CASE ~Describing(s)
  <2>1. UNCHANGED attempt
    BY <1>4
  <2> QED BY <1>1, <1>2, <2>1 DEF IInv, Jobs, Job, Describing, ServedBy
<1> QED BY <1>3, <1>4

\* Bundle opens a lifetime nobody had, whose only owner is the describe call.
LEMMA AnswerBundleStep ==
    ASSUME IInv, NEW s \in Slots, AnswerBundle(s), job[s] # NoJob,
           job' = [job EXCEPT ![s] = NoJob], UNCHANGED disk
    PROVE  IInv'
<1> USE NoConfusion
<1> DEFINE id    == [code |-> disk.code, maps |-> attempt.evaluation]
           epoch == nextEpoch + 1
           new   == [id |-> id, epoch |-> epoch]
<1>1. /\ nextEpoch' = epoch /\ epochs' = [epochs EXCEPT ![id] = epoch]
      /\ leases' = [leases EXCEPT ![id] = @ \cup {epoch}]
      /\ attempt' = [attempt EXCEPT !.pc = "bundled", !.listing = disk.listing, !.lease = new]
      /\ UNCHANGED <<installed, bound, registry, graph, ready>> /\ DropUnowned
      /\ worker' = [worker EXCEPT ![s] =
                      Cleaned([@ EXCEPT ![id] = [epoch |-> epoch, maps |-> NoMaps]], epochs')]
  BY DEF AnswerBundle, Opened
<1>2. Describing(s) /\ attempt.pc = "bundle"
  BY DEF AnswerBundle, IInv, Jobs, Describing, ServedBy
<1>3. /\ nextEpoch \in Nat /\ epoch \in Nat /\ epoch <= MaxEpoch /\ epoch > nextEpoch
      /\ attempt \in Attempt
      /\ epochs \in [Ids -> 0..nextEpoch] /\ leases \in [Ids -> SUBSET (1..nextEpoch)]
  BY <1>2, CleanedTypes DEF IInv, TypeOK, Budget
<1>4. id \in Ids /\ new \in Lease /\ epoch \in Epochs
  BY <1>3 DEF IInv, TypeOK, Attempt, Ids, Lease, Epochs
<1> HIDE DEF id
<1>5. /\ attempt' \in Attempt /\ attempt'.pc = "bundled" /\ attempt'.lease = new
      /\ attempt'.listing \in Listings /\ attempt'.held = attempt.held
      /\ attempt'.by = attempt.by /\ attempt'.maps = attempt.maps
      /\ attempt'.evaluation = attempt.evaluation
  BY <1>1, <1>3, <1>4 DEF IInv, TypeOK, Attempt
<1>6. Alive' = Alive /\ Owned' \subseteq Owned \cup {new} /\ new \in Owned'
  <2>1. Alive' = Alive
    BY <1>1, <1>5 DEF Alive
  <2> QED BY <1>4, <1>5, <2>1 DEF Owned
<1>7. Owned \subseteq Lease /\ dying \subseteq Lease /\ Owned' \subseteq Lease
  BY <1>4, <1>6, OwnedTypes DEF IInv, TypeOK
<1>8. dying' \subseteq Lease
  BY <1>1, <1>7 DEF DropUnowned
<1>9. TypeOK'
  <2>1. epochs' \in [Ids -> 0..epoch] /\ leases' \in [Ids -> SUBSET (1..epoch)]
    BY <1>1, <1>3, <1>4
  <2>2. worker \in [Slots -> Worker(epoch)]
    <3>1. Worker(nextEpoch) \subseteq Worker(epoch)
      BY <1>3 DEF Worker
    <3> QED BY <3>1 DEF IInv, TypeOK
  <2>3. [worker[s] EXCEPT ![id] = [epoch |-> epoch, maps |-> NoMaps]] \in Worker(epoch)
    BY <1>3, <1>4, <2>2 DEF Worker
  <2>4. worker' \in [Slots -> Worker(epoch)]
    <3>1. Cleaned([worker[s] EXCEPT ![id] = [epoch |-> epoch, maps |-> NoMaps]], epochs') \in Worker(epoch)
      BY <1>3, <2>1, <2>3, WorkerTypes
    <3> QED BY <1>1, <2>2, <3>1
  <2>5. job' \in [Slots -> Job \cup {NoJob}]
    BY DEF IInv, TypeOK
  <2> QED BY <1>1, <1>3, <1>5, <1>8, <2>1, <2>4, <2>5 DEF IInv, TypeOK
<1>10. LeasesExact' /\ DyingUnowned'
  <2>1. Owned' \cup dying' = Owned \cup dying \cup {new}
    BY <1>1, <1>6 DEF DropUnowned
  <2>2. LeasesExact'
    <3> SUFFICES ASSUME NEW i \in Ids
                 PROVE  leases'[i] = {e \in Epochs : [id |-> i, epoch |-> e] \in Owned' \cup dying'}
      BY DEF LeasesExact
    <3>1. leases[i] = {e \in Epochs : [id |-> i, epoch |-> e] \in Owned \cup dying}
      BY DEF IInv, LeasesExact
    <3>2. CASE i = id
      <4>1. leases'[i] = leases[i] \cup {epoch}
        BY <1>1, <1>3, <3>2
      <4>2. \A e \in Epochs : [id |-> i, epoch |-> e] = new <=> e = epoch
        BY <3>2
      <4> HIDE DEF epoch, new
      <4> QED BY <1>4, <2>1, <3>1, <4>1, <4>2
    <3>3. CASE i # id
      <4>1. leases'[i] = leases[i]
        BY <1>1, <1>3, <3>3
      <4>2. \A e \in Epochs : [id |-> i, epoch |-> e] # new
        BY <3>3
      <4> HIDE DEF epoch, new
      <4> QED BY <2>1, <3>1, <4>1, <4>2
    <3> QED BY <3>2, <3>3
  <2>3. new \notin dying
    <3>1. leases[id] = {e \in Epochs : [id |-> id, epoch |-> e] \in Owned \cup dying}
      BY <1>4 DEF IInv, LeasesExact
    <3>2. epoch \notin leases[id]
      BY <1>3, <1>4
    <3> QED BY <1>4, <3>1, <3>2
  <2>4. DyingUnowned'
    BY <1>1, <1>6, <2>3 DEF IInv, DyingUnowned, DropUnowned
  <2> QED BY <2>2, <2>4
<1>11. EpochsOfLeases'
  BY <1>1, <1>3, <1>4 DEF IInv, EpochsOfLeases
<1>12. Attempts'
  BY <1>1, <1>2, <1>4, <1>5 DEF IInv, Attempts
<1>13. Budget'
  BY <1>1, <1>2, <1>3, <1>5 DEF IInv, Budget
<1>14. Jobs'
  BY <1>1, <1>2, AnswerJobs
<1>15. Prepared'
  BY <1>1, <1>6 DEF IInv, Prepared
<1> QED BY <1>9, <1>10, <1>11, <1>12, <1>13, <1>14, <1>15 DEF IInv

LEMMA AnswerMapsStep ==
    ASSUME IInv, NEW s \in Slots, AnswerMaps(s), job[s] # NoJob,
           job' = [job EXCEPT ![s] = NoJob], UNCHANGED disk
    PROVE  IInv'
<1> USE NoConfusion
<1> DEFINE id == attempt.lease.id
           w  == [worker[s] EXCEPT ![id].maps = attempt.maps]
<1>1. Describing(s) /\ attempt.pc = "maps" /\ JobId(s) = id
  BY DEF AnswerMaps, IInv, Jobs, JobId, Describing, ServedBy
<1>2. /\ installed' = [installed EXCEPT ![id] = attempt.maps]
      /\ worker' = [worker EXCEPT ![s] = Cleaned(w, epochs)]
      /\ attempt' = [attempt EXCEPT !.pc = "describe"]
      /\ UNCHANGED <<nextEpoch, epochs, leases, bound, registry, graph, ready, dying>>
  BY <1>1 DEF AnswerMaps
<1>3. /\ attempt \in Attempt /\ attempt.lease \in Lease /\ attempt.lease # NoLease
      /\ attempt.maps \in Css /\ attempt.maps # NoMaps /\ attempt.listing \in Listings
      /\ attempt.by \in Graphs /\ graph[attempt.by] = NoBundle /\ id \in Ids
  BY <1>1 DEF IInv, TypeOK, Attempts, Attempt, Lease
<1>4. /\ attempt' \in Attempt /\ attempt'.pc = "describe" /\ attempt'.lease = attempt.lease
      /\ attempt'.held = attempt.held /\ attempt'.by = attempt.by
      /\ attempt'.maps = attempt.maps /\ attempt'.listing = attempt.listing
  BY <1>2, <1>3 DEF Attempt
<1> HIDE DEF id
<1>5. Alive' = Alive /\ Owned' = Owned
  BY <1>2, <1>4 DEF Alive, Owned
<1>6. TypeOK'
  <2>1. w \in Worker(nextEpoch) /\ nextEpoch \in Nat /\ epochs \in [Ids -> 0..nextEpoch]
    <3>1. worker[s] \in Worker(nextEpoch)
      BY CleanedTypes DEF IInv
    <3>2. [worker[s][id] EXCEPT !.maps = attempt.maps]
            \in [epoch : 0..nextEpoch, maps : Css \cup {NoMaps}]
      BY <1>3, <3>1 DEF Worker
    <3> QED BY <1>3, <3>1, <3>2, CleanedTypes DEF IInv, TypeOK, Worker
  <2> HIDE DEF w
  <2>2. Cleaned(w, epochs) \in Worker(nextEpoch)
    BY <2>1, WorkerTypes
  <2> QED BY <1>2, <1>3, <1>4, <2>2 DEF IInv, TypeOK
<1>7. LeasesExact' /\ DyingUnowned' /\ EpochsOfLeases'
  BY <1>2, <1>5 DEF IInv, LeasesExact, DyingUnowned, EpochsOfLeases
<1>8. Attempts' /\ Budget'
  <2>1. installed'[id] # NoMaps
    BY <1>2, <1>3 DEF IInv, TypeOK
  <2> QED BY <1>2, <1>3, <1>4, <2>1 DEF Attempts, Budget, id
<1>9. Jobs'
  BY <1>1, <1>2, AnswerJobs
<1>10. Prepared'
  <2>1. \A i \in Ids : installed[i] # NoMaps => installed'[i] # NoMaps
    BY <1>2, <1>3 DEF IInv, TypeOK
  <2>2. \A b \in Alive : b.id \in Ids
    BY OwnedTypes DEF IInv, Bundle
  <2> QED BY <1>2, <1>5, <2>1, <2>2 DEF IInv, Prepared
<1> QED BY <1>6, <1>7, <1>8, <1>9, <1>10 DEF IInv

LEMMA AnswerDescribeStep ==
    ASSUME IInv, NEW s \in Slots, AnswerDescribe(s), job[s] # NoJob,
           job' = [job EXCEPT ![s] = NoJob], UNCHANGED disk
    PROVE  IInv'
<1> USE NoConfusion
<1> DEFINE b == [id |-> attempt.lease.id, epoch |-> attempt.lease.epoch, maps |-> attempt.maps,
                 listing |-> attempt.listing, born |-> attempt.lease.epoch]
<1>1. Describing(s) /\ attempt.pc = "describe" /\ Conclude(b) /\ UNCHANGED pool
      /\ worker' = [worker EXCEPT ![s] = Cleaned(@, epochs)]
  BY DEF AnswerDescribe, IInv, Jobs, Describing, ServedBy
<1>2. /\ attempt.lease \in Lease /\ attempt.lease # NoLease
      /\ attempt.maps \in Css /\ attempt.listing \in Listings
  BY <1>1 DEF IInv, TypeOK, Attempts, Attempt
<1>3. b \in Bundle /\ LeaseOf(b) = attempt.lease /\ b.id = attempt.lease.id
  BY <1>2 DEF Bundle, Lease, LeaseOf
<1> HIDE DEF b
<1>4. LeaseOf(b) \in Owned /\ installed[b.id] # NoMaps
  BY <1>1, <1>2, <1>3 DEF Owned, IInv, Attempts
<1>5. /\ LeasesExact' /\ DyingUnowned' /\ EpochsOfLeases' /\ Attempts' /\ Budget' /\ Prepared'
      /\ attempt' \in Attempt /\ dying' \subseteq Lease
      /\ registry' \in [Ids -> Bundle \cup {NoBundle}]
      /\ graph' \in [Graphs -> Bundle \cup {NoBundle}]
      /\ \A g \in Graphs : graph[g] # NoBundle => graph'[g] # NoBundle
  BY <1>1, <1>3, <1>4, ConcludeStep
<1>6. Jobs' /\ job' \in [Slots -> Job \cup {NoJob}]
  BY <1>1, <1>5, AnswerJobs
<1>7. TypeOK'
  BY <1>1, <1>5, <1>6, CleanedTypes DEF IInv, TypeOK, Conclude, pool
<1> QED BY <1>5, <1>6, <1>7 DEF IInv

LEMMA AnswerGraphStep ==
    ASSUME IInv, NEW s \in Slots, AnswerGraph(s), job[s] # NoJob,
           job' = [job EXCEPT ![s] = NoJob], UNCHANGED disk
    PROVE  IInv'
<1> USE NoConfusion
<1>1. /\ UNCHANGED <<nextEpoch, epochs, leases, installed, registry, graph, attempt, dying>>
      /\ worker' = [worker EXCEPT ![s] = Cleaned(@, epochs)]
      /\ job[s].kind \in {"bindings", "render"} /\ job[s] \in Job
  BY DEF AnswerGraph, IInv, TypeOK
<1>2. ~Describing(s) /\ job[s].by \in Graphs /\ graph[job[s].by] # NoBundle
  BY <1>1 DEF IInv, Jobs, Job, Describing, ServedBy
<1>3. JobId(s) = graph[job[s].by].id /\ JobId(s) \in Ids
  BY <1>1, <1>2, JobIdTypes DEF JobId
<1>4. /\ bound' \in SUBSET Ids /\ bound \subseteq bound'
      /\ ready' \in [Graphs -> BOOLEAN]
      /\ \A g \in Graphs : ready'[g] => ready[g] \/ (g = job[s].by /\ JobId(s) \in bound')
  <2>1. /\ bound \in SUBSET Ids /\ ready \in [Graphs -> BOOLEAN]
        /\ \/ bound' = bound \cup {JobId(s)} /\ ready' = [ready EXCEPT ![job[s].by] = TRUE]
           \/ UNCHANGED <<bound, ready>>
    BY DEF AnswerGraph, IInv, TypeOK
  <2> QED BY <1>2, <1>3, <2>1
<1>5. Alive' = Alive /\ Owned' = Owned
  BY <1>1 DEF Alive, Owned
<1>6. Jobs' /\ job' \in [Slots -> Job \cup {NoJob}]
  BY <1>1, AnswerJobs
<1>7. TypeOK'
  BY <1>1, <1>4, <1>6, CleanedTypes DEF IInv, TypeOK
<1>8. LeasesExact' /\ DyingUnowned' /\ EpochsOfLeases' /\ Attempts' /\ Budget'
  BY <1>1, <1>5 DEF IInv, LeasesExact, DyingUnowned, EpochsOfLeases, Attempts, Budget
<1>9. Prepared'
  BY <1>1, <1>2, <1>3, <1>4, <1>5 DEF IInv, Prepared
<1> QED BY <1>6, <1>7, <1>8, <1>9 DEF IInv

LEMMA FailStep ==
    ASSUME IInv, NEW s \in Slots, Fail(s)
    PROVE  IInv'
<1>1. /\ job[s] # NoJob /\ job' = [job EXCEPT ![s] = NoJob] /\ UNCHANGED <<disk, pool>>
      /\ worker' \in [Slots -> Worker(nextEpoch)]
  BY CleanedTypes DEF Fail, IInv, TypeOK
<1>2. CASE Describing(s) /\ GiveUp
  <2>1. /\ LeasesExact' /\ DyingUnowned' /\ EpochsOfLeases' /\ Attempts' /\ Budget' /\ Prepared'
        /\ attempt' \in Attempt /\ dying' \subseteq Lease
    BY <1>1, <1>2, GiveUpStep
  <2>2. Jobs' /\ job' \in [Slots -> Job \cup {NoJob}]
    BY <1>1, <1>2, AnswerJobs DEF GiveUp
  <2>3. TypeOK'
    BY <1>1, <1>2, <2>1, <2>2 DEF IInv, TypeOK, GiveUp, pool
  <2> QED BY <2>1, <2>2, <2>3 DEF IInv
<1>3. CASE ~Describing(s) /\ UNCHANGED runtime
  <2>1. Jobs' /\ job' \in [Slots -> Job \cup {NoJob}]
    BY <1>1, <1>3, AnswerJobs DEF runtime
  <2>2. TypeOK'
    BY <1>1, <1>3, <2>1 DEF IInv, TypeOK, pool, runtime
  <2> QED BY <1>1, <1>3, <2>1, <2>2, OwnersUnchanged DEF IInv
<1> QED BY <1>2, <1>3 DEF Fail

-----------------------------------------------------------------------------
(* The end of a graph and of a lease *)

LEMMA DropStep ==
    ASSUME IInv, NEW g \in Graphs, Drop(g)
    PROVE  IInv'
<1> USE NoConfusion
<1>1. /\ graph' = [graph EXCEPT ![g] = NoBundle] /\ ready' = [ready EXCEPT ![g] = FALSE]
      /\ ~Busy(g) /\ DropUnowned
      /\ UNCHANGED <<disk, pool, worker, job, registry, attempt>>
  BY DEF Drop
<1>2. Alive' \subseteq Alive /\ Owned' \subseteq Owned
  <2>1. Alive' \subseteq Alive
    BY <1>1 DEF IInv, TypeOK, Alive
  <2> QED BY <1>1, <2>1 DEF Owned
<1>3. TypeOK'
  BY <1>1, OwnedTypes DEF IInv, TypeOK, DropUnowned, pool
<1>4. LeasesExact' /\ DyingUnowned' /\ EpochsOfLeases'
  BY <1>1, <1>2, Dropping DEF IInv, EpochsOfLeases, pool
<1>5. Attempts' /\ Budget'
  BY <1>1 DEF IInv, TypeOK, Attempts, Budget, pool
<1>6. Jobs'
  BY <1>1 DEF IInv, TypeOK, Jobs, Busy, Describing, ServedBy
<1>7. Prepared'
  BY <1>1, <1>2 DEF IInv, TypeOK, Prepared, pool
<1> QED BY <1>3, <1>4, <1>5, <1>6, <1>7 DEF IInv

\* The last lease of a generation that is released is nobody's, so nobody has
\* another lease of that generation and nobody misses its class maps.
LEMMA ReleaseStep ==
    ASSUME IInv, NEW l \in Lease, Release(l)
    PROVE  IInv'
<1> USE NoConfusion
<1> DEFINE last == leases[l.id] = {l.epoch}
<1>1. /\ l \in dying /\ l \notin Owned /\ dying' = dying \ {l}
      /\ leases' = [leases EXCEPT ![l.id] = @ \ {l.epoch}]
      /\ epochs' = IF last THEN [epochs EXCEPT ![l.id] = 0] ELSE epochs
      /\ installed' = IF last THEN [installed EXCEPT ![l.id] = NoMaps] ELSE installed
      /\ bound' = IF last THEN bound \ {l.id} ELSE bound
      /\ UNCHANGED <<disk, nextEpoch, worker, job, registry, graph, ready, attempt>>
  BY DEF Release, IInv, DyingUnowned
<1>2. l.id \in Ids /\ l.epoch \in Epochs /\ l = [id |-> l.id, epoch |-> l.epoch]
  BY DEF Lease
<1>3. l.epoch \in leases[l.id]
  BY <1>1, <1>2 DEF IInv, LeasesExact
<1>4. Alive' = Alive /\ Owned' = Owned
  BY <1>1 DEF Alive, Owned
\* An owned lease of the same generation is another one.
<1>5. \A k \in Owned : k.id = l.id => ~last
  <2> SUFFICES ASSUME NEW k \in Owned, k.id = l.id, last PROVE FALSE
    OBVIOUS
  <2>1. k = [id |-> k.id, epoch |-> k.epoch] /\ k.epoch \in Epochs
    BY OwnedTypes DEF IInv, Lease
  <2>2. k.epoch \in leases[l.id]
    BY <1>2, <2>1 DEF IInv, LeasesExact
  <2> QED BY <1>1, <1>2, <2>1, <2>2
<1>6. TypeOK'
  <2>1. epochs' \in [Ids -> 0..nextEpoch] /\ leases' \in [Ids -> SUBSET (1..nextEpoch)]
    <3>1. 0 \in 0..nextEpoch
      BY DEF IInv, TypeOK
    <3> QED BY <1>1, <3>1 DEF IInv, TypeOK
  <2>2. /\ installed' \in [Ids -> Css \cup {NoMaps}] /\ bound' \in SUBSET Ids
        /\ dying' \in SUBSET Lease
    BY <1>1 DEF IInv, TypeOK
  <2> QED BY <1>1, <2>1, <2>2 DEF IInv, TypeOK
<1>7. LeasesExact'
  <2> SUFFICES ASSUME NEW i \in Ids
               PROVE  leases'[i] = {e \in Epochs : [id |-> i, epoch |-> e] \in Owned' \cup dying'}
    BY DEF LeasesExact
  <2>1. leases[i] = {e \in Epochs : [id |-> i, epoch |-> e] \in Owned \cup dying}
    BY DEF IInv, LeasesExact
  <2>2. CASE i = l.id
    <3>1. leases'[i] = leases[i] \ {l.epoch}
      BY <1>1, <2>2 DEF IInv, TypeOK
    <3>2. \A e \in Epochs : [id |-> i, epoch |-> e] = l <=> e = l.epoch
      BY <1>2, <2>2
    <3> HIDE DEF last
    <3> QED BY <1>1, <1>4, <2>1, <3>1, <3>2
  <2>3. CASE i # l.id
    <3>1. leases'[i] = leases[i]
      BY <1>1, <2>3 DEF IInv, TypeOK
    <3>2. \A e \in Epochs : [id |-> i, epoch |-> e] # l
      BY <1>2, <2>3
    <3> HIDE DEF last
    <3> QED BY <1>1, <1>4, <2>1, <3>1, <3>2
  <2> QED BY <2>2, <2>3
<1>8. DyingUnowned'
  BY <1>1, <1>4 DEF IInv, DyingUnowned
<1>9. EpochsOfLeases'
  <2>1. CASE last
    <3>1. \A i \in Ids : epochs'[i] = IF i = l.id THEN 0 ELSE epochs[i]
      BY <1>1, <2>1 DEF IInv, TypeOK
    <3>2. \A i \in Ids : leases'[i] = IF i = l.id THEN {} ELSE leases[i]
      BY <1>1, <2>1 DEF IInv, TypeOK
    <3> QED BY <3>1, <3>2 DEF IInv, EpochsOfLeases
  <2>2. CASE ~last
    <3>1. \A i \in Ids : leases'[i] # {} <=> leases[i] # {}
      BY <1>1, <1>3, <2>2 DEF IInv, TypeOK
    <3> QED BY <1>1, <2>2, <3>1 DEF IInv, EpochsOfLeases
  <2> QED BY <2>1, <2>2
<1>10. \A i \in Ids : i # l.id \/ ~last => installed'[i] = installed[i]
  BY <1>1 DEF IInv, TypeOK
<1>11. Attempts' /\ Budget'
  <2>1. attempt.pc = "describe" => /\ attempt.lease \in Owned /\ attempt.lease.id \in Ids
    BY DEF IInv, TypeOK, Attempts, Attempt, Owned, Lease
  <2>2. attempt.pc = "describe" => installed'[attempt.lease.id] = installed[attempt.lease.id]
    BY <1>5, <1>10, <2>1
  <2> HIDE DEF last
  <2> QED BY <1>1, <2>2 DEF IInv, Attempts, Budget
<1>12. Jobs'
  BY <1>1 DEF IInv, Jobs, Describing, ServedBy
<1>13. Prepared'
  <2>1. \A b \in Alive : b.id \in Ids /\ (b.id # l.id \/ ~last)
    BY <1>5, OwnedTypes DEF IInv, Bundle
  <2>2. \A b \in Alive : installed'[b.id] # NoMaps
    BY <1>10, <2>1 DEF IInv, Prepared
  <2>3. ASSUME NEW g \in Graphs, ready[g] PROVE graph[g].id \in bound'
    <3>1. graph[g] \in Alive /\ graph[g].id \in bound
      BY <2>3 DEF IInv, Prepared, Alive
    <3> QED BY <1>1, <2>1, <3>1
  <2> HIDE DEF last
  <2> QED BY <1>1, <1>4, <2>2, <2>3 DEF IInv, Prepared
<1> QED BY <1>6, <1>7, <1>8, <1>9, <1>11, <1>12, <1>13 DEF IInv

-----------------------------------------------------------------------------
(* Theorems *)

\* Whatever the describe call, the slots, the graphs and the releases do next
\* keeps the inductive invariant.
LEMMA NextInvariant == IInv /\ [Next]_vars => IInv'
<1> SUFFICES ASSUME IInv, [Next]_vars PROVE IInv'
  OBVIOUS
<1>1. CASE Edit
  BY <1>1, EditStep
<1>2. ASSUME NEW g \in Graphs, Lookup(g) \/ Drop(g) PROVE IInv'
  BY <1>2, LookupStep, DropStep
<1>3. CASE Check
  BY <1>3, CheckStep
<1>4. ASSUME NEW s \in Slots,
             \/ StartDescriber(s) \/ (\E g \in Graphs : StartGraph(s, g))
             \/ Prepare(s) \/ Answer(s) \/ Fail(s) \/ Crash(s) \/ CleanIdle(s)
      PROVE  IInv'
  <2>1. CASE Answer(s)
    BY <2>1, AnswerBundleStep, AnswerMapsStep, AnswerDescribeStep, AnswerGraphStep DEF Answer
  <2> QED BY <1>4, <2>1, StartStep, PrepareStep, FailStep, CrashStep, CleanIdleStep
<1>5. ASSUME NEW l \in Lease, Release(l) PROVE IInv'
  BY <1>5, ReleaseStep
<1>6. CASE UNCHANGED vars
  <2>1. TypeOK' /\ Jobs'
    BY <1>6 DEF IInv, TypeOK, Jobs, Describing, ServedBy, vars, pool, runtime
  <2> QED BY <1>6, <2>1, OwnersUnchanged DEF IInv, vars
<1> QED BY <1>1, <1>2, <1>3, <1>4, <1>5, <1>6 DEF Next

\* Every reachable state of the runtime and the pool satisfies the invariant.
THEOREM Invariant == Spec => []IInv
BY InitInvariant, NextInvariant, PTL DEF Spec

\* Types: epochs stay below the counter that record_response advances, and what
\* the pool, the workers and the runtime keep has the shape of their structures.
THEOREM TypeCorrect == Spec => []TypeOK
<1>1. IInv => TypeOK
  BY DEF IInv
<1> QED BY <1>1, Invariant, PTL

\* The pool's leases are those of living bundle states and describe calls and
\* those whose Drop is still to run, however graphs, failures, retries and
\* releases interleave.
THEOREM LeasesAreExact == Spec => []LeasesExact
<1>1. IInv => LeasesExact
  BY DEF IInv
<1> QED BY <1>1, Invariant, PTL

\* No release takes from the pool what a graph still renders with.
THEOREM PrerequisitesStay == Spec => []PrerequisitesKept
<1>1. IInv => PrerequisitesKept
  <2> SUFFICES ASSUME IInv, NEW g \in Graphs, graph[g] # NoBundle
               PROVE  /\ epochs[graph[g].id] # 0
                      /\ installed[graph[g].id] # NoMaps
                      /\ ready[g] => graph[g].id \in bound
    BY DEF PrerequisitesKept
  <2>1. graph[g] \in Alive /\ graph[g] \in Bundle
    BY DEF IInv, TypeOK, Alive
  <2>2. LeaseOf(graph[g]) \in Owned
    BY <2>1, OwnedTypes DEF IInv
  <2>3. graph[g].epoch \in leases[graph[g].id] /\ graph[g].id \in Ids
    BY <2>1, <2>2 DEF IInv, LeasesExact, LeaseOf, Bundle
  <2> QED BY <2>1, <2>3 DEF IInv, EpochsOfLeases, Prepared
<1> QED BY <1>1, Invariant, PTL

-----------------------------------------------------------------------------
(* Class maps of its own, where graphs of a generation end in the order they   *)
(* came, between describe calls                                                *)

Bundled == attempt.pc \in {"bundled", "maps", "describe"}

\* The living states of a generation.
States(i) == {b \in Alive : b.id = i}

HeldByGraphs == attempt.held \subseteq {graph[g] : g \in Graphs}

\* A state is born in the lifetime of its describe call, the last one opened.
Births ==
    /\ \A b \in Alive : b.born <= nextEpoch
    /\ \A b, c \in Alive : b.id = c.id /\ b.born = c.born => b = c
    /\ Bundled => /\ attempt.lease.epoch = nextEpoch /\ epochs[attempt.lease.id] = nextEpoch
                  /\ \A b \in Alive : b.born < nextEpoch

\* Class maps an evaluation knew are those it is rendered with.
Evaluations ==
    /\ \A b \in Alive : b.id.maps # NoMaps => b.maps = b.id.maps
    /\ attempt.evaluation # NoMaps => attempt.maps = attempt.evaluation
    /\ Bundled => attempt.lease.id.maps = attempt.evaluation

\* The registry has the youngest state of a generation, which lives if any does.
Newest ==
    /\ \A i \in Ids : registry[i] # NoBundle => registry[i].id = i
    /\ \A b \in Alive : registry[b.id] \in Alive /\ b.born <= registry[b.id].born

\* The pool has the class maps of every living state.
Installed ==
    /\ \A b \in Alive : installed[b.id] = b.maps
    /\ attempt.pc \in {"maps", "describe"} => States(attempt.lease.id) = {}
    /\ attempt.pc = "describe" => installed[attempt.lease.id] = attempt.maps

Lineage == HeldByGraphs /\ Births /\ Evaluations /\ Newest /\ Installed

\* Class maps a worker loaded in the current lifetime are those of the pool; it has
\* none of a generation nobody has described in that lifetime.
Current(s) ==
    /\ \A i \in Ids :
         worker[s][i].maps # NoMaps /\ worker[s][i].epoch = epochs[i] /\ epochs[i] # 0
         => worker[s][i].maps = installed[i]
    /\ /\ attempt.pc \in {"bundled", "maps"} /\ States(attempt.lease.id) = {}
       /\ worker[s][attempt.lease.id].epoch = nextEpoch
       => worker[s][attempt.lease.id].maps = NoMaps

\* A request of a graph finds no other class maps, and is sent to a worker that has them.
Serving(s) ==
    job[s] # NoJob /\ job[s].by \in Graphs =>
        LET b == graph[job[s].by] IN
        /\ worker[s][b.id].maps \in {NoMaps, b.maps}
        /\ job[s].phase = "inflight" => worker[s][b.id].maps = b.maps

Loaded == \A s \in Slots : Current(s) /\ Serving(s)

Own == Lineage /\ Loaded

LEMMA AliveFacts ==
    ASSUME IInv
    PROVE  /\ \A b \in Alive : /\ b \in Bundle /\ b.id \in Ids /\ b.born \in Nat /\ b.maps \in Css
                               /\ epochs[b.id] # 0 /\ epochs[b.id] \in Nat
           /\ \A g \in Graphs : graph[g] # NoBundle => graph[g] \in Alive
           /\ nextEpoch \in Nat
<1> USE NoConfusion
<1>1. Alive \subseteq Bundle
  BY OwnedTypes DEF IInv
<1>2. ASSUME NEW b \in Alive PROVE b.id \in Ids /\ b.born \in Nat /\ b.maps \in Css /\ epochs[b.id] # 0 /\ epochs[b.id] \in Nat
  <2>1. b.id \in Ids /\ b.epoch \in Epochs /\ b.born \in Epochs /\ b.maps \in Css
    BY <1>1 DEF Bundle
  <2>2. LeaseOf(b) \in Owned
    BY <1>1, OwnedTypes DEF IInv
  <2>3. b.epoch \in leases[b.id]
    BY <2>1, <2>2 DEF IInv, LeasesExact, LeaseOf
  <2>4. epochs[b.id] # 0
    BY <2>1, <2>3 DEF IInv, EpochsOfLeases
  <2>5. nextEpoch \in Nat /\ epochs[b.id] \in 0 .. nextEpoch
    BY <2>1 DEF IInv, TypeOK
  <2>6. b.born \in Nat
    BY <2>1
  <2>7. epochs[b.id] \in Nat
    BY <2>5
  <2> QED
    BY <2>1, <2>4, <2>6, <2>7
<1>3. nextEpoch \in Nat
  BY DEF IInv, TypeOK
<1> QED
  BY <1>1, <1>2, <1>3 DEF Alive

\* The lease of a describe call that has one.
LEMMA LeaseFacts ==
    ASSUME IInv, Bundled
    PROVE  /\ attempt.lease \in Lease /\ attempt.lease \in Owned /\ attempt.lease.id \in Ids
           /\ attempt.lease.epoch \in Nat /\ attempt.by \in Graphs /\ graph[attempt.by] = NoBundle
           /\ attempt.listing \in Listings
BY NoConfusion DEF IInv, TypeOK, Attempts, Attempt, Bundled, Owned, Lease

\* Nobody serves a request of a graph that is not there.
LEMMA ServedGraphs ==
    ASSUME IInv, NEW s \in Slots, job[s] # NoJob, job[s].by \in Graphs
    PROVE  graph[job[s].by] \in Alive
BY NoConfusion, AliveFacts DEF IInv, Jobs

-----------------------------------------------------------------------------
(* Steps of slots *)

LEMMA LineageStays ==
    ASSUME Lineage, UNCHANGED <<nextEpoch, epochs, installed, registry, graph, attempt>>
    PROVE  Lineage'
<1>1. Alive' = Alive
  BY DEF Alive
<1>2. HeldByGraphs'
  BY DEF Lineage, HeldByGraphs
<1>3. Births'
  BY <1>1 DEF Lineage, Births, Bundled
<1>4. Evaluations' /\ Newest'
  BY <1>1 DEF Lineage, Evaluations, Newest, Bundled
<1>5. Installed'
  BY <1>1 DEF Lineage, Installed, States
<1> QED
  BY <1>2, <1>3, <1>4, <1>5 DEF Lineage

\* A slot that unloads, or loads class maps of a living generation, is current.
LEMMA SlotStep ==
    ASSUME IInv, Own, NEW s \in Slots, NEW w,
           UNCHANGED <<nextEpoch, epochs, installed, registry, graph, attempt>>,
           worker' = [worker EXCEPT ![s] = w],
           \A t \in Slots \ {s} : job'[t] = job[t],
           \A i \in Ids :
               \/ w[i].maps = NoMaps \/ w[i] = worker[s][i]
               \/ w[i].maps = installed[i]
                  /\ (attempt.pc \in {"bundled", "maps"} /\ i = attempt.lease.id => States(i) # {}),
           Serving(s)'
    PROVE  Own'
<1>1. Lineage'
  BY LineageStays DEF Own
<1>2. Alive' = Alive
  BY DEF Alive
<1>3. worker'[s] = w /\ \A t \in Slots \ {s} : worker'[t] = worker[t]
  BY DEF IInv, TypeOK
<1>4. ASSUME NEW t \in Slots, t # s PROVE Current(t)' /\ Serving(t)'
  BY <1>2, <1>3, <1>4 DEF Own, Loaded, Current, Serving, States
<1>5. Current(s)'
  <2>1. Current(s)
    BY DEF Own, Loaded
  <2>2. \A i \in Ids :
          w[i].maps # NoMaps /\ w[i].epoch = epochs[i] /\ epochs[i] # 0 => w[i].maps = installed[i]
    BY <2>1 DEF Current
  <2>3. ASSUME attempt.pc \in {"bundled", "maps"}, States(attempt.lease.id) = {},
               w[attempt.lease.id].epoch = nextEpoch
        PROVE  w[attempt.lease.id].maps = NoMaps
    <3>1. attempt.lease.id \in Ids
      BY <2>3, LeaseFacts DEF Bundled
    <3> QED
      BY <2>1, <2>3, <3>1 DEF Current
  <2>4. States(attempt.lease.id)' = States(attempt.lease.id)
    BY <1>2 DEF States
  <2> QED
    BY <1>3, <2>2, <2>3, <2>4 DEF Current
<1> QED
  BY <1>1, <1>4, <1>5 DEF Own, Loaded

\* Cleaning only unloads.
LEMMA CleanedMaps ==
    ASSUME NEW w, NEW eps, NEW i \in Ids
    PROVE  /\ Cleaned(w, eps)[i] = w[i] \/ Cleaned(w, eps)[i].maps = NoMaps
           /\ w[i].epoch # eps[i] => Cleaned(w, eps)[i].maps = NoMaps
BY DEF Cleaned, Unloaded

LEMMA StartOwn ==
    ASSUME IInv, Own, NEW s \in Slots, StartDescriber(s) \/ \E g \in Graphs : StartGraph(s, g)
    PROVE  Own'
<1> USE NoConfusion
<1>1. PICK by \in Graphs \cup {Describer},
           kind \in {"bundle", "maps", "describe", "bindings", "render"} :
        Start(s, by, kind) /\ (by \in Graphs => graph[by] # NoBundle)
  BY DEF StartDescriber, StartGraph
<1>2. /\ worker' = [worker EXCEPT ![s] = Cleaned(worker[s], epochs)]
      /\ UNCHANGED <<nextEpoch, epochs, installed, registry, graph, attempt>>
      /\ \A t \in Slots \ {s} : job'[t] = job[t]
      /\ job'[s] = [by |-> by, kind |-> kind, phase |-> "prepare"]
      /\ worker'[s] = Cleaned(worker[s], epochs)
  BY <1>1 DEF Start, IInv, TypeOK, pool, runtime
<1>3. Serving(s)'
  <2> SUFFICES ASSUME by \in Graphs
               PROVE  worker'[s][graph[by].id].maps \in {NoMaps, graph[by].maps}
    BY <1>2 DEF Serving
  <2>1. graph[by] \in Alive
    BY <1>1, AliveFacts
  <2>2. /\ graph[by].id \in Ids /\ epochs[graph[by].id] # 0
        /\ installed[graph[by].id] = graph[by].maps
    BY <2>1, AliveFacts DEF Own, Lineage, Installed
  <2>3. Current(s)
    BY DEF Own, Loaded
  <2> QED
    BY <1>2, <2>2, <2>3, CleanedMaps DEF Current
<1>4. \A i \in Ids : Cleaned(worker[s], epochs)[i].maps = NoMaps
                     \/ Cleaned(worker[s], epochs)[i] = worker[s][i]
  BY CleanedMaps
<1> QED
  BY <1>2, <1>3, <1>4, SlotStep

LEMMA PrepareOwn ==
    ASSUME IInv, Own, NEW s \in Slots, Prepare(s)
    PROVE  Own'
<1> USE NoConfusion
<1>1. /\ job[s] # NoJob /\ job[s] \in Job /\ job'[s] = [job[s] EXCEPT !.phase = "inflight"]
      /\ job'[s].by = job[s].by
      /\ UNCHANGED <<nextEpoch, epochs, installed, registry, graph, attempt>>
      /\ \A t \in Slots \ {s} : job'[t] = job[t]
  BY DEF Prepare, IInv, TypeOK, Job, pool, runtime
<1> DEFINE w == worker[s]
           i == JobId(s)
<1>2. w \in Worker(nextEpoch)
  BY CleanedTypes DEF IInv
<1>3. \A j \in Ids : \A k \in Ids :
        WithCode(w, k)[j].maps = NoMaps \/ WithCode(w, k)[j] = w[j]
  BY <1>2 DEF WithCode, Worker
<1>4. CASE job[s].by \notin Graphs
  <2>1. job[s].kind = attempt.pc /\ attempt.pc \in {"bundle", "maps", "describe"} /\ Describing(s)
    BY <1>1, <1>4 DEF IInv, Jobs, Job, Describing, ServedBy
  <2>2. Serving(s)'
    BY <1>1, <1>4 DEF Serving
  <2>3. CASE job[s].kind = "bundle"
    <3>1. Latest # {} => (CHOOSE k \in Latest : TRUE) \in Ids
      BY DEF Latest
    <3>2. PICK v : /\ worker' = [worker EXCEPT ![s] = v] /\ worker'[s] = v
                   /\ \A j \in Ids : v[j].maps = NoMaps \/ v[j] = w[j]
      BY <1>3, <2>3, <3>1 DEF Prepare, IInv, TypeOK
    <3> QED
      BY <1>1, <2>2, <3>2, SlotStep
  <2>4. CASE job[s].kind = "maps"
    <3>1. i \in Ids
      BY <1>1, <2>4, JobIdTypes
    <3>2. worker' = [worker EXCEPT ![s] = WithCode(w, i)]
      BY <2>4 DEF Prepare
    <3> DEFINE v == WithCode(w, i)
    <3>3. \A j \in Ids : v[j].maps = NoMaps \/ v[j] = w[j]
      BY <1>3, <3>1
    <3> HIDE DEF v
    <3>4. worker' = [worker EXCEPT ![s] = v] /\ worker'[s] = v
      BY <3>2 DEF v, IInv, TypeOK
    <3> QED
      BY <1>1, <2>2, <3>3, <3>4, SlotStep
  <2>5. CASE job[s].kind = "describe"
    <3>1. i \in Ids
      BY <1>1, <2>5, JobIdTypes
    <3>2. worker' = [worker EXCEPT ![s] = WithMaps(WithCode(w, i), i)]
      BY <2>5 DEF Prepare
    <3>3. \A j \in Ids : \/ WithMaps(WithCode(w, i), i)[j] = WithCode(w, i)[j]
                         \/ WithMaps(WithCode(w, i), i)[j].maps = installed[j]
      <4>1. WithCode(w, i) \in Worker(nextEpoch)
        BY <1>2, <3>1, LoadedTypes DEF IInv
      <4> QED
        BY <3>1, <4>1 DEF WithMaps, Worker
    <3>4. attempt.pc \notin {"bundled", "maps"}
      BY <2>1, <2>5
    <3>5. \A j \in Ids : \/ WithMaps(WithCode(w, i), i)[j].maps = NoMaps
                         \/ WithMaps(WithCode(w, i), i)[j] = w[j]
                         \/ WithMaps(WithCode(w, i), i)[j].maps = installed[j]
      BY <1>3, <3>1, <3>3
    <3> DEFINE v == WithMaps(WithCode(w, i), i)
    <3>6. worker' = [worker EXCEPT ![s] = v] /\ worker'[s] = v
      BY <3>2 DEF IInv, TypeOK
    <3>7. \A j \in Ids : v[j].maps = NoMaps \/ v[j] = w[j] \/ v[j].maps = installed[j]
      BY <3>5
    <3> HIDE DEF v
    <3> QED
      BY <1>1, <2>2, <3>4, <3>6, <3>7, SlotStep
  <2> QED
    BY <2>1, <2>3, <2>4, <2>5
<1>5. CASE job[s].by \in Graphs
  <2> DEFINE b == graph[job[s].by]
             v == WithMaps(WithCode(w, i), i)
  <2>1. b \in Alive /\ i = b.id /\ i \in Ids /\ job[s].kind \in {"bindings", "render"}
    BY <1>1, <1>5, ServedGraphs, AliveFacts DEF IInv, Jobs, JobId, Describing, ServedBy
  <2>2. worker' = [worker EXCEPT ![s] = v] /\ worker'[s] = v
    BY <2>1 DEF Prepare, IInv, TypeOK
  <2>3. WithCode(w, i) \in Worker(nextEpoch)
    BY <1>2, <2>1, LoadedTypes DEF IInv
  <2>4. \A j \in Ids : v[j] = WithCode(w, i)[j] \/ (j = i /\ v[j].maps = installed[i])
    BY <2>1, <2>3 DEF WithMaps, Worker
  <2>5. States(i) # {}
    BY <2>1 DEF States
  <2>6. installed[i] = b.maps /\ b.maps # NoMaps
    BY <2>1, AliveFacts DEF Own, Lineage, Installed
  <2>7. v[i].maps = b.maps
    <3>1. w[i].maps \in {NoMaps, b.maps}
      BY <1>1, <1>5, <2>1 DEF Own, Loaded, Serving
    <3>2. WithCode(w, i)[i].maps \in {NoMaps, b.maps}
      BY <1>3, <2>1, <3>1
    <3>3. WithCode(w, i)[i].maps = NoMaps => v[i].maps = installed[i]
      BY <2>1, <2>3 DEF WithMaps, Worker
    <3>4. WithCode(w, i)[i].maps # NoMaps => v[i].maps = WithCode(w, i)[i].maps
      BY DEF WithMaps
    <3> QED
      BY <2>6, <3>2, <3>3, <3>4
  <2>8. Serving(s)'
    BY <1>1, <2>1, <2>2, <2>7 DEF Serving
  <2>9. \A j \in Ids : \/ v[j].maps = NoMaps \/ v[j] = w[j]
                       \/ v[j].maps = installed[j] /\ (j = attempt.lease.id => States(j) # {})
    BY <1>3, <2>1, <2>4, <2>5
  <2> HIDE DEF v
  <2> QED
    BY <1>1, <2>2, <2>8, <2>9, SlotStep
<1> QED
  BY <1>4, <1>5

\* What is left of a worker at the end of a request, of a process or of a lifetime.
LEMMA UnloadOwn ==
    ASSUME IInv, Own, NEW s \in Slots, NEW w,
           w \in {Cleaned(worker[s], epochs), [i \in Ids |-> Unloaded]},
           worker' = [worker EXCEPT ![s] = w],
           UNCHANGED <<nextEpoch, epochs, installed, registry, graph, attempt>>,
           \A t \in Slots \ {s} : job'[t] = job[t],
           job'[s] = NoJob \/ (w = [i \in Ids |-> Unloaded] /\ job[s] # NoJob
                               /\ job'[s] = [job[s] EXCEPT !.phase = "prepare"])
    PROVE  Own'
<1> USE NoConfusion
<1>1. \A i \in Ids : w[i].maps = NoMaps \/ w[i] = worker[s][i]
  BY CleanedMaps DEF Unloaded
<1>2. Serving(s)'
  <2>1. CASE job'[s] = NoJob
    BY <2>1 DEF Serving
  <2>2. CASE job'[s] # NoJob
    <3>1. job[s] \in Job /\ job'[s].by = job[s].by /\ job'[s].phase = "prepare" /\ job[s] # NoJob
      BY <2>2 DEF IInv, TypeOK, Job
    <3>2. job[s].by \in Graphs => graph[job[s].by].id \in Ids
      BY <3>1, ServedGraphs, AliveFacts
    <3>3. worker'[s] = w /\ w = [i \in Ids |-> Unloaded]
      BY <2>2 DEF IInv, TypeOK
    <3> QED
      BY <3>1, <3>2, <3>3 DEF Serving, Unloaded
  <2> QED
    BY <2>1, <2>2
<1> QED
  BY <1>1, <1>2, SlotStep

LEMMA RequestEnds ==
    ASSUME IInv, Own, NEW s \in Slots,
           \/ Crash(s) \/ CleanIdle(s) \/ (Fail(s) /\ ~Describing(s))
           \/ AnswerGraph(s) /\ job' = [job EXCEPT ![s] = NoJob]
    PROVE  Own'
<1>1. UNCHANGED <<nextEpoch, epochs, installed, registry, graph, attempt>>
  BY DEF Crash, CleanIdle, Fail, AnswerGraph, pool, runtime
<1>2. PICK w \in {Cleaned(worker[s], epochs), [i \in Ids |-> Unloaded]} :
         /\ worker' = [worker EXCEPT ![s] = w]
         /\ Crash(s) => w = [i \in Ids |-> Unloaded]
  BY DEF Crash, CleanIdle, Fail, AnswerGraph
<1>3. /\ \A t \in Slots \ {s} : job'[t] = job[t]
      /\ job'[s] = NoJob \/ (Crash(s) /\ job[s] # NoJob /\ job'[s] = [job[s] EXCEPT !.phase = "prepare"])
  BY DEF Crash, CleanIdle, Fail, AnswerGraph, IInv, TypeOK
<1> QED
  BY <1>1, <1>2, <1>3, UnloadOwn

-----------------------------------------------------------------------------
(* Steps of the describe call *)

LEMMA HeldAlive ==
    ASSUME IInv, Lineage
    PROVE  Alive = {graph[g] : g \in Graphs} \ {NoBundle}
BY NoConfusion DEF Lineage, HeldByGraphs, Alive, IInv, TypeOK, Attempt

\* A step that leaves the workers and the pool alone, and the graphs that are there, leaves
\* the slots current if no generation of the describe call comes to be described.
LEMMA SlotsStay ==
    ASSUME IInv, Loaded, UNCHANGED <<nextEpoch, epochs, installed, worker, job>>,
           \A g \in Graphs : graph[g] # NoBundle => graph'[g] = graph[g],
           attempt'.pc \in {"bundled", "maps"} =>
               /\ attempt.pc = "bundled" /\ attempt'.lease = attempt.lease
               /\ States(attempt.lease.id)' = States(attempt.lease.id)
    PROVE  Loaded'
<1> SUFFICES ASSUME NEW s \in Slots PROVE Current(s)' /\ Serving(s)'
  BY DEF Loaded
<1>1. Current(s) /\ Serving(s)
  BY DEF Loaded
<1>2. Current(s)'
  BY <1>1 DEF Current
<1>3. job[s] # NoJob /\ job[s].by \in Graphs => graph[job[s].by] # NoBundle
  BY NoConfusion DEF IInv, Jobs
<1>4. Serving(s)'
  BY <1>1, <1>3 DEF Serving
<1> QED
  BY <1>2, <1>4

LEMMA LookupOwn ==
    ASSUME IInv, Own, NEW g \in Graphs, Lookup(g)
    PROVE  Own'
<1> USE NoConfusion
<1>1. /\ attempt.pc = "idle" /\ attempt = Idle /\ graph[g] = NoBundle
      /\ UNCHANGED <<nextEpoch, epochs, installed, worker, job, registry>>
  BY DEF Lookup, IInv, Attempts, pool
<1>2. Candidates \subseteq Alive /\ Alive \subseteq Bundle /\ ~Bundled
  BY <1>1, OwnedTypes DEF IInv, Candidates, Bundled
<1>3. Alive = {graph[h] : h \in Graphs} \ {NoBundle}
  BY HeldAlive DEF Own
<1>4. CASE UNCHANGED attempt
  <2>1. PICK b \in Candidates : graph' = [graph EXCEPT ![g] = b]
    BY <1>1, <1>4 DEF Lookup, Idle
  <2>2. Alive' = Alive
    BY <1>1, <1>2, <1>4, <2>1 DEF Alive, IInv, TypeOK
  <2>3. HeldByGraphs'
    BY <1>1, <1>4 DEF HeldByGraphs, Idle
  <2>4. Births' /\ Evaluations' /\ Newest' /\ Installed'
    BY <1>1, <1>2, <1>4, <2>2 DEF Own, Lineage, Births, Evaluations, Newest, Installed, Bundled, States
  <2>5. \A h \in Graphs : graph[h] # NoBundle => graph'[h] = graph[h]
    BY <1>1, <2>1 DEF IInv, TypeOK
  <2>6. Loaded'
    BY <1>1, <1>4, <2>5, SlotsStay DEF Own
  <2> QED
    BY <2>3, <2>4, <2>6 DEF Own, Lineage
<1>5. CASE ~UNCHANGED attempt
  <2>1. /\ UNCHANGED graph /\ attempt'.pc = "bundle" /\ attempt'.held = Candidates
        /\ attempt'.maps = attempt'.evaluation
    BY <1>5 DEF Lookup, Idle
  <2>2. Alive' = Alive
    BY <1>1, <1>2, <2>1 DEF Alive, Idle
  <2>3. HeldByGraphs'
    BY <1>2, <1>3, <2>1 DEF HeldByGraphs
  <2>4. Births' /\ Evaluations' /\ Newest' /\ Installed'
    BY <1>1, <2>1, <2>2 DEF Own, Lineage, Births, Evaluations, Newest, Installed, Bundled, States
  <2>5. Loaded'
    BY <1>1, <2>1, SlotsStay DEF Own
  <2> QED
    BY <2>3, <2>4, <2>5 DEF Own, Lineage
<1> QED BY <1>4, <1>5

\* The result of a describe call becomes the youngest state of its generation.
LEMMA ConcludeOwn ==
    ASSUME IInv, Lineage, Bundled, UNCHANGED <<nextEpoch, epochs, installed>>,
           NEW b \in Bundle, Conclude(b), b.born = attempt.lease.epoch, b.id = attempt.lease.id,
           installed[b.id] = b.maps, b.id.maps # NoMaps => b.maps = b.id.maps
    PROVE  /\ Lineage' /\ attempt' = Idle
           /\ \A g \in Graphs : graph[g] # NoBundle => graph'[g] = graph[g]
<1> USE NoConfusion
<1>1. /\ attempt.by \in Graphs /\ graph[attempt.by] = NoBundle /\ b.id \in Ids
      /\ graph \in [Graphs -> Bundle \cup {NoBundle}]
      /\ registry \in [Ids -> Bundle \cup {NoBundle}]
      /\ registry' = [registry EXCEPT ![b.id] = b] /\ graph' = [graph EXCEPT ![attempt.by] = b]
      /\ attempt' = Idle
  BY LeaseFacts DEF Conclude, IInv, TypeOK
<1>2. Alive' = Alive \cup {b} /\ ~Bundled'
  <2>1. Alive = {graph[g] : g \in Graphs} \ {NoBundle}
    BY HeldAlive
  <2>2. {graph'[g] : g \in Graphs} \ {NoBundle} = Alive \cup {b}
    BY <1>1, <2>1
  <2>3. attempt'.held = {} /\ attempt'.pc = "idle"
    BY <1>1 DEF Idle
  <2> QED
    BY <2>2, <2>3 DEF Alive, Bundled
<1>3. /\ \A c \in Alive : c.born < nextEpoch /\ c.id \in Ids /\ c.born \in Nat
      /\ b.born = nextEpoch /\ nextEpoch \in Nat
  BY AliveFacts DEF Lineage, Births
<1>4. HeldByGraphs'
  BY <1>1 DEF HeldByGraphs, Idle
<1>5. Births'
  <2>1. \A c \in Alive' : c.born <= nextEpoch'
    BY <1>2, <1>3
  <2>2. \A c, d \in Alive' : c.id = d.id /\ c.born = d.born => c = d
    BY <1>2, <1>3 DEF Lineage, Births
  <2> QED
    BY <1>2, <2>1, <2>2 DEF Births
<1>6. Evaluations'
  <2>1. attempt'.evaluation = NoMaps
    BY <1>1 DEF Idle
  <2> QED
    BY <1>2, <2>1 DEF Lineage, Evaluations
<1>7. Newest'
  <2>1. \A i \in Ids : registry'[i] # NoBundle => registry'[i].id = i
    BY <1>1 DEF Lineage, Newest
  <2>2. registry'[b.id] = b /\ b \in Alive' /\ \A i \in Ids \ {b.id} : registry'[i] = registry[i]
    BY <1>1, <1>2
  <2>3. ASSUME NEW c \in Alive PROVE registry'[c.id] \in Alive' /\ c.born <= registry'[c.id].born
    <3>1. CASE c.id = b.id
      BY <1>3, <2>2, <3>1
    <3>2. CASE c.id # b.id
      BY <1>2, <1>3, <2>2, <3>2 DEF Lineage, Newest
    <3> QED
      BY <3>1, <3>2
  <2>4. b.born <= b.born
    BY <1>3
  <2> QED
    BY <1>2, <2>1, <2>2, <2>3, <2>4 DEF Newest
<1>8. Installed'
  <2>1. attempt'.pc = "idle"
    BY <1>1 DEF Idle
  <2> QED
    BY <1>2, <2>1 DEF Lineage, Installed
<1>9. \A g \in Graphs : graph[g] # NoBundle => graph'[g] = graph[g]
  BY <1>1
<1> QED
  BY <1>1, <1>4, <1>5, <1>6, <1>7, <1>8, <1>9 DEF Lineage

\* A describe call that ends without a result takes no state with it.
LEMMA GiveUpOwn ==
    ASSUME IInv, Lineage, GiveUp, UNCHANGED pool
    PROVE  Lineage' /\ attempt' = Idle /\ UNCHANGED <<registry, graph>>
<1> USE NoConfusion
<1>1. attempt' = Idle /\ UNCHANGED <<nextEpoch, epochs, installed, registry, graph>>
      /\ attempt'.held = {} /\ attempt'.pc = "idle" /\ attempt'.evaluation = NoMaps
  BY DEF GiveUp, pool, Idle
<1>2. Alive' = Alive
  BY <1>1, HeldAlive DEF Alive
<1>3. HeldByGraphs' /\ Births' /\ Evaluations' /\ Newest' /\ Installed'
  BY <1>1, <1>2 DEF Lineage, HeldByGraphs, Births, Evaluations, Newest, Installed, Bundled, States
<1> QED
  BY <1>1, <1>3 DEF Lineage

LEMMA CheckOwn ==
    ASSUME IInv, Own, Check
    PROVE  Own'
<1> USE NoConfusion
<1> DEFINE id   == attempt.lease.id
           maps == IF attempt.maps = NoMaps THEN disk.css ELSE attempt.maps
           old  == {registry[id]} \cap Alive
<1>1. /\ attempt.pc = "bundled" /\ Bundled
      /\ UNCHANGED <<nextEpoch, epochs, installed, worker, job>> /\ UNCHANGED pool
  BY DEF Check, pool, Bundled
<1>2. /\ attempt.lease \in Lease /\ attempt.lease.epoch \in Epochs /\ id \in Ids
      /\ attempt.listing \in Listings /\ attempt \in Attempt
      /\ attempt.maps \in Css \cup {NoMaps} /\ attempt.maps = attempt.evaluation
      /\ id.maps = attempt.evaluation
  BY <1>1, LeaseFacts DEF IInv, TypeOK, Budget, Attempt, Lease, Own, Lineage, Evaluations
<1>3. maps \in Css /\ (attempt.maps # NoMaps => maps = attempt.maps)
  BY <1>2 DEF IInv, TypeOK
<1> HIDE DEF maps
<1>4. \A b \in Alive : b.id \in Ids /\ b \in Bundle
  BY AliveFacts
\* The describe call goes on.
<1>5. ASSUME UNCHANGED <<registry, graph>>, attempt'.held = attempt.held, attempt'.lease = attempt.lease,
             attempt'.maps = maps,
             \/ attempt'.pc = "bundle" /\ attempt'.evaluation = maps
             \/ attempt'.pc = "maps" /\ attempt'.evaluation = attempt.evaluation /\ old = {}
      PROVE  Own'
  <2>1. Alive' = Alive
    BY <1>5 DEF Alive
  <2>2. HeldByGraphs' /\ Newest'
    BY <1>1, <1>5, <2>1 DEF Own, Lineage, HeldByGraphs, Newest
  <2>3. Births'
    BY <1>1, <1>5, <2>1 DEF Own, Lineage, Births, Bundled
  <2>4. Evaluations'
    BY <1>1, <1>2, <1>3, <1>5, <2>1 DEF Own, Lineage, Evaluations, Bundled
  <2>5. Installed'
    <3>1. ASSUME old = {}, NEW b \in Alive PROVE b.id # id
      BY <3>1 DEF Own, Lineage, Newest
    <3>2. attempt'.pc \in {"maps", "describe"} => States(attempt.lease.id)' = {}
      BY <1>5, <2>1, <3>1 DEF States
    <3> QED
      BY <1>1, <1>5, <2>1, <3>2 DEF Own, Lineage, Installed
  <2>6. States(attempt.lease.id)' = States(attempt.lease.id)
    BY <1>5, <2>1 DEF States
  <2>7. Loaded'
    BY <1>1, <1>5, <2>6, SlotsStay DEF Own
  <2> QED
    BY <2>2, <2>3, <2>4, <2>5, <2>7 DEF Own, Lineage
\* A new state that shares the lease of the youngest one has its class maps.
<1>6. ASSUME NEW b \in old, {c \in old : c.maps # maps} = {} \/ attempt.evaluation = maps,
             Conclude([b EXCEPT !.maps = maps, !.listing = attempt.listing,
                                !.born = attempt.lease.epoch])
      PROVE  Own'
  <2> DEFINE new == [b EXCEPT !.maps = maps, !.listing = attempt.listing,
                              !.born = attempt.lease.epoch]
  <2>1. b \in Bundle /\ b \in Alive /\ b = registry[id] /\ b # NoBundle
    BY <1>4
  <2>2. b.id = id /\ installed[b.id] = b.maps /\ (b.id.maps # NoMaps => b.maps = b.id.maps)
    BY <1>2, <2>1 DEF Own, Lineage, Newest, Installed, Evaluations
  <2>3. b.maps = maps
    BY <1>2, <1>3, <1>6, <2>2
  <2>4. new \in Bundle /\ new.id = b.id /\ new.maps = maps /\ new.born = attempt.lease.epoch
    BY <1>2, <1>3, <2>1 DEF Bundle
  <2>5. Conclude(new)
    BY <1>6
  <2> HIDE DEF new
  <2>6. /\ Lineage' /\ attempt' = Idle
        /\ \A g \in Graphs : graph[g] # NoBundle => graph'[g] = graph[g]
    BY <1>1, <2>2, <2>3, <2>4, <2>5, ConcludeOwn DEF Own
  <2>7. Loaded'
    BY <1>1, <2>6, SlotsStay DEF Own, Idle
  <2> QED
    BY <2>6, <2>7 DEF Own
<1>7. ASSUME GiveUp PROVE Own'
  <2>1. Lineage' /\ attempt' = Idle /\ UNCHANGED <<registry, graph>>
    BY <1>1, <1>7, GiveUpOwn DEF Own
  <2>2. Loaded'
    BY <1>1, <2>1, SlotsStay DEF Own, Idle
  <2> QED
    BY <2>1, <2>2 DEF Own
<1>8. ASSUME attempt' = [attempt EXCEPT !.pc = "bundle", !.maps = maps, !.evaluation = maps]
      PROVE  /\ attempt'.held = attempt.held /\ attempt'.lease = attempt.lease /\ attempt'.maps = maps
             /\ attempt'.pc = "bundle" /\ attempt'.evaluation = maps
  BY <1>2, <1>8 DEF Attempt
<1>9. ASSUME attempt' = [attempt EXCEPT !.pc = "maps", !.maps = maps]
      PROVE  /\ attempt'.held = attempt.held /\ attempt'.lease = attempt.lease /\ attempt'.maps = maps
             /\ attempt'.pc = "maps" /\ attempt'.evaluation = attempt.evaluation
  BY <1>2, <1>9 DEF Attempt
<1> QED BY <1>5, <1>6, <1>7, <1>8, <1>9 DEF Check, maps

-----------------------------------------------------------------------------
(* Answers and ends *)

\* A lifetime that opens leaves what was loaded in others behind.
LEMMA AnswerBundleOwn ==
    ASSUME IInv, Own, NEW s \in Slots, AnswerBundle(s), job[s] # NoJob,
           job' = [job EXCEPT ![s] = NoJob]
    PROVE  Own'
<1> USE NoConfusion
<1> DEFINE id    == [code |-> disk.code, maps |-> attempt.evaluation]
           epoch == nextEpoch + 1
           new   == [id |-> id, epoch |-> epoch]
<1>1. /\ nextEpoch' = epoch /\ epochs' = [epochs EXCEPT ![id] = epoch]
      /\ attempt' = [attempt EXCEPT !.pc = "bundled", !.listing = disk.listing, !.lease = new]
      /\ UNCHANGED <<installed, registry, graph>>
      /\ worker' = [worker EXCEPT ![s] =
                      Cleaned([@ EXCEPT ![id] = [epoch |-> epoch, maps |-> NoMaps]], epochs')]
  BY DEF AnswerBundle, Opened
<1>2. /\ nextEpoch \in Nat /\ attempt \in Attempt /\ attempt.pc = "bundle" /\ ~Bundled
      /\ epochs \in [Ids -> 0..nextEpoch] /\ worker \in [Slots -> Worker(nextEpoch)]
      /\ disk.code \in Codes /\ attempt.evaluation \in Css \cup {NoMaps}
  BY DEF AnswerBundle, IInv, Jobs, TypeOK, Bundled, Attempt
<1>3. id \in Ids /\ id.maps = attempt.evaluation /\ epoch > nextEpoch
  BY <1>2 DEF Ids
<1> HIDE DEF id
<1>4. /\ attempt'.pc = "bundled" /\ attempt'.lease.id = id /\ attempt'.lease.epoch = epoch
      /\ attempt'.held = attempt.held /\ attempt'.maps = attempt.maps
      /\ attempt'.evaluation = attempt.evaluation
  BY <1>1, <1>2 DEF Attempt
<1>5. Alive' = Alive
  BY <1>1, <1>4 DEF Alive
<1>6. HeldByGraphs' /\ Newest' /\ Installed'
  BY <1>1, <1>4, <1>5 DEF Own, Lineage, HeldByGraphs, Newest, Installed
<1>7. Births'
  <2>1. \A b \in Alive : b.born < epoch /\ b.born <= epoch
    BY <1>2, AliveFacts DEF Own, Lineage, Births
  <2>2. epochs'[id] = epoch
    BY <1>1, <1>2, <1>3
  <2> QED
    BY <1>1, <1>4, <1>5, <2>1, <2>2 DEF Own, Lineage, Births
<1>8. Evaluations'
  BY <1>3, <1>4, <1>5 DEF Own, Lineage, Evaluations
<1> HIDE DEF epoch, new
<1>9. \A t \in Slots, i \in Ids :
        /\ worker[t][i].epoch \in 0..nextEpoch
        /\ i # id => epochs'[i] = epochs[i]
        /\ worker[t][i].epoch # epoch /\ epochs'[id] = epoch
  BY <1>1, <1>2, <1>3 DEF Worker, epoch
<1>10. ASSUME NEW t \in Slots PROVE
        /\ \A i \in Ids : worker'[t][i].maps = NoMaps \/ worker'[t][i] = worker[t][i]
        /\ worker'[t][id].epoch = epoch => worker'[t][id].maps = NoMaps
  <2>1. CASE t # s
    <3>1. worker'[t] = worker[t]
      BY <1>1, <1>2, <2>1
    <3> QED
      BY <1>3, <1>9, <3>1
  <2>2. CASE t = s
    <3> DEFINE w == [worker[s] EXCEPT ![id] = [epoch |-> epoch, maps |-> NoMaps]]
    <3>1. worker'[s] = Cleaned(w, epochs')
      BY <1>1, <1>2
    <3>2. \A i \in Ids : w[i] = IF i = id THEN [epoch |-> epoch, maps |-> NoMaps] ELSE worker[s][i]
      BY <1>2, <1>3 DEF Worker
    <3> HIDE DEF w
    <3>3. w[id].maps = NoMaps /\ \A i \in Ids : w[i].maps = NoMaps \/ w[i] = worker[s][i]
      BY <1>3, <3>2
    <3>4. \A i \in Ids : worker'[s][i] = w[i] \/ worker'[s][i].maps = NoMaps
      BY <3>1 DEF Cleaned, Unloaded
    <3> QED
      BY <1>3, <2>2, <3>3, <3>4
  <2> QED
    BY <2>1, <2>2
<1>11. ASSUME NEW t \in Slots PROVE Current(t)'
  <2>1. ASSUME NEW i \in Ids, worker'[t][i].maps # NoMaps, worker'[t][i].epoch = epochs'[i], epochs'[i] # 0
        PROVE  worker'[t][i].maps = installed[i]
    <3>1. worker'[t][i] = worker[t][i]
      BY <1>10, <2>1
    <3>2. i # id
      BY <1>9, <2>1, <3>1
    <3> QED
      BY <1>9, <2>1, <3>1, <3>2 DEF Own, Loaded, Current
  <2> QED
    BY <1>1, <1>4, <1>10, <2>1 DEF Current
<1>12. ASSUME NEW t \in Slots PROVE Serving(t)'
  <2>1. CASE t = s
    BY <2>1 DEF Serving, IInv, TypeOK
  <2>2. CASE t # s
    <3>1. worker'[t] = worker[t] /\ job'[t] = job[t]
      BY <1>1, <1>2, <2>2 DEF IInv, TypeOK
    <3> QED
      BY <1>1, <3>1 DEF Own, Loaded, Serving
  <2> QED
    BY <2>1, <2>2
<1> QED
  BY <1>6, <1>7, <1>8, <1>11, <1>12 DEF Own, Lineage, Loaded

\* Class maps are installed for a generation that has no living state.
LEMMA AnswerMapsOwn ==
    ASSUME IInv, Own, NEW s \in Slots, AnswerMaps(s), job[s] # NoJob,
           job' = [job EXCEPT ![s] = NoJob]
    PROVE  Own'
<1> USE NoConfusion
<1> DEFINE id == attempt.lease.id
           w  == [worker[s] EXCEPT ![id].maps = attempt.maps]
<1>1. attempt.pc = "maps" /\ JobId(s) = id /\ Bundled
  BY DEF AnswerMaps, IInv, Jobs, JobId, Describing, ServedBy, Bundled
<1>2. /\ installed' = [installed EXCEPT ![id] = attempt.maps]
      /\ worker' = [worker EXCEPT ![s] = Cleaned(w, epochs)]
      /\ attempt' = [attempt EXCEPT !.pc = "describe"]
      /\ UNCHANGED <<nextEpoch, epochs, registry, graph>>
  BY <1>1 DEF AnswerMaps
<1>3. /\ attempt \in Attempt /\ id \in Ids
      /\ installed \in [Ids -> Css \cup {NoMaps}] /\ worker \in [Slots -> Worker(nextEpoch)]
  BY <1>1, LeaseFacts DEF IInv, TypeOK
<1>4. /\ attempt'.pc = "describe" /\ attempt'.lease = attempt.lease
      /\ attempt'.held = attempt.held /\ attempt'.maps = attempt.maps
      /\ attempt'.evaluation = attempt.evaluation
  BY <1>2, <1>3 DEF Attempt
<1>5. Alive' = Alive
  BY <1>2, <1>4 DEF Alive
<1>6. States(id) = {} /\ nextEpoch = epochs[id]
      /\ \A b \in Alive : b.id # id /\ b.id \in Ids
  BY <1>1, AliveFacts DEF Own, Lineage, Installed, Births, States
<1>7. installed'[id] = attempt.maps /\ \A i \in Ids \ {id} : installed'[i] = installed[i]
  BY <1>2, <1>3
<1>8. \A i \in Ids : w[i] = IF i = id THEN [worker[s][i] EXCEPT !.maps = attempt.maps] ELSE worker[s][i]
  BY <1>3 DEF Worker
<1>9. w[id].maps = attempt.maps
  BY <1>3, <1>8 DEF Worker
<1>10. worker'[s] = Cleaned(w, epochs) /\ \A t \in Slots \ {s} : worker'[t] = worker[t]
  BY <1>2, <1>3
<1> HIDE DEF w
<1>11. \A t \in Slots, i \in Ids : worker'[t][i].maps = NoMaps \/ worker'[t][i] = worker[t][i]
                                   \/ (i = id /\ worker'[t][i].maps = attempt.maps)
  <2>1. \A i \in Ids : worker'[s][i] = w[i] \/ worker'[s][i].maps = NoMaps
    BY <1>10 DEF Cleaned, Unloaded
  <2> QED
    BY <1>8, <1>9, <1>10, <2>1
<1>12. HeldByGraphs' /\ Births' /\ Evaluations' /\ Newest'
  BY <1>1, <1>2, <1>4, <1>5 DEF Own, Lineage, HeldByGraphs, Births, Evaluations, Newest, Bundled
<1>13. Installed'
  BY <1>4, <1>5, <1>6, <1>7 DEF Own, Lineage, Installed, States
<1>14. ASSUME NEW t \in Slots PROVE Current(t)'
  <2>1. Current(t)
    BY DEF Own, Loaded
  <2>2. ASSUME NEW i \in Ids, worker'[t][i].maps # NoMaps, worker'[t][i].epoch = epochs[i], epochs[i] # 0
        PROVE  worker'[t][i].maps = installed'[i]
    <3>1. CASE i = id
      <4>1. worker'[t][i].maps = attempt.maps \/ worker'[t][i] = worker[t][i]
        BY <1>11, <2>2
      <4>2. worker'[t][i] = worker[t][i] => worker'[t][i].maps = NoMaps
        BY <1>1, <1>6, <2>1, <2>2, <3>1 DEF Current
      <4> QED
        BY <1>7, <2>2, <3>1, <4>1, <4>2
    <3>2. CASE i # id
      <4>1. worker'[t][i] = worker[t][i]
        BY <1>11, <2>2, <3>2
      <4> QED
        BY <1>7, <2>1, <2>2, <3>2, <4>1 DEF Current
    <3> QED
      BY <3>1, <3>2
  <2> QED
    BY <1>2, <1>4, <2>2 DEF Current
<1>15. ASSUME NEW t \in Slots PROVE Serving(t)'
  <2>1. CASE t = s
    BY <2>1 DEF Serving, IInv, TypeOK
  <2>2. CASE t # s
    <3>1. job'[t] = job[t]
      BY <2>2 DEF IInv, TypeOK
    <3> QED
      BY <1>2, <1>10, <2>2, <3>1 DEF Own, Loaded, Serving
  <2> QED
    BY <2>1, <2>2
<1> QED
  BY <1>12, <1>13, <1>14, <1>15 DEF Own, Lineage, Loaded

\* The describe call ends, and so does the request of its slot.
LEMMA LastRequest ==
    ASSUME IInv, Own, NEW s \in Slots, NEW w,
           w \in {Cleaned(worker[s], epochs), [i \in Ids |-> Unloaded]},
           worker' = [worker EXCEPT ![s] = w], job' = [job EXCEPT ![s] = NoJob],
           UNCHANGED <<nextEpoch, epochs, installed>>, attempt' = Idle,
           \A g \in Graphs : graph[g] # NoBundle => graph'[g] = graph[g]
    PROVE  Loaded'
<1> USE NoConfusion
<1>1. \A i \in Ids : w[i].maps = NoMaps \/ w[i] = worker[s][i]
  BY CleanedMaps DEF Unloaded
<1>2. /\ worker'[s] = w /\ \A t \in Slots \ {s} : worker'[t] = worker[t]
      /\ job'[s] = NoJob /\ \A t \in Slots \ {s} : job'[t] = job[t]
  BY DEF IInv, TypeOK
<1>3. \A t \in Slots, i \in Ids : worker'[t][i].maps = NoMaps \/ worker'[t][i] = worker[t][i]
  BY <1>1, <1>2
<1> SUFFICES ASSUME NEW t \in Slots PROVE Current(t)' /\ Serving(t)'
  BY DEF Loaded
<1>4. Current(t) /\ Serving(t)
  BY DEF Own, Loaded
<1>5. Current(t)'
  BY <1>3, <1>4 DEF Current, Idle
<1>6. job[t] # NoJob /\ job[t].by \in Graphs => graph[job[t].by] # NoBundle
  BY DEF IInv, Jobs
<1>7. Serving(t)'
  BY <1>2, <1>4, <1>6 DEF Serving
<1> QED
  BY <1>5, <1>7

LEMMA AnswerDescribeOwn ==
    ASSUME IInv, Own, NEW s \in Slots, AnswerDescribe(s), job[s] # NoJob,
           job' = [job EXCEPT ![s] = NoJob]
    PROVE  Own'
<1> USE NoConfusion
<1> DEFINE b == [id |-> attempt.lease.id, epoch |-> attempt.lease.epoch, maps |-> attempt.maps,
                 listing |-> attempt.listing, born |-> attempt.lease.epoch]
<1>1. /\ attempt.pc = "describe" /\ Bundled /\ Conclude(b)
      /\ UNCHANGED <<nextEpoch, epochs, installed>>
      /\ worker' = [worker EXCEPT ![s] = Cleaned(worker[s], epochs)]
  BY DEF AnswerDescribe, IInv, Jobs, Bundled, pool
<1>2. /\ attempt.lease \in Lease /\ attempt.maps \in Css /\ attempt.listing \in Listings
  BY <1>1, LeaseFacts DEF IInv, TypeOK, Attempts, Attempt
<1>3. b \in Bundle /\ b.id = attempt.lease.id /\ b.born = attempt.lease.epoch /\ b.maps = attempt.maps
  BY <1>2 DEF Bundle, Lease
<1> HIDE DEF b
<1>4. installed[b.id] = b.maps /\ (b.id.maps # NoMaps => b.maps = b.id.maps)
  BY <1>1, <1>3 DEF Own, Lineage, Installed, Evaluations
<1>5. /\ Lineage' /\ attempt' = Idle
      /\ \A g \in Graphs : graph[g] # NoBundle => graph'[g] = graph[g]
  BY <1>1, <1>3, <1>4, ConcludeOwn DEF Own
<1>6. Loaded'
  BY <1>1, <1>5, LastRequest
<1> QED
  BY <1>5, <1>6 DEF Own

LEMMA FailOwn ==
    ASSUME IInv, Own, NEW s \in Slots, Fail(s), Describing(s)
    PROVE  Own'
<1>1. /\ GiveUp /\ UNCHANGED pool /\ UNCHANGED <<nextEpoch, epochs, installed>>
      /\ job' = [job EXCEPT ![s] = NoJob]
  BY DEF Fail, pool
<1>2. PICK w \in {Cleaned(worker[s], epochs), [i \in Ids |-> Unloaded]} :
         worker' = [worker EXCEPT ![s] = w]
  BY DEF Fail
<1>3. Lineage' /\ attempt' = Idle /\ UNCHANGED <<registry, graph>>
  BY <1>1, GiveUpOwn DEF Own
<1>4. Loaded'
  BY <1>1, <1>2, <1>3, LastRequest
<1> QED
  BY <1>3, <1>4 DEF Own

\* The youngest state of a generation goes last.
LEMMA DropOwn ==
    ASSUME IInv, Own, OldestFirst, BetweenAttempts, NEW g \in Graphs, Drop(g)
    PROVE  Own'
<1> USE NoConfusion
<1>1. /\ graph' = [graph EXCEPT ![g] = NoBundle] /\ ~Busy(g) /\ graph[g] # NoBundle
      /\ UNCHANGED <<nextEpoch, epochs, installed, worker, job, registry, attempt>>
      /\ attempt.pc = "idle" /\ attempt = Idle
      /\ \A b \in Alive : b.id = graph[g].id => b.born >= graph[g].born
  BY DEF Drop, pool, IInv, Attempts
<1>2. /\ Alive = {graph[h] : h \in Graphs} \ {NoBundle}
      /\ Alive' = {graph'[h] : h \in Graphs} \ {NoBundle}
      /\ graph[g] \in Alive /\ attempt.held = {} /\ ~Bundled
  BY <1>1, HeldAlive, AliveFacts DEF Own, Alive, Idle, Bundled
<1>3. /\ Alive' \subseteq Alive
      /\ \A b \in Alive : b # graph[g] => b \in Alive'
  BY <1>1, <1>2 DEF IInv, TypeOK
<1>4. HeldByGraphs'
  BY <1>1, <1>2 DEF HeldByGraphs
<1>5. Births' /\ Evaluations' /\ Installed'
  BY <1>1, <1>2, <1>3 DEF Own, Lineage, Births, Evaluations, Installed, Bundled, Idle
<1>6. Newest'
  <2>1. ASSUME NEW b \in Alive' PROVE registry[b.id] \in Alive' /\ b.born <= registry[b.id].born
    <3>1. b \in Alive /\ registry[b.id] \in Alive /\ b.born <= registry[b.id].born
      BY <1>3, <2>1 DEF Own, Lineage, Newest
    <3>2. CASE registry[b.id] = graph[g]
      <4>1. b.id \in Ids /\ registry[b.id].id = b.id
        BY <3>1, <3>2, <1>1, AliveFacts DEF Own, Lineage, Newest
      <4>2. b.born \in Nat /\ graph[g].born \in Nat /\ b.born >= graph[g].born
        BY <1>1, <1>2, <3>1, <3>2, <4>1, AliveFacts
      <4>3. b.born = graph[g].born
        BY <3>1, <3>2, <4>2
      <4>4. b = graph[g]
        BY <1>2, <3>1, <3>2, <4>1, <4>3 DEF Own, Lineage, Births
      <4> QED
        BY <2>1, <3>1, <3>2, <4>4
    <3>3. CASE registry[b.id] # graph[g]
      BY <1>3, <3>1, <3>3
    <3> QED
      BY <3>2, <3>3
  <2> QED
    BY <1>1, <2>1 DEF Own, Lineage, Newest
<1>7. ASSUME NEW s \in Slots PROVE Current(s)' /\ Serving(s)'
  <2>1. Current(s) /\ Serving(s)
    BY DEF Own, Loaded
  <2>2. Current(s)'
    BY <1>1, <2>1 DEF Current
  <2>3. job[s] # NoJob => job[s].by # g
    BY <1>1 DEF Busy, ServedBy
  <2>4. Serving(s)'
    BY <1>1, <2>1, <2>3 DEF Serving, IInv, TypeOK
  <2> QED
    BY <2>2, <2>4
<1> QED
  BY <1>4, <1>5, <1>6, <1>7 DEF Own, Lineage, Loaded

LEMMA ReleaseOwn ==
    ASSUME IInv, Own, NEW l \in Lease, Release(l)
    PROVE  Own'
<1> USE NoConfusion
<1> DEFINE last == leases[l.id] = {l.epoch}
<1>1. /\ l \in dying /\ l \notin Owned /\ l.id \in Ids
      /\ epochs' = IF last THEN [epochs EXCEPT ![l.id] = 0] ELSE epochs
      /\ installed' = IF last THEN [installed EXCEPT ![l.id] = NoMaps] ELSE installed
      /\ UNCHANGED <<nextEpoch, worker, job, registry, graph, attempt>>
  BY DEF Release, IInv, DyingUnowned, Lease
<1>2. \A k \in Owned : k.id = l.id => ~last
  <2> SUFFICES ASSUME NEW k \in Owned, k.id = l.id, last PROVE FALSE
    OBVIOUS
  <2>1. k = [id |-> k.id, epoch |-> k.epoch] /\ k.epoch \in Epochs
        /\ l = [id |-> l.id, epoch |-> l.epoch]
    BY OwnedTypes DEF IInv, Lease
  <2>2. k.epoch \in leases[l.id]
    BY <1>1, <2>1 DEF IInv, LeasesExact
  <2> QED BY <1>1, <2>1, <2>2
<1>3. CASE ~last
  <2>1. UNCHANGED <<nextEpoch, epochs, installed, registry, graph, attempt, worker, job>>
    BY <1>1, <1>3
  <2>2. Lineage' /\ Alive' = Alive
    BY <2>1, LineageStays DEF Own, Alive
  <2>3. Loaded'
    BY <2>1, <2>2 DEF Own, Loaded, Current, Serving, States
  <2> QED
    BY <2>2, <2>3 DEF Own
<1>4. CASE last
  <2>1. /\ epochs'[l.id] = 0 /\ \A i \in Ids \ {l.id} : epochs'[i] = epochs[i] /\ installed'[i] = installed[i]
    BY <1>1, <1>4 DEF IInv, TypeOK
  <2>2. \A b \in Alive : b.id # l.id /\ b.id \in Ids
    BY <1>2, <1>4, OwnedTypes, AliveFacts DEF IInv
  <2>3. Bundled => attempt.lease.id # l.id /\ attempt.lease.id \in Ids
    BY <1>2, <1>4, LeaseFacts
  <2>4. Alive' = Alive
    BY <1>1 DEF Alive
  <2> HIDE DEF last
  <2>5. HeldByGraphs' /\ Evaluations' /\ Newest'
    BY <1>1, <2>4 DEF Own, Lineage, HeldByGraphs, Evaluations, Newest, Bundled
  <2>6. Births'
    BY <1>1, <2>1, <2>3, <2>4 DEF Own, Lineage, Births, Bundled
  <2>7. Installed'
    BY <1>1, <2>1, <2>2, <2>3, <2>4 DEF Own, Lineage, Installed, Bundled, States
  <2>8. ASSUME NEW s \in Slots PROVE Current(s)' /\ Serving(s)'
    <3>1. Current(s) /\ Serving(s)
      BY DEF Own, Loaded
    <3>2. Current(s)'
      BY <1>1, <2>1, <2>4, <3>1 DEF Current, States
    <3>3. Serving(s)'
      BY <1>1, <3>1 DEF Serving
    <3> QED
      BY <3>2, <3>3
  <2> QED
    BY <2>5, <2>6, <2>7, <2>8 DEF Own, Lineage, Loaded
<1> QED
  BY <1>3, <1>4

LEMMA InitOwn == Init => Own
<1> SUFFICES ASSUME Init PROVE Own
  OBVIOUS
<1>1. Alive = {} /\ ~Bundled
  BY DEF Init, Alive, Bundled, Idle
<1>2. Lineage
  BY <1>1 DEF Init, Lineage, HeldByGraphs, Births, Evaluations, Newest, Installed, Bundled, Idle
<1>3. Loaded
  BY DEF Init, Loaded, Current, Serving, Unloaded, Idle
<1> QED
  BY <1>2, <1>3 DEF Own

LEMMA NextOwn == ASSUME OldestFirst, BetweenAttempts, IInv, Own, [Next]_vars PROVE Own'
<1>1. CASE Edit \/ UNCHANGED vars
  <2>1. UNCHANGED <<nextEpoch, epochs, installed, registry, graph, attempt, worker, job>>
    BY <1>1 DEF Edit, vars, pool, runtime
  <2>2. Lineage' /\ Alive' = Alive
    BY <2>1, LineageStays DEF Own, Alive
  <2>3. Loaded'
    BY <2>1, <2>2 DEF Own, Loaded, Current, Serving, States
  <2> QED
    BY <2>2, <2>3 DEF Own
<1>2. ASSUME NEW g \in Graphs, Lookup(g) \/ Drop(g) PROVE Own'
  BY <1>2, LookupOwn, DropOwn
<1>3. CASE Check
  BY <1>3, CheckOwn
<1>4. ASSUME NEW s \in Slots,
             \/ StartDescriber(s) \/ (\E g \in Graphs : StartGraph(s, g))
             \/ Prepare(s) \/ Answer(s) \/ Fail(s) \/ Crash(s) \/ CleanIdle(s)
      PROVE  Own'
  <2>1. CASE Answer(s)
    BY <2>1, AnswerBundleOwn, AnswerMapsOwn, AnswerDescribeOwn, RequestEnds DEF Answer
  <2>2. CASE Fail(s)
    BY <2>2, FailOwn, RequestEnds
  <2> QED BY <1>4, <2>1, <2>2, StartOwn, PrepareOwn, RequestEnds
<1>5. ASSUME NEW l \in Lease, Release(l) PROVE Own'
  BY <1>5, ReleaseOwn
<1> QED BY <1>1, <1>2, <1>3, <1>4, <1>5 DEF Next

\* Where the graphs of a generation end in the order they came and none ends while a
\* describe call is under way, each render runs with the class maps of its graph
\* (bundle.rs:1); each of the two conditions is needed.
THEOREM OwnMapsRendered == ASSUME OldestFirst, BetweenAttempts PROVE Spec => []RendersOwnMaps
<1>1. Init => IInv /\ Own
  BY InitInvariant, InitOwn
<1>2. (IInv /\ Own) /\ [Next]_vars => (IInv /\ Own)'
  BY NextInvariant, NextOwn
<1>3. IInv /\ Own => RendersOwnMaps
  <2> SUFFICES ASSUME IInv, Own, NEW s \in Slots, job[s] # NoJob, job[s].kind = "render",
                      job[s].phase = "inflight"
               PROVE  worker[s][JobId(s)].maps = graph[job[s].by].maps
    BY DEF RendersOwnMaps
  <2>1. job[s] \in Job /\ job[s].by # Describer
    BY DEF IInv, TypeOK, Jobs
  <2>2. job[s].by \in Graphs /\ JobId(s) = graph[job[s].by].id
    BY <2>1 DEF Job, JobId, Describing, ServedBy
  <2>3. Serving(s)
    BY DEF Own, Loaded
  <2> QED
    BY <2>2, <2>3 DEF Serving
<1> QED
  BY <1>1, <1>2, <1>3, PTL DEF Spec
=============================================================================
