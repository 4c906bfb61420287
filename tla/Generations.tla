---------------------------- MODULE Generations ----------------------------
(***************************************************************************)
(* The life of a bundle generation, from crates/mokly-render (describe,    *)
(* the weak registry of bundle states, the leases) through the pool of     *)
(* crates/mokly-sidecar (epochs, leases, class maps, replay into workers). *)
(*                                                                         *)
(* A generation is JavaScript compiled under an evaluation digest; its id  *)
(* is derived from both, so compiling the same sources again gives the     *)
(* same id.  The CSS Modules class maps are no part of the compilation:    *)
(* they are installed afterwards, and graphs that render with the same id  *)
(* share them.  Every Bundle request opens a lifetime (an epoch) of its    *)
(* id; workers dispose what they loaded in another epoch.                  *)
(*                                                                         *)
(* The queue, crashes of more than one process and the stop calls are the  *)
(* subject of SidecarPool.  Descriptions and bindings are replayed into a  *)
(* worker as class maps are, and only their presence in the pool is kept.  *)
(***************************************************************************)
EXTENDS Naturals, FiniteSets

CONSTANTS
    Graphs,      \* names for rebuild attempts and the graphs they become
    Slots,       \* pool slots
    Codes,       \* what the JavaScript modules may contain
    Listings,    \* what the directories consulted by resolution may list
    Css,         \* the class maps the CSS Modules may compile to
    NoMaps, NoBundle, NoLease, NoJob, Describer,
    MaxEpoch,    \* bound: Bundle requests answered in a behaviour
    OldestFirst, \* graphs of one generation end in the order they came
    BetweenAttempts \* no graph ends while a describe call is under way

\* compiled.ts generationId: the compilation and the evaluation digest, which
\* covers the settings (one here) and the class maps that were known before.
Ids == [code : Codes, maps : Css \cup {NoMaps}]

Epochs == 1..MaxEpoch

\* What a worker has loaded of each generation, in lifetimes up to n; epoch 0 is
\* nothing.
Worker(n) == [Ids -> [epoch : 0..n, maps : Css \cup {NoMaps}]]

\* BundleState: lease.id and lease.epoch, class_maps_digest and the stamp.  Born
\* tells two objects apart that share a lease.
Bundle == [id : Ids, epoch : Epochs, maps : Css, listing : Listings, born : Epochs]

Lease == [id : Ids, epoch : Epochs]

\* The describe call: the graph it is for, class_maps, the evaluation digest, the
\* states its lookup upgraded, the lease of the last Bundle and its stamp.
Attempt == [pc : {"idle", "bundle", "bundled", "maps", "describe"},
            by : Graphs \cup {NoBundle}, maps : Css \cup {NoMaps},
            evaluation : Css \cup {NoMaps}, held : SUBSET Bundle,
            lease : Lease \cup {NoLease}, listing : Listings \cup {NoBundle}]

Job == [by : Graphs \cup {Describer}, phase : {"prepare", "inflight"},
        kind : {"bundle", "maps", "describe", "bindings", "render"}]

ASSUME GenerationsAssumption ==
    /\ MaxEpoch \in Nat /\ OldestFirst \in BOOLEAN /\ BetweenAttempts \in BOOLEAN
    /\ NoMaps \notin Css /\ Describer \notin Graphs
    /\ NoBundle \notin Bundle /\ NoLease \notin Lease /\ NoJob \notin Job

VARIABLES
    disk,                  \* the working tree
    nextEpoch, epochs, leases, installed, bound,   \* pool State
    worker,                \* per slot and id: epoch and class maps loaded
    job,                   \* per slot: the request it serves
    registry,              \* Runtime::bundles, weak
    graph, ready,          \* what each graph holds; whether it may render
    attempt,               \* the describe call under way (one at a time)
    dying                  \* leases whose last owner is gone, not yet released

pool    == <<nextEpoch, epochs, leases, installed, bound>>
runtime == <<registry, graph, ready, attempt, dying>>
vars    == <<disk, pool, worker, job, runtime>>

Idle == [pc |-> "idle", by |-> NoBundle, maps |-> NoMaps, evaluation |-> NoMaps,
         held |-> {}, lease |-> NoLease, listing |-> NoBundle]

Unloaded == [epoch |-> 0, maps |-> NoMaps]

-----------------------------------------------------------------------------
(* Ownership *)

LeaseOf(b) == [id |-> b.id, epoch |-> b.epoch]

\* The bundle states somebody owns; a Weak upgrades to these and no others.
Alive == ({graph[g] : g \in Graphs} \ {NoBundle}) \cup attempt.held

\* The leases somebody owns.
Owned == {LeaseOf(b) : b \in Alive} \cup ({attempt.lease} \ {NoLease})

\* An action that drops owners ends with this: a lease without an owner is
\* released by its Drop, which runs later than the last owner is gone.
DropUnowned == dying' = dying \cup (Owned \ Owned')

\* pool_cleanup::cleanup: worker w without what belongs to no current epoch.
Cleaned(w, eps) ==
    [i \in Ids |-> IF w[i].epoch = eps[i] THEN w[i] ELSE Unloaded]

\* RestoreGeneration, if the worker does not have i: Preparation::snapshot.
WithCode(w, i) ==
    IF w[i].epoch # 0 THEN w ELSE [w EXCEPT ![i] = [epoch |-> epochs[i], maps |-> NoMaps]]

\* CssModules, if the worker has no class maps of i: only presence is compared.
WithMaps(w, i) ==
    IF w[i].maps # NoMaps THEN w ELSE [w EXCEPT ![i].maps = installed[i]]

\* seed_compilation: the latest retained generation of the same settings.
Latest == {i \in Ids : leases[i] # {} /\ \A j \in Ids : leases[j] # {} => epochs[j] <= epochs[i]}

-----------------------------------------------------------------------------
Init ==
    /\ disk \in [code : Codes, listing : Listings, css : Css]
    /\ nextEpoch = 0
    /\ epochs = [i \in Ids |-> 0]
    /\ leases = [i \in Ids |-> {}]
    /\ installed = [i \in Ids |-> NoMaps]
    /\ bound = {}
    /\ worker = [s \in Slots |-> [i \in Ids |-> Unloaded]]
    /\ job = [s \in Slots |-> NoJob]
    /\ registry = [i \in Ids |-> NoBundle]
    /\ graph = [g \in Graphs |-> NoBundle]
    /\ ready = [g \in Graphs |-> FALSE]
    /\ attempt = Idle
    /\ dying = {}

\* The author saves a file at any moment.
Edit ==
    /\ disk' \in [code : Codes, listing : Listings, css : Css]
    /\ disk' # disk
    /\ UNCHANGED <<pool, worker, job, runtime>>

-----------------------------------------------------------------------------
(* bundle::describe, under Runtime::describing *)

\* The registered states whose compiled inputs are still current.
Candidates ==
    {b \in {registry[i] : i \in Ids} \cap Alive :
        b.listing = disk.listing /\ b.id.code = disk.code}

\* A candidate with the class maps of now is used again; else they become part
\* of the evaluation of a new bundle.
Lookup(g) ==
    /\ attempt.pc = "idle" /\ graph[g] = NoBundle
    /\ nextEpoch + 2 <= MaxEpoch
    /\ \/ /\ \E b \in Candidates : b.maps = disk.css /\ graph' = [graph EXCEPT ![g] = b]
          /\ UNCHANGED <<attempt>>
       \/ /\ \A b \in Candidates : b.maps # disk.css
          /\ attempt' = [Idle EXCEPT
                            !.pc = "bundle", !.by = g, !.held = Candidates,
                            !.maps = IF Candidates = {} THEN NoMaps ELSE disk.css,
                            !.evaluation = IF Candidates = {} THEN NoMaps ELSE disk.css]
          /\ UNCHANGED graph
    /\ UNCHANGED <<disk, pool, worker, job, registry, ready, dying>>

\* The graph gets the state and the attempt's own references go.
Conclude(b) ==
    /\ registry' = [registry EXCEPT ![b.id] = b]
    /\ graph' = [graph EXCEPT ![attempt.by] = b]
    /\ attempt' = Idle
    /\ DropUnowned
    /\ UNCHANGED ready

GiveUp ==
    /\ attempt' = Idle
    /\ UNCHANGED <<registry, graph, ready>>
    /\ DropUnowned

\* After a bundle: an existing state of the same id with other class maps needs
\* an evaluation of its own, one with the same maps lends its lease to a new
\* state, and without one the class maps are installed.
Check ==
    LET id    == attempt.lease.id
        maps  == IF attempt.maps = NoMaps THEN disk.css ELSE attempt.maps
        alive == {registry[id]} \cap Alive
        other == {b \in alive : b.maps # maps}
    IN  /\ attempt.pc = "bundled"
        /\ \/ /\ other # {} /\ attempt.evaluation # maps
              /\ attempt' = [attempt EXCEPT !.pc = "bundle", !.maps = maps, !.evaluation = maps]
              /\ UNCHANGED <<registry, graph, ready, dying>>
           \/ /\ other = {} \/ attempt.evaluation = maps
              /\ \E b \in alive :
                   Conclude([b EXCEPT !.maps = maps, !.listing = attempt.listing,
                                      !.born = attempt.lease.epoch])
           \/ /\ alive = {}
              /\ attempt' = [attempt EXCEPT !.pc = "maps", !.maps = maps]
              /\ UNCHANGED <<registry, graph, ready, dying>>
           \/ /\ attempt.maps = NoMaps       \* a stylesheet does not compile
              /\ GiveUp
        /\ UNCHANGED <<disk, pool, worker, job>>

-----------------------------------------------------------------------------
(* A request in the pool: acquire and cleanup, prepare, the exchange *)

Start(s, by, kind) ==
    /\ job[s] = NoJob
    /\ job' = [job EXCEPT ![s] = [by |-> by, kind |-> kind, phase |-> "prepare"]]
    /\ worker' = [worker EXCEPT ![s] = Cleaned(@, epochs)]
    /\ UNCHANGED <<disk, pool, runtime>>

ServedBy(s, by) == job[s] # NoJob /\ job[s].by = by

Busy(by) == \E s \in Slots : ServedBy(s, by)

Describing(s) == ServedBy(s, Describer)

\* describe's next request, one after the other.
StartDescriber(s) ==
    /\ attempt.pc \in {"bundle", "maps", "describe"}
    /\ ~Busy(Describer)
    /\ Start(s, Describer, attempt.pc)

\* JavaScriptGraph::graph requests Bindings, then the graph renders at will.
StartGraph(s, g) ==
    /\ graph[g] # NoBundle
    /\ \/ /\ ready[g]
          /\ Start(s, g, "render")
       \/ /\ ~ready[g] /\ ~Busy(g)
          /\ Start(s, g, "bindings")

JobId(s) == IF Describing(s) THEN attempt.lease.id ELSE graph[job[s].by].id

\* Preparation::snapshot under the lock, then the replay of what is missing.
Prepare(s) ==
    LET w == worker[s] IN
    /\ job[s] # NoJob /\ job[s].phase = "prepare"
    /\ job' = [job EXCEPT ![s].phase = "inflight"]
    /\ \/ /\ job[s].kind = "bundle"
          /\ worker' = [worker EXCEPT ![s] = IF Latest = {} THEN w
                                             ELSE WithCode(w, CHOOSE i \in Latest : TRUE)]
       \/ /\ job[s].kind = "maps"
          /\ worker' = [worker EXCEPT ![s] = WithCode(w, JobId(s))]
       \/ /\ job[s].kind \in {"describe", "bindings", "render"}
          /\ worker' = [worker EXCEPT ![s] = WithMaps(WithCode(w, JobId(s)), JobId(s))]
    /\ UNCHANGED <<disk, pool, runtime>>

\* The epoch of the next lifetime.
Opened == nextEpoch + 1

\* Bundle: the compiler reads the disk, and the pool opens a lifetime.
AnswerBundle(s) ==
    LET id    == [code |-> disk.code, maps |-> attempt.evaluation]
        epoch == Opened
    IN  /\ job[s].kind = "bundle"
        /\ nextEpoch' = epoch
        /\ epochs' = [epochs EXCEPT ![id] = epoch]
        /\ leases' = [leases EXCEPT ![id] = @ \cup {epoch}]
        /\ worker' = [worker EXCEPT ![s] =
                         Cleaned([@ EXCEPT ![id] = [epoch |-> epoch, maps |-> NoMaps]], epochs')]
        /\ attempt' = [attempt EXCEPT !.pc = "bundled", !.listing = disk.listing,
                                      !.lease = [id |-> id, epoch |-> epoch]]
        /\ UNCHANGED <<installed, bound, registry, graph, ready>>
        /\ DropUnowned

AnswerMaps(s) ==
    /\ job[s].kind = "maps"
    /\ installed' = [installed EXCEPT ![JobId(s)] = attempt.maps]
    /\ worker' = [worker EXCEPT ![s] = Cleaned([@ EXCEPT ![JobId(s)].maps = attempt.maps], epochs)]
    /\ attempt' = [attempt EXCEPT !.pc = "describe"]
    /\ UNCHANGED <<nextEpoch, epochs, leases, bound, registry, graph, ready, dying>>

AnswerDescribe(s) ==
    /\ job[s].kind = "describe"
    /\ Conclude([id |-> attempt.lease.id, epoch |-> attempt.lease.epoch, maps |-> attempt.maps,
                 listing |-> attempt.listing, born |-> attempt.lease.epoch])
    /\ worker' = [worker EXCEPT ![s] = Cleaned(@, epochs)]
    /\ UNCHANGED pool

AnswerGraph(s) ==
    /\ job[s].kind \in {"bindings", "render"}
    /\ \/ /\ job[s].kind = "bindings"
          /\ bound' = bound \cup {JobId(s)}
          /\ ready' = [ready EXCEPT ![job[s].by] = TRUE]
       \/ /\ job[s].kind = "render"
          /\ UNCHANGED <<bound, ready>>
    /\ worker' = [worker EXCEPT ![s] = Cleaned(@, epochs)]
    /\ UNCHANGED <<nextEpoch, epochs, leases, installed, registry, graph, attempt, dying>>

Answer(s) ==
    /\ job[s] # NoJob /\ job[s].phase = "inflight"
    /\ AnswerBundle(s) \/ AnswerMaps(s) \/ AnswerDescribe(s) \/ AnswerGraph(s)
    /\ job' = [job EXCEPT ![s] = NoJob]
    /\ UNCHANGED disk

\* An error the worker survives, or one that costs it, ends the request.
Fail(s) ==
    /\ job[s] # NoJob
    /\ \E w \in {Cleaned(worker[s], epochs), [i \in Ids |-> Unloaded]} :
         worker' = [worker EXCEPT ![s] = w]
    /\ \/ /\ Describing(s)
          /\ GiveUp
       \/ /\ ~Describing(s)
          /\ UNCHANGED runtime
    /\ job' = [job EXCEPT ![s] = NoJob]
    /\ UNCHANGED <<disk, pool>>

\* A crash or timeout, and the retry on a new process.
Crash(s) ==
    /\ job[s] # NoJob
    /\ worker' = [worker EXCEPT ![s] = [i \in Ids |-> Unloaded]]
    /\ job' = [job EXCEPT ![s].phase = "prepare"]
    /\ UNCHANGED <<disk, pool, runtime>>

\* The release thread cleans an idle worker.
CleanIdle(s) ==
    /\ job[s] = NoJob
    /\ worker[s] # Cleaned(worker[s], epochs)
    /\ worker' = [worker EXCEPT ![s] = Cleaned(@, epochs)]
    /\ UNCHANGED <<disk, pool, job, runtime>>

-----------------------------------------------------------------------------
(* The end of a graph and of a lease *)

\* The last user of graph g is gone: it failed to prepare, or a newer one
\* replaced it and no request uses it any more.
Drop(g) ==
    /\ graph[g] # NoBundle
    /\ ~Busy(g)
    /\ OldestFirst => \A b \in Alive : b.id = graph[g].id => b.born >= graph[g].born
    /\ BetweenAttempts => attempt.pc = "idle"
    /\ graph' = [graph EXCEPT ![g] = NoBundle]
    /\ ready' = [ready EXCEPT ![g] = FALSE]
    /\ UNCHANGED <<disk, pool, worker, job, registry, attempt>>
    /\ DropUnowned

\* Mistake: one release ends the generation whoever else has leased it.
ReleaseAll(l) ==
    /\ l \in dying
    /\ dying' = dying \ {l}
    /\ leases' = [leases EXCEPT ![l.id] = {}]
    /\ epochs' = [epochs EXCEPT ![l.id] = 0]
    /\ installed' = [installed EXCEPT ![l.id] = NoMaps]
    /\ bound' = bound \ {l.id}
    /\ UNCHANGED <<disk, nextEpoch, worker, job, registry, graph, ready, attempt>>

\* Mistake: class maps and bindings go with the epoch that installed them.
ReleaseCurrent(l) ==
    LET last == leases[l.id] = {l.epoch} IN
    /\ l \in dying
    /\ dying' = dying \ {l}
    /\ leases' = [leases EXCEPT ![l.id] = @ \ {l.epoch}]
    /\ epochs' = IF last THEN [epochs EXCEPT ![l.id] = 0] ELSE epochs
    /\ installed' = IF epochs[l.id] = l.epoch THEN [installed EXCEPT ![l.id] = NoMaps] ELSE installed
    /\ bound' = IF epochs[l.id] = l.epoch THEN bound \ {l.id} ELSE bound
    /\ UNCHANGED <<disk, nextEpoch, worker, job, registry, graph, ready, attempt>>

\* record_release: the last lease of a generation takes everything with it.
Release(l) ==
    LET last == leases[l.id] = {l.epoch} IN
    /\ l \in dying
    /\ dying' = dying \ {l}
    /\ leases' = [leases EXCEPT ![l.id] = @ \ {l.epoch}]
    /\ epochs' = IF last THEN [epochs EXCEPT ![l.id] = 0] ELSE epochs
    /\ installed' = IF last THEN [installed EXCEPT ![l.id] = NoMaps] ELSE installed
    /\ bound' = IF last THEN bound \ {l.id} ELSE bound
    /\ UNCHANGED <<disk, nextEpoch, worker, job, registry, graph, ready, attempt>>

-----------------------------------------------------------------------------
Next ==
    \/ Edit
    \/ \E g \in Graphs : Lookup(g) \/ Drop(g)
    \/ Check
    \/ \E s \in Slots :
         \/ StartDescriber(s) \/ (\E g \in Graphs : StartGraph(s, g))
         \/ Prepare(s) \/ Answer(s) \/ Fail(s) \/ Crash(s) \/ CleanIdle(s)
    \/ \E l \in Lease : Release(l)

Spec == Init /\ [][Next]_vars

-----------------------------------------------------------------------------
(* Properties *)

TypeOK ==
    /\ disk \in [code : Codes, listing : Listings, css : Css]
    /\ nextEpoch \in 0..MaxEpoch
    /\ epochs \in [Ids -> 0..nextEpoch]
    /\ leases \in [Ids -> SUBSET (1..nextEpoch)]
    /\ installed \in [Ids -> Css \cup {NoMaps}]
    /\ bound \in SUBSET Ids
    /\ worker \in [Slots -> Worker(nextEpoch)]
    /\ job \in [Slots -> Job \cup {NoJob}]
    /\ registry \in [Ids -> Bundle \cup {NoBundle}]
    /\ graph \in [Graphs -> Bundle \cup {NoBundle}]
    /\ ready \in [Graphs -> BOOLEAN]
    /\ attempt \in Attempt
    /\ dying \in SUBSET Lease

\* The pool retains a generation for exactly the leases that exist: a lease that
\* is owned, or whose release is on its way, keeps it, and nothing else does, so
\* nothing a graph renders with is gone and nothing leaks when the last ends.
LeasesExact ==
    \A i \in Ids : leases[i] = {e \in Epochs : [id |-> i, epoch |-> e] \in Owned \cup dying}

\* What Preparation::snapshot indexes is there: whoever owns a described state
\* has class maps, and a graph that renders has bindings, in the pool.
PrerequisitesKept ==
    \A g \in Graphs : graph[g] # NoBundle =>
        /\ epochs[graph[g].id] # 0
        /\ installed[graph[g].id] # NoMaps
        /\ ready[g] => graph[g].id \in bound

\* A render runs with the class maps of its graph ("isolate class maps across
\* retained graphs", bundle.rs:1), whatever worker serves it.
RendersOwnMaps ==
    \A s \in Slots :
        job[s] # NoJob /\ job[s].kind = "render" /\ job[s].phase = "inflight"
        => worker[s][JobId(s)].maps = graph[job[s].by].maps
=============================================================================
