------------------------- MODULE OutputTransaction -------------------------
(* `mokly build` and the output it replaces: admission, reservation, staging,   *)
(* capture, installation, rollback and disposal (crates/mokly-static and        *)
(* mokly-cli/src/static_build.rs), run by processes that know of each other     *)
(* only through the disk, while other programs change the outputs (not the      *)
(* reservation namespace), signals arrive, file operations fail and processes   *)
(* die.  All outputs share a parent, and so the namespace.                      *)
EXTENDS Naturals, FiniteSets

CONSTANTS
    Writers,     \* build processes; also the identities of the stages they make
    Foreign,     \* identities of the other directories (and links)
    Outputs,     \* resolved output paths beside each other
    Target,      \* the output of each build
    MaxForeign,  \* bound: changes other programs make
    MaxFaults,   \* bound: file operations, and shutdowns of sidecars, that fail
    MaxCrashes,  \* bound: processes killed
    None, Unseen

Dirs == Writers \cup Foreign

ASSUME TransactionAssumption ==
    /\ Writers \cap Foreign = {}
    /\ None \notin Dirs \cup {"failed", "cancelled"} /\ Unseen \notin Dirs \cup {None}
    /\ Target \in [Writers -> Outputs]
    /\ MaxForeign \in Nat /\ MaxFaults \in Nat /\ MaxCrashes \in Nat

VARIABLES
    output,      \* what each output path names
    entries,     \* what each directory holds; a link has the entry "link"
    namespace,   \* .mokly-export-reservations: "bare" until it has its .owner
    holder,      \* who made the reservation of an output
    stage, backup,     \* the directories inside that reservation
    pc,
    identity,    \* the directory found at open
    eye,         \* the directory a check has read the identity of
    list,        \* the files disposal may delete
    primary,     \* the failure an operation ends with
    installed,   \* the builds past the commit rename
    signals,     \* per process: 1 requests cancellation, 2 a forced exit
    made,        \* identities in use so far
    foreign, faults, crashes

disk == <<output, entries, namespace, holder, stage, backup, made>>
locals == <<pc, identity, eye, list, primary, installed>>
bounds == <<foreign, faults, crashes>>
vars == <<disk, locals, signals, bounds>>

\* The inventory: its files, and the marker that lists them.
Site == {"listed", "marker"}

Shapes == {{}, Site, {"unlisted"}, {"link"}}

Checks == {"open", "reopen", "protect", "check", "captured", "dispose"}

\* Mutant of Unprotected: the protection of an output ends with the admission.
UnprotectedInstall ==
    {"start", "render", "protect", "stage", "write", "settle", "enter",
     "check", "capture", "captured", "commit", "restore"}

Unprotected == {"start", "render", "protect", "stage", "write", "settle", "enter"}
Ended == {"done", "failed", "cancelled", "reserved", "namespace",
          "recovery", "installed", "forced", "gone"}
Steps == Checks \cup Unprotected \cup Ended \cup
         {"found", "owner", "reserve", "mark", "capture", "commit", "restore",
          "unlink", "rmdir", "cleanup", "release"}

Init ==
    /\ output \in [Outputs -> Foreign \cup {None}]
    /\ \A o, p \in Outputs : output[o] = output[p] /\ output[o] # None => o = p
    /\ made = {output[o] : o \in Outputs} \ {None}
    /\ \E shape \in [Outputs -> Shapes] :
         entries = [d \in Dirs |->
           IF d \in made THEN shape[CHOOSE o \in Outputs : output[o] = d] ELSE {}]
    /\ namespace \in {"absent", "owned"}
    /\ holder = [o \in Outputs |-> None]
    /\ stage = [o \in Outputs |-> None]
    /\ backup = [o \in Outputs |-> None]
    /\ pc = [w \in Writers |-> "start"]
    /\ identity = [w \in Writers |-> None]
    /\ eye = [w \in Writers |-> Unseen]
    /\ list = [w \in Writers |-> {}]
    /\ primary = [w \in Writers |-> None]
    /\ installed = {}
    /\ signals = [w \in Writers |-> 0]
    /\ foreign = 0 /\ faults = 0 /\ crashes = 0

-----------------------------------------------------------------------------
Requested(w) == signals[w] > 0

Goto(w, step) == pc' = [pc EXCEPT ![w] = step]
Fails(w, step) ==
    /\ primary' = [primary EXCEPT ![w] = "failed"]
    /\ Goto(w, step)
Cancels(w, step) ==
    /\ primary' = [primary EXCEPT ![w] = "cancelled"]
    /\ Goto(w, step)

Fine == UNCHANGED faults
Faulty == faults < MaxFaults /\ faults' = faults + 1

Linked(d) == d # None /\ "link" \in entries[d]

\* The entries of a directory are allowed: none, or the marker and what it lists.
Owned(d) == entries[d] = {} \/ ("marker" \in entries[d] /\ entries[d] \subseteq Site)

\* The path a check is about.
Place(w) ==
    IF pc[w] \in {"captured", "dispose"} THEN backup[Target[w]] ELSE output[Target[w]]

-----------------------------------------------------------------------------
(* Admission and reservation                                                   *)

Admit(w) ==
    /\ pc[w] = "start"
    /\ Goto(w, IF Requested(w) THEN "cancelled" ELSE "open")
    /\ UNCHANGED <<disk, identity, eye, list, primary, installed, signals, bounds>>

\* A check fails.
Refuse(w) ==
    CASE pc[w] = "open"     -> Fails(w, "failed")
      [] pc[w] = "protect"  -> Fails(w, "settle")
      [] pc[w] = "captured" -> Fails(w, "restore")
      [] pc[w] = "dispose"  -> UNCHANGED primary /\ Goto(w, "installed")
      [] OTHER              -> Fails(w, "cleanup")

\* A check first reads which directory is there ...
Look(w) ==
    /\ pc[w] \in Checks /\ eye[w] = Unseen /\ ~Linked(Place(w))
    /\ eye' = [eye EXCEPT ![w] = Place(w)]
    /\ identity' = IF pc[w] = "open" THEN [identity EXCEPT ![w] = Place(w)] ELSE identity
    /\ UNCHANGED <<disk, pc, list, primary, installed, signals, bounds>>

\* ... and then what is in it, which by then may be another one.
\* The mutant AcceptedByContents compares no identities.
AcceptedByContents(w) ==
    /\ eye[w] # None => Place(w) # None /\ Owned(Place(w))
    /\ (eye[w] = None) = (identity[w] = None)
    /\ pc[w] = "dispose" => eye[w] # None

Accepted(w) ==
    /\ eye[w] # None => Place(w) # None /\ Owned(Place(w))
    /\ eye[w] = identity[w]
    /\ pc[w] = "dispose" => eye[w] # None

After == [open |-> "found", reopen |-> "render", protect |-> "stage",
          check |-> "capture", captured |-> "commit", dispose |-> "unlink"]

Accept(w) ==
    /\ pc[w] \in Checks /\ eye[w] # Unseen /\ Accepted(w)
    /\ Goto(w, After[pc[w]])
    /\ eye' = [eye EXCEPT ![w] = Unseen]
    /\ list' = IF pc[w] = "dispose" THEN [list EXCEPT ![w] = entries[Place(w)]] ELSE list
    /\ UNCHANGED <<disk, identity, primary, installed, signals, bounds>>

Reject(w) ==
    /\ pc[w] \in Checks
    /\ \/ Faulty
       \/ Fine /\ eye[w] = Unseen /\ Linked(Place(w))
       \/ Fine /\ eye[w] # Unseen /\ ~Accepted(w)
    /\ Refuse(w)
    /\ eye' = [eye EXCEPT ![w] = Unseen]
    /\ UNCHANGED <<disk, identity, list, installed, signals, foreign, crashes>>

Found(w) ==
    /\ pc[w] = "found"
    /\ \/ /\ namespace = "absent" /\ Fine
          /\ namespace' = "bare"
          /\ Goto(w, "owner")
       \/ /\ namespace = "absent" /\ Faulty
          /\ Goto(w, "namespace")
          /\ UNCHANGED namespace
       \/ /\ namespace # "absent" /\ Fine
          /\ Goto(w, IF namespace = "owned" THEN "reserve" ELSE "namespace")
          /\ UNCHANGED namespace
    /\ UNCHANGED <<output, entries, holder, stage, backup, made, identity, eye, list,
                   primary, installed, signals, foreign, crashes>>

WriteOwner(w) ==
    /\ pc[w] = "owner"
    /\ \/ Fine /\ namespace' = "owned" /\ Goto(w, "reserve")
       \/ Faulty /\ UNCHANGED namespace /\ Goto(w, "failed")
    /\ UNCHANGED <<output, entries, holder, stage, backup, made, identity, eye, list,
                   primary, installed, signals, foreign, crashes>>

Reserve(w) ==
    /\ pc[w] = "reserve"
    /\ \/ /\ holder[Target[w]] = None /\ Fine
          /\ holder' = [holder EXCEPT ![Target[w]] = w]
          /\ Goto(w, "mark")
       \/ /\ (holder[Target[w]] # None /\ Fine) \/ Faulty
          /\ Goto(w, "reserved")
          /\ UNCHANGED holder
    /\ UNCHANGED <<output, entries, namespace, stage, backup, made, identity, eye, list,
                   primary, installed, signals, foreign, crashes>>

Mark(w) ==
    /\ pc[w] = "mark"
    /\ \/ Fine /\ UNCHANGED primary /\ Goto(w, "reopen")
       \/ Faulty /\ Fails(w, "cleanup")
    /\ UNCHANGED <<disk, identity, eye, list, installed, signals, foreign, crashes>>

-----------------------------------------------------------------------------
(* Preparation: nothing is protected from a forced exit                        *)

\* The whole catalogue is rendered; anything the consumer wrote may fail.
Render(w) ==
    /\ pc[w] = "render"
    /\ (UNCHANGED primary /\ Goto(w, "protect")) \/ Fails(w, "settle")
    /\ UNCHANGED <<disk, identity, eye, list, installed, signals, bounds>>

MakeStage(w) ==
    /\ pc[w] = "stage"
    /\ \/ /\ Fine
          /\ stage' = [stage EXCEPT ![Target[w]] = w]
          /\ made' = made \cup {w}
          /\ Goto(w, "write") /\ UNCHANGED primary
       \/ Faulty /\ Fails(w, "settle") /\ UNCHANGED <<stage, made>>
    /\ UNCHANGED <<output, entries, namespace, holder, backup, identity, eye, list,
                   installed, signals, foreign, crashes>>

WriteFile(w) ==
    /\ pc[w] = "write"
    /\ \/ /\ ~Requested(w) /\ Fine
          /\ entries' = [entries EXCEPT ![w] = IF @ = {} THEN {"listed"} ELSE Site]
          /\ Goto(w, IF entries[w] = {} THEN "write" ELSE "settle")
          /\ UNCHANGED primary
       \/ ~Requested(w) /\ Faulty /\ Fails(w, "settle") /\ UNCHANGED entries
       \/ Requested(w) /\ Fine /\ Cancels(w, "settle") /\ UNCHANGED entries
    /\ UNCHANGED <<output, namespace, holder, stage, backup, made, identity, eye, list,
                   installed, signals, foreign, crashes>>

\* Delivered signals turn any outcome into a cancellation; the sidecars stop.
Settle(w) ==
    /\ pc[w] = "settle"
    /\ Goto(w, "enter")
    /\ \/ Fine /\ primary' = [primary EXCEPT ![w] = IF Requested(w) THEN "cancelled" ELSE @]
       \/ Faulty /\ primary' = [primary EXCEPT
                      ![w] = IF Requested(w) THEN "cancelled" ELSE "failed"]
    /\ UNCHANGED <<disk, identity, eye, list, installed, signals, foreign, crashes>>

\* protect_output: too late when a forced exit has been requested.
Enter(w) ==
    /\ pc[w] = "enter"
    /\ Goto(w, IF signals[w] = 2 THEN "forced"
               ELSE IF primary[w] = None THEN "check" ELSE "cleanup")
    /\ UNCHANGED <<disk, identity, eye, list, primary, installed, signals, bounds>>

-----------------------------------------------------------------------------
(* Installation                                                                *)

Capture(w) ==
    LET o == Target[w] IN
    /\ pc[w] = "capture"
    /\ \/ /\ Requested(w) /\ Fine
          /\ Cancels(w, "cleanup")
          /\ UNCHANGED <<output, backup>>
       \/ /\ ~Requested(w) /\ identity[w] = None /\ Fine
          /\ Goto(w, "commit")
          /\ UNCHANGED <<output, backup, primary>>
       \/ /\ ~Requested(w) /\ identity[w] # None /\ output[o] # None /\ Fine
          /\ backup' = [backup EXCEPT ![o] = output[o]]
          /\ output' = [output EXCEPT ![o] = None]
          /\ Goto(w, "captured")
          /\ UNCHANGED primary
       \/ /\ ~Requested(w) /\ identity[w] # None
          /\ (output[o] = None /\ Fine) \/ Faulty
          /\ Fails(w, "cleanup")
          /\ UNCHANGED <<output, backup>>
    /\ UNCHANGED <<entries, namespace, holder, stage, made, identity, eye, list,
                   installed, signals, foreign, crashes>>

\* Cancellation is asked about once more, but only where there is something to restore.
Commit(w) ==
    LET o == Target[w]
        stopped == identity[w] # None /\ Requested(w)
        undone == IF identity[w] # None THEN "restore" ELSE "cleanup"
    IN
    /\ pc[w] = "commit"
    /\ \/ /\ ~stopped /\ output[o] = None /\ Fine
          /\ output' = [output EXCEPT ![o] = w]
          /\ stage' = [stage EXCEPT ![o] = None]
          /\ installed' = installed \cup {w}
          /\ Goto(w, IF identity[w] # None THEN "dispose" ELSE "cleanup")
          /\ UNCHANGED primary
       \/ /\ ~stopped
          /\ (output[o] # None /\ Fine) \/ Faulty
          /\ Fails(w, undone)
          /\ UNCHANGED <<output, stage, installed>>
       \/ /\ stopped /\ Fine
          /\ Cancels(w, undone)
          /\ UNCHANGED <<output, stage, installed>>
    /\ UNCHANGED <<entries, namespace, holder, backup, made, identity, eye, list,
                   signals, foreign, crashes>>

Restore(w) ==
    LET o == Target[w] IN
    /\ pc[w] = "restore"
    /\ \/ /\ ~Linked(backup[o]) /\ output[o] = None /\ Fine
          /\ output' = [output EXCEPT ![o] = backup[o]]
          /\ backup' = [backup EXCEPT ![o] = None]
          /\ Goto(w, "cleanup")
       \/ /\ ((Linked(backup[o]) \/ output[o] # None) /\ Fine) \/ Faulty
          /\ Goto(w, "recovery")
          /\ UNCHANGED <<output, backup>>
    /\ UNCHANGED <<entries, namespace, holder, stage, made, identity, eye, list, primary,
                   installed, signals, foreign, crashes>>

\* dispose: the files as listed, the marker last, ...
Unlink(w) ==
    LET entry == IF "listed" \in list[w] THEN "listed" ELSE "marker" IN
    /\ pc[w] = "unlink"
    /\ \/ /\ list[w] # {} /\ Fine
          /\ list' = [list EXCEPT ![w] = @ \ {entry}]
          /\ entries' = [entries EXCEPT ![backup[Target[w]]] = @ \ {entry}]
          /\ UNCHANGED pc
       \/ list[w] = {} /\ Fine /\ Goto(w, "rmdir") /\ UNCHANGED <<list, entries>>
       \/ Faulty /\ Goto(w, "installed") /\ UNCHANGED <<list, entries>>
    /\ UNCHANGED <<output, namespace, holder, stage, backup, made, identity, eye,
                   primary, installed, signals, foreign, crashes>>

\* ... and the directory if nothing else is in it.
Rmdir(w) ==
    LET o == Target[w] IN
    /\ pc[w] = "rmdir"
    /\ \/ /\ entries[backup[o]] = {} /\ Fine
          /\ backup' = [backup EXCEPT ![o] = None]
          /\ Goto(w, "cleanup")
       \/ /\ (entries[backup[o]] # {} /\ Fine) \/ Faulty
          /\ Goto(w, "installed")
          /\ UNCHANGED backup
    /\ UNCHANGED <<output, entries, namespace, holder, stage, made, identity, eye, list,
                   primary, installed, signals, foreign, crashes>>

-----------------------------------------------------------------------------
(* abandon, and the end of a failed or finished installation                   *)

\* Mutant of Retained: whether the new site is in place is not told.
RetainedAlike(w) == Goto(w, "recovery")

\* What remains after a clean-up that failed is named.
Retained(w) == Goto(w, IF w \in installed THEN "installed" ELSE "recovery")

Cleanup(w) ==
    LET o == Target[w] IN
    /\ pc[w] = "cleanup"
    /\ \/ /\ backup[o] = None /\ Fine
          /\ stage' = [stage EXCEPT ![o] = None]
          /\ entries' = IF stage[o] = w THEN [entries EXCEPT ![w] = {}] ELSE entries
          /\ Goto(w, "release")
       \/ /\ (backup[o] # None /\ Fine) \/ Faulty
          /\ Retained(w)
          /\ UNCHANGED <<stage, entries>>
    /\ UNCHANGED <<output, namespace, holder, backup, made, identity, eye, list,
                   primary, installed, signals, foreign, crashes>>

Release(w) ==
    /\ pc[w] = "release"
    /\ \/ /\ Fine
          /\ holder' = [holder EXCEPT ![Target[w]] = None]
          /\ Goto(w, IF w \in installed THEN "done" ELSE primary[w])
       \/ Faulty /\ Retained(w) /\ UNCHANGED holder
    /\ UNCHANGED <<output, entries, namespace, stage, backup, made, identity, eye, list,
                   primary, installed, signals, foreign, crashes>>

-----------------------------------------------------------------------------
(* Signals, crashes, other programs                                            *)

Interrupt(w) ==
    /\ pc[w] \notin Ended /\ signals[w] < 2
    /\ signals' = [signals EXCEPT ![w] = @ + 1]
    /\ UNCHANGED <<disk, locals, bounds>>

\* A forced exit waits until no output is protected.
ForcedExit(w) ==
    /\ signals[w] = 2 /\ pc[w] \in Unprotected
    /\ Goto(w, "forced")
    /\ UNCHANGED <<disk, identity, eye, list, primary, installed, signals, bounds>>

Crash(w) ==
    /\ crashes < MaxCrashes /\ pc[w] \notin Ended
    /\ crashes' = crashes + 1
    /\ Goto(w, "gone")
    /\ UNCHANGED <<disk, identity, eye, list, primary, installed, signals, foreign, faults>>

Others ==
    /\ foreign < MaxForeign
    /\ foreign' = foreign + 1
    /\ UNCHANGED <<namespace, holder, stage, backup, locals, signals, faults, crashes>>

Appear(o, d, shape) ==
    /\ output[o] = None /\ d \notin made
    /\ output' = [output EXCEPT ![o] = d]
    /\ entries' = [entries EXCEPT ![d] = shape]
    /\ made' = made \cup {d}
    /\ Others

Leave(o) ==
    /\ output[o] # None
    /\ output' = [output EXCEPT ![o] = None]
    /\ UNCHANGED <<entries, made>>
    /\ Others

\* A program that works inside a directory keeps at it where it is moved.
Extend(d) ==
    /\ \E o \in Outputs : d = output[o] \/ d = backup[o]
    /\ d # None /\ ~Linked(d)
    /\ entries' = [entries EXCEPT ![d] = @ \cup {"unlisted"}]
    /\ UNCHANGED <<output, made>>
    /\ Others

-----------------------------------------------------------------------------
Step(w) ==
    \/ Admit(w) \/ Look(w) \/ Accept(w) \/ Reject(w)
    \/ Found(w) \/ WriteOwner(w) \/ Reserve(w) \/ Mark(w)
    \/ Render(w) \/ MakeStage(w) \/ WriteFile(w) \/ Settle(w) \/ Enter(w)
    \/ Capture(w) \/ Commit(w) \/ Restore(w) \/ Unlink(w) \/ Rmdir(w)
    \/ Cleanup(w) \/ Release(w)

Next ==
    \/ \E w \in Writers : Step(w) \/ Interrupt(w) \/ ForcedExit(w) \/ Crash(w)
    \/ \E o \in Outputs :
         Leave(o) \/ \E d \in Foreign, shape \in Shapes : Appear(o, d, shape)
    \/ \E d \in Dirs : Extend(d)

Spec == Init /\ [][Next]_vars

-----------------------------------------------------------------------------
\* Every variable stays within its type and every counter within its bound.
TypeOK ==
    /\ output \in [Outputs -> Dirs \cup {None}]
    /\ entries \in [Dirs -> SUBSET (Site \cup {"unlisted", "link"})]
    /\ namespace \in {"absent", "bare", "owned"}
    /\ holder \in [Outputs -> Writers \cup {None}]
    /\ stage \in [Outputs -> Writers \cup {None}]
    /\ backup \in [Outputs -> Dirs \cup {None}]
    /\ pc \in [Writers -> Steps]
    /\ identity \in [Writers -> Dirs \cup {None}]
    /\ eye \in [Writers -> Dirs \cup {None, Unseen}]
    /\ list \in [Writers -> SUBSET Site]
    /\ primary \in [Writers -> {None, "failed", "cancelled"}]
    /\ installed \subseteq Writers
    /\ signals \in [Writers -> 0 .. 2]
    /\ made \subseteq Dirs
    /\ foreign \in 0 .. MaxForeign /\ faults \in 0 .. MaxFaults /\ crashes \in 0 .. MaxCrashes

\* The directory that counts: the one set aside, until the new one is in place.
Current(o) ==
    IF output[o] # None THEN output[o]
    ELSE IF holder[o] # None /\ holder[o] \notin installed THEN backup[o] ELSE None

Sites == INSTANCE SiteReplacement WITH
    current <- [o \in Outputs |-> Current(o)],
    base <- identity,
    content <- entries,
    replaced <- {identity[w] : w \in installed} \ {None},
    foreign <- foreign

\* A build replaces exactly the directory it validated when it began, by a complete
\* site, and deletes from it only what its inventory lists; nothing else it does, and
\* no crash, takes away what a reader or the recovery would find (docs: "initial
\* absence never authorizes a directory that appears later"; "Unlisted additions
\* ... survive for recovery").
SitesSpec == Sites!Spec

\* An outcome says what is left: "Recovery" and "Installed" name a reservation that is
\* still there, the others leave none of their own; and the new site is in place after
\* "Installed" and a success, and after no other outcome.
OutcomesTrue ==
    \A w \in Writers :
      /\ pc[w] \in {"recovery", "installed"} => holder[Target[w]] = w
      /\ pc[w] \in {"done", "failed", "cancelled", "reserved", "namespace"} =>
           holder[Target[w]] # w
      /\ pc[w] \in Ended \ {"gone"} =>
           (w \in installed <=> pc[w] \in {"done", "installed"})

\* A second interruption never finds the site set aside: what a forced exit leaves
\* behind is at most a reservation with a stage.
ForcedExitsSettled ==
    \A w \in Writers :
      pc[w] = "forced" /\ holder[Target[w]] = w =>
        backup[Target[w]] = None /\ w \notin installed

\* docs/protocol/mokly-export-safety.md: "Builds into distinct destinations never
\* conflict."
DistinctNeverConflict ==
    \A w \in Writers :
      pc[w] = "namespace" => \E v \in Writers \ {w} : Target[v] = Target[w]
=============================================================================
