---------------------- MODULE OutputAndUpload_proofs ----------------------
(***************************************************************************)
(* Theorems about what a build puts in place and what `mokly publish` does *)
(* with it: OutputTransaction, for any number of builds, outputs, other    *)
(* directories, faults and crashes; and UploadExchange, for any numbers of *)
(* commands, contents, requests at a time and attempts.                    *)
(***************************************************************************)
EXTENDS OutputTransaction, UploadExchange, TLAPS

-----------------------------------------------------------------------------
(* The inductive invariant *)

\* Steps before a build has a stage of its own, with its reservation and the earlier
\* site in its place, with the earlier site perhaps set aside, past the commit.
Fresh == {"start", "open", "found", "owner", "reserve", "mark", "reopen", "render",
          "protect", "stage"}
Plain == {"mark", "reopen", "render", "protect", "stage", "write", "settle", "enter",
          "check", "capture", "cleanup", "release"}
Moved == {"captured", "commit", "restore", "dispose", "unlink", "rmdir", "recovery",
          "installed"}
Past == {"dispose", "unlink", "rmdir", "done", "installed"}
Holding == Plain \cup Moved

\* The stage is complete.
Ready(w) ==
    \/ pc[w] \in {"check", "capture", "captured", "commit"}
    \/ pc[w] \in {"settle", "enter"} /\ primary[w] = None

\* What a build has set aside, and what it knows of it.
HoldsOf(w) ==
    /\ pc[w] \in Holding => holder[Target[w]] = w
    /\ pc[w] \in Plain => backup[Target[w]] = None
    /\ pc[w] = "commit" => backup[Target[w]] = identity[w]
    /\ pc[w] \in {"dispose", "unlink", "rmdir"} =>
         backup[Target[w]] = identity[w] /\ identity[w] # None
    /\ pc[w] \in {"captured", "restore"} => backup[Target[w]] # None /\ identity[w] # None
    /\ pc[w] \in {"capture", "commit"} => eye[w] = Unseen
    /\ pc[w] \in {"captured", "dispose"} /\ eye[w] # Unseen => eye[w] = backup[Target[w]]

\* How far it has come.
PhaseOf(w) ==
    /\ pc[w] \in Fresh => w \notin made
    /\ pc[w] \in Past => w \in installed
    /\ pc[w] \notin Past \cup {"cleanup", "release", "gone"} => w \notin installed
    /\ pc[w] = "restore" \/ (pc[w] \in {"cleanup", "release"} /\ w \notin installed) =>
         primary[w] # None

\* What it has staged.
StagedOf(w) ==
    /\ Ready(w) => stage[Target[w]] = w /\ entries[w] = Site
    /\ pc[w] = "write" => stage[Target[w]] = w /\ entries[w] \in {{}, {"listed"}}
    /\ pc[w] = "release" => stage[Target[w]] = None

StepOf(w) == HoldsOf(w) /\ PhaseOf(w) /\ StagedOf(w)

\* What is in a reservation, and whose it is.
ReservationOf(o) ==
    /\ holder[o] = None => backup[o] = None /\ stage[o] = None
    /\ holder[o] # None =>
         /\ Target[holder[o]] = o
         /\ pc[holder[o]] \in Holding \cup {"forced", "gone"}
         /\ pc[holder[o]] = "forced" => backup[o] = None
    /\ stage[o] # None => stage[o] = holder[o] /\ stage[o] \in made \ installed

\* A directory is in one place; what a build stages is in none before it is installed.
Places ==
    /\ \A o \in Outputs : output[o] \in made \cup {None} /\ backup[o] \in made \cup {None}
    /\ \A o, p \in Outputs : output[o] = output[p] /\ output[o] # None => o = p
    /\ \A o, p \in Outputs : backup[o] = backup[p] /\ backup[o] # None => o = p
    /\ \A o, p \in Outputs : output[o] # None => output[o] # backup[p]
    /\ \A w \in Writers : w \notin installed =>
         /\ \A o \in Outputs : output[o] # w /\ backup[o] # w
         /\ \A v \in Writers : identity[v] # w
    /\ \A w \in Writers : w \notin made => entries[w] = {}

IInv ==
    /\ TypeOK
    /\ \A w \in Writers : StepOf(w)
    /\ \A o \in Outputs : ReservationOf(o)
    /\ Places

-----------------------------------------------------------------------------
(* The invariant is inductive *)

\* Who holds a reservation is alone with what is in it.
LEMMA HoldersDiffer == ASSUME IInv, NEW v \in Writers, NEW w \in Writers, v # w,
                              pc[v] \in Holding, pc[w] \in Holding
    PROVE Target[v] # Target[w]
BY TransactionAssumption DEF IInv, StepOf, HoldsOf

\* What one build does to its own reservation leaves every other build where it is.
LEMMA OthersKeep ==
    ASSUME IInv, NEW w \in Writers,
           \A v \in Writers : v # w => /\ pc'[v] = pc[v] /\ identity'[v] = identity[v]
                                       /\ eye'[v] = eye[v] /\ primary'[v] = primary[v],
           \A o \in Outputs : o # Target[w] =>
               holder'[o] = holder[o] /\ backup'[o] = backup[o] /\ stage'[o] = stage[o],
           \/ holder[Target[w]] = w
           \/ /\ holder[Target[w]] = None \/ holder'[Target[w]] = holder[Target[w]]
              /\ backup'[Target[w]] = backup[Target[w]] /\ stage'[Target[w]] = stage[Target[w]],
           \A v \in Writers : v # w => /\ v \in made' <=> v \in made
                                       /\ v \in installed' <=> v \in installed,
           \A v \in Writers : v # w /\ v \notin installed => entries'[v] = entries[v]
    PROVE \A v \in Writers : v # w => StepOf(v)'
<1> USE TransactionAssumption DEF IInv
<1> SUFFICES ASSUME NEW v \in Writers, v # w PROVE StepOf(v)'
  OBVIOUS
<1>1. HoldsOf(v) /\ PhaseOf(v) /\ StagedOf(v) /\ v # None /\ Target[v] \in Outputs
  BY DEF StepOf, Dirs
<1>2. pc[v] \in Holding => /\ holder[Target[v]] = v /\ holder'[Target[v]] = v
                           /\ backup'[Target[v]] = backup[Target[v]]
                           /\ stage'[Target[v]] = stage[Target[v]]
  BY <1>1 DEF HoldsOf
<1>3. Ready(v) \/ pc[v] = "write" => v \notin installed /\ pc[v] \in Holding
  BY <1>1 DEF PhaseOf, Ready, Past, Holding, Plain, Moved
<1>4. Ready(v)' <=> Ready(v)
  BY DEF Ready
<1>5. HoldsOf(v)'
  BY <1>1, <1>2 DEF HoldsOf, Holding, Plain, Moved
<1>6. PhaseOf(v)'
  <2>1. (v \in made' <=> v \in made) /\ (v \in installed' <=> v \in installed)
    OBVIOUS
  <2>2. pc'[v] = pc[v] /\ primary'[v] = primary[v]
    OBVIOUS
  <2> QED
    BY <1>1, <2>1, <2>2 DEF PhaseOf
<1>7. StagedOf(v)'
  BY <1>1, <1>2, <1>3, <1>4 DEF StagedOf, Holding, Plain
<1> QED
  BY <1>5, <1>6, <1>7 DEF StepOf

LEMMA AdmitInv == ASSUME IInv, NEW w \in Writers, Admit(w) PROVE IInv'
<1> USE TransactionAssumption DEF IInv, Admit, Goto, Fails, Cancels, Fine, Faulty, Retained, Place, disk, locals, bounds
<1>0. /\ HoldsOf(w) /\ PhaseOf(w) /\ StagedOf(w) /\ ReservationOf(Target[w])
      /\ Target[w] \in Outputs /\ w # None
  BY DEF StepOf, Dirs
<1>1. TypeOK'
  BY DEF TypeOK, Steps, Checks, Unprotected, Ended, Dirs, Site
<1>2. HoldsOf(w)'
  BY <1>0 DEF HoldsOf, TypeOK, Plain, Moved, Holding
<1>3. PhaseOf(w)'
  BY <1>0 DEF PhaseOf, TypeOK, Fresh, Past
<1>4. StagedOf(w)'
  BY <1>0 DEF StagedOf, PhaseOf, TypeOK, Ready, Fresh, Places
<1>5. \A v \in Writers : v # w => StepOf(v)'
  <2>1. \A v \in Writers : v # w => /\ pc'[v] = pc[v] /\ identity'[v] = identity[v]
                                    /\ eye'[v] = eye[v] /\ primary'[v] = primary[v]
    BY DEF TypeOK
  <2>2. \A o \in Outputs : o # Target[w] =>
            holder'[o] = holder[o] /\ backup'[o] = backup[o] /\ stage'[o] = stage[o]
    BY DEF TypeOK
  <2>3. \/ holder[Target[w]] = w
        \/ /\ holder[Target[w]] = None \/ holder'[Target[w]] = holder[Target[w]]
           /\ backup'[Target[w]] = backup[Target[w]] /\ stage'[Target[w]] = stage[Target[w]]
    BY <1>0 DEF HoldsOf, Holding, Plain, Moved
  <2>4. \A v \in Writers : v # w => (v \in made' <=> v \in made) /\ (v \in installed' <=> v \in installed)
    OBVIOUS
  <2>5. \A v \in Writers : v # w /\ v \notin installed => entries'[v] = entries[v]
    BY <1>0 DEF TypeOK, Places, Dirs
  <2> QED
    BY <2>1, <2>2, <2>3, <2>4, <2>5, OthersKeep
<1>6. \A o \in Outputs : ReservationOf(o)'
  BY <1>0 DEF ReservationOf, HoldsOf, PhaseOf, TypeOK, Plain, Moved, Holding, Past
<1>7. Places'
  BY <1>0 DEF Places, HoldsOf, PhaseOf, StagedOf, TypeOK, Fresh, Dirs
<1> QED
  BY <1>1, <1>2, <1>3, <1>4, <1>5, <1>6, <1>7 DEF StepOf

LEMMA LookInv == ASSUME IInv, NEW w \in Writers, Look(w) PROVE IInv'
<1> USE TransactionAssumption DEF IInv, Look, Goto, Fails, Cancels, Fine, Faulty, Retained, Place, disk, locals, bounds
<1>0. /\ HoldsOf(w) /\ PhaseOf(w) /\ StagedOf(w) /\ ReservationOf(Target[w])
      /\ Target[w] \in Outputs /\ w # None
  BY DEF StepOf, Dirs
<1>1. TypeOK'
  BY DEF TypeOK, Steps, Checks, Unprotected, Ended, Dirs, Site
<1>2. HoldsOf(w)'
  <2>1. pc[w] \notin {"capture", "commit"}
    BY DEF Checks
  <2> QED
    BY <1>0, <2>1 DEF HoldsOf, TypeOK, Plain, Moved, Holding
<1>3. PhaseOf(w)'
  BY <1>0 DEF PhaseOf, TypeOK, Fresh, Past
<1>4. StagedOf(w)'
  BY <1>0 DEF StagedOf, PhaseOf, TypeOK, Ready, Fresh, Places
<1>5. \A v \in Writers : v # w => StepOf(v)'
  <2>1. \A v \in Writers : v # w => /\ pc'[v] = pc[v] /\ identity'[v] = identity[v]
                                    /\ eye'[v] = eye[v] /\ primary'[v] = primary[v]
    BY DEF TypeOK
  <2>2. \A o \in Outputs : o # Target[w] =>
            holder'[o] = holder[o] /\ backup'[o] = backup[o] /\ stage'[o] = stage[o]
    BY DEF TypeOK
  <2>3. \/ holder[Target[w]] = w
        \/ /\ holder[Target[w]] = None \/ holder'[Target[w]] = holder[Target[w]]
           /\ backup'[Target[w]] = backup[Target[w]] /\ stage'[Target[w]] = stage[Target[w]]
    BY <1>0 DEF HoldsOf, Holding, Plain, Moved
  <2>4. \A v \in Writers : v # w => (v \in made' <=> v \in made) /\ (v \in installed' <=> v \in installed)
    OBVIOUS
  <2>5. \A v \in Writers : v # w /\ v \notin installed => entries'[v] = entries[v]
    BY <1>0 DEF TypeOK, Places, Dirs
  <2> QED
    BY <2>1, <2>2, <2>3, <2>4, <2>5, OthersKeep
<1>6. \A o \in Outputs : ReservationOf(o)'
  BY <1>0 DEF ReservationOf, HoldsOf, PhaseOf, TypeOK, Plain, Moved, Holding, Past
<1>7. Places'
  BY <1>0 DEF Places, HoldsOf, PhaseOf, StagedOf, TypeOK, Fresh, Dirs
<1> QED
  BY <1>1, <1>2, <1>3, <1>4, <1>5, <1>6, <1>7 DEF StepOf

LEMMA AcceptInv == ASSUME IInv, NEW w \in Writers, Accept(w) PROVE IInv'
<1> USE TransactionAssumption DEF IInv, Accept, Goto, Fails, Cancels, Fine, Faulty, Retained, Place, disk, locals, bounds
<1>0. /\ HoldsOf(w) /\ PhaseOf(w) /\ StagedOf(w) /\ ReservationOf(Target[w])
      /\ Target[w] \in Outputs /\ w # None
  BY DEF StepOf, Dirs
<1>a. \/ pc[w] = "open" /\ pc' = [pc EXCEPT ![w] = "found"]
      \/ pc[w] = "reopen" /\ pc' = [pc EXCEPT ![w] = "render"]
      \/ pc[w] = "protect" /\ pc' = [pc EXCEPT ![w] = "stage"]
      \/ pc[w] = "check" /\ pc' = [pc EXCEPT ![w] = "capture"]
      \/ pc[w] = "captured" /\ pc' = [pc EXCEPT ![w] = "commit"]
      \/ pc[w] = "dispose" /\ pc' = [pc EXCEPT ![w] = "unlink"]
  <2>1. /\ After["open"] = "found" /\ After["reopen"] = "render" /\ After["protect"] = "stage"
        /\ After["check"] = "capture" /\ After["captured"] = "commit"
        /\ After["dispose"] = "unlink"
    BY DEF After
  <2> QED
    BY <2>1 DEF Checks
<1>b. pc[w] = "dispose" => entries[backup[Target[w]]] \subseteq Site
  BY <1>0 DEF Accepted, Owned
<1>c. pc[w] \in {"captured", "dispose"} => eye[w] = backup[Target[w]] /\ eye[w] = identity[w]
  BY <1>0 DEF Accepted, HoldsOf
<1>1. TypeOK'
  <2>1. pc' \in [Writers -> Steps]
    BY <1>a DEF TypeOK, Steps, Checks, Unprotected
  <2>2. list' \in [Writers -> SUBSET Site]
    BY <1>b DEF TypeOK
  <2> QED
    BY <2>1, <2>2 DEF TypeOK
<1>2. HoldsOf(w)'
  BY <1>0, <1>a, <1>c DEF HoldsOf, TypeOK, Plain, Moved, Holding
<1>3. PhaseOf(w)'
  BY <1>0, <1>a DEF PhaseOf, TypeOK, Fresh, Past
<1>4. StagedOf(w)'
  BY <1>0, <1>a DEF StagedOf, TypeOK, Ready
<1>5. \A v \in Writers : v # w => StepOf(v)'
  <2>1. \A v \in Writers : v # w => /\ pc'[v] = pc[v] /\ identity'[v] = identity[v]
                                    /\ eye'[v] = eye[v] /\ primary'[v] = primary[v]
    BY DEF TypeOK
  <2>2. \A o \in Outputs : o # Target[w] =>
            holder'[o] = holder[o] /\ backup'[o] = backup[o] /\ stage'[o] = stage[o]
    BY DEF TypeOK
  <2>3. \/ holder[Target[w]] = w
        \/ /\ holder[Target[w]] = None \/ holder'[Target[w]] = holder[Target[w]]
           /\ backup'[Target[w]] = backup[Target[w]] /\ stage'[Target[w]] = stage[Target[w]]
    BY <1>0 DEF HoldsOf, Holding, Plain, Moved
  <2>4. \A v \in Writers : v # w => (v \in made' <=> v \in made) /\ (v \in installed' <=> v \in installed)
    OBVIOUS
  <2>5. \A v \in Writers : v # w /\ v \notin installed => entries'[v] = entries[v]
    BY <1>0 DEF TypeOK, Places, Dirs
  <2> QED
    BY <2>1, <2>2, <2>3, <2>4, <2>5, OthersKeep
<1>6. \A o \in Outputs : ReservationOf(o)'
  BY <1>0, <1>a DEF ReservationOf, TypeOK, Plain, Moved, Holding
<1>7. Places'
  BY <1>0 DEF Places, HoldsOf, PhaseOf, StagedOf, TypeOK, Fresh, Dirs
<1> QED
  BY <1>1, <1>2, <1>3, <1>4, <1>5, <1>6, <1>7 DEF StepOf

LEMMA RejectInv == ASSUME IInv, NEW w \in Writers, Reject(w) PROVE IInv'
<1> USE TransactionAssumption DEF IInv, Reject, Goto, Fails, Cancels, Fine, Faulty, Retained, Place, disk, locals, bounds
<1>0. /\ HoldsOf(w) /\ PhaseOf(w) /\ StagedOf(w) /\ ReservationOf(Target[w])
      /\ Target[w] \in Outputs /\ w # None
  BY DEF StepOf, Dirs
<1>a. \/ pc[w] = "open" /\ pc' = [pc EXCEPT ![w] = "failed"]
      \/ pc[w] \in {"reopen", "check"} /\ pc' = [pc EXCEPT ![w] = "cleanup"]
      \/ pc[w] = "protect" /\ pc' = [pc EXCEPT ![w] = "settle"]
      \/ pc[w] = "captured" /\ pc' = [pc EXCEPT ![w] = "restore"]
      \/ pc[w] = "dispose" /\ pc' = [pc EXCEPT ![w] = "installed"] /\ primary' = primary
  BY DEF Checks, Refuse
<1>b. pc[w] # "dispose" => primary' = [primary EXCEPT ![w] = "failed"]
  BY DEF Checks, Refuse
<1>c. faults' \in 0 .. MaxFaults
  BY DEF TypeOK
<1>1. TypeOK'
  <2>1. pc' \in [Writers -> Steps]
    BY <1>a DEF TypeOK, Steps, Checks, Unprotected, Ended
  <2>2. primary' \in [Writers -> {None, "failed", "cancelled"}]
    BY <1>a, <1>b DEF TypeOK
  <2> QED
    BY <1>c, <2>1, <2>2 DEF TypeOK
<1>2. HoldsOf(w)'
  BY <1>0, <1>a DEF HoldsOf, TypeOK, Plain, Moved, Holding
<1>3. PhaseOf(w)'
  BY <1>0, <1>a, <1>b DEF PhaseOf, TypeOK, Fresh, Past
<1>4. StagedOf(w)'
  BY <1>0, <1>a, <1>b DEF StagedOf, TypeOK, Ready
<1>5. \A v \in Writers : v # w => StepOf(v)'
  <2>1. \A v \in Writers : v # w => /\ pc'[v] = pc[v] /\ identity'[v] = identity[v]
                                    /\ eye'[v] = eye[v] /\ primary'[v] = primary[v]
    BY <1>a, <1>b DEF TypeOK
  <2>2. \A o \in Outputs : o # Target[w] =>
            holder'[o] = holder[o] /\ backup'[o] = backup[o] /\ stage'[o] = stage[o]
    BY DEF TypeOK
  <2>3. \/ holder[Target[w]] = w
        \/ /\ holder[Target[w]] = None \/ holder'[Target[w]] = holder[Target[w]]
           /\ backup'[Target[w]] = backup[Target[w]] /\ stage'[Target[w]] = stage[Target[w]]
    BY <1>0 DEF HoldsOf, Holding, Plain, Moved
  <2>4. \A v \in Writers : v # w => (v \in made' <=> v \in made) /\ (v \in installed' <=> v \in installed)
    OBVIOUS
  <2>5. \A v \in Writers : v # w /\ v \notin installed => entries'[v] = entries[v]
    BY <1>0 DEF TypeOK, Places, Dirs
  <2> QED
    BY <2>1, <2>2, <2>3, <2>4, <2>5, OthersKeep
<1>6. \A o \in Outputs : ReservationOf(o)'
  BY <1>0, <1>a DEF ReservationOf, TypeOK, Plain, Moved, Holding
<1>7. Places'
  BY <1>0 DEF Places, HoldsOf, PhaseOf, StagedOf, TypeOK, Fresh, Dirs
<1> QED
  BY <1>1, <1>2, <1>3, <1>4, <1>5, <1>6, <1>7 DEF StepOf

LEMMA FoundInv == ASSUME IInv, NEW w \in Writers, Found(w) PROVE IInv'
<1> USE TransactionAssumption DEF IInv, Found, Goto, Fails, Cancels, Fine, Faulty, Retained, Place, disk, locals, bounds
<1>0. /\ HoldsOf(w) /\ PhaseOf(w) /\ StagedOf(w) /\ ReservationOf(Target[w])
      /\ Target[w] \in Outputs /\ w # None
  BY DEF StepOf, Dirs
<1>1. TypeOK'
  BY DEF TypeOK, Steps, Checks, Unprotected, Ended, Dirs, Site
<1>2. HoldsOf(w)'
  BY <1>0 DEF HoldsOf, TypeOK, Plain, Moved, Holding
<1>3. PhaseOf(w)'
  BY <1>0 DEF PhaseOf, TypeOK, Fresh, Past
<1>4. StagedOf(w)'
  BY <1>0 DEF StagedOf, PhaseOf, TypeOK, Ready, Fresh, Places
<1>5. \A v \in Writers : v # w => StepOf(v)'
  <2>1. \A v \in Writers : v # w => /\ pc'[v] = pc[v] /\ identity'[v] = identity[v]
                                    /\ eye'[v] = eye[v] /\ primary'[v] = primary[v]
    BY DEF TypeOK
  <2>2. \A o \in Outputs : o # Target[w] =>
            holder'[o] = holder[o] /\ backup'[o] = backup[o] /\ stage'[o] = stage[o]
    BY DEF TypeOK
  <2>3. \/ holder[Target[w]] = w
        \/ /\ holder[Target[w]] = None \/ holder'[Target[w]] = holder[Target[w]]
           /\ backup'[Target[w]] = backup[Target[w]] /\ stage'[Target[w]] = stage[Target[w]]
    BY <1>0 DEF HoldsOf, Holding, Plain, Moved
  <2>4. \A v \in Writers : v # w => (v \in made' <=> v \in made) /\ (v \in installed' <=> v \in installed)
    OBVIOUS
  <2>5. \A v \in Writers : v # w /\ v \notin installed => entries'[v] = entries[v]
    BY <1>0 DEF TypeOK, Places, Dirs
  <2> QED
    BY <2>1, <2>2, <2>3, <2>4, <2>5, OthersKeep
<1>6. \A o \in Outputs : ReservationOf(o)'
  BY <1>0 DEF ReservationOf, HoldsOf, PhaseOf, TypeOK, Plain, Moved, Holding, Past
<1>7. Places'
  BY <1>0 DEF Places, HoldsOf, PhaseOf, StagedOf, TypeOK, Fresh, Dirs
<1> QED
  BY <1>1, <1>2, <1>3, <1>4, <1>5, <1>6, <1>7 DEF StepOf

LEMMA WriteOwnerInv == ASSUME IInv, NEW w \in Writers, WriteOwner(w) PROVE IInv'
<1> USE TransactionAssumption DEF IInv, WriteOwner, Goto, Fails, Cancels, Fine, Faulty, Retained, Place, disk, locals, bounds
<1>0. /\ HoldsOf(w) /\ PhaseOf(w) /\ StagedOf(w) /\ ReservationOf(Target[w])
      /\ Target[w] \in Outputs /\ w # None
  BY DEF StepOf, Dirs
<1>1. TypeOK'
  BY DEF TypeOK, Steps, Checks, Unprotected, Ended, Dirs, Site
<1>2. HoldsOf(w)'
  BY <1>0 DEF HoldsOf, TypeOK, Plain, Moved, Holding
<1>3. PhaseOf(w)'
  BY <1>0 DEF PhaseOf, TypeOK, Fresh, Past
<1>4. StagedOf(w)'
  BY <1>0 DEF StagedOf, PhaseOf, TypeOK, Ready, Fresh, Places
<1>5. \A v \in Writers : v # w => StepOf(v)'
  <2>1. \A v \in Writers : v # w => /\ pc'[v] = pc[v] /\ identity'[v] = identity[v]
                                    /\ eye'[v] = eye[v] /\ primary'[v] = primary[v]
    BY DEF TypeOK
  <2>2. \A o \in Outputs : o # Target[w] =>
            holder'[o] = holder[o] /\ backup'[o] = backup[o] /\ stage'[o] = stage[o]
    BY DEF TypeOK
  <2>3. \/ holder[Target[w]] = w
        \/ /\ holder[Target[w]] = None \/ holder'[Target[w]] = holder[Target[w]]
           /\ backup'[Target[w]] = backup[Target[w]] /\ stage'[Target[w]] = stage[Target[w]]
    BY <1>0 DEF HoldsOf, Holding, Plain, Moved
  <2>4. \A v \in Writers : v # w => (v \in made' <=> v \in made) /\ (v \in installed' <=> v \in installed)
    OBVIOUS
  <2>5. \A v \in Writers : v # w /\ v \notin installed => entries'[v] = entries[v]
    BY <1>0 DEF TypeOK, Places, Dirs
  <2> QED
    BY <2>1, <2>2, <2>3, <2>4, <2>5, OthersKeep
<1>6. \A o \in Outputs : ReservationOf(o)'
  BY <1>0 DEF ReservationOf, HoldsOf, PhaseOf, TypeOK, Plain, Moved, Holding, Past
<1>7. Places'
  BY <1>0 DEF Places, HoldsOf, PhaseOf, StagedOf, TypeOK, Fresh, Dirs
<1> QED
  BY <1>1, <1>2, <1>3, <1>4, <1>5, <1>6, <1>7 DEF StepOf

LEMMA ReserveInv == ASSUME IInv, NEW w \in Writers, Reserve(w) PROVE IInv'
<1> USE TransactionAssumption DEF IInv, Reserve, Goto, Fails, Cancels, Fine, Faulty, Retained, Place, disk, locals, bounds
<1>0. /\ HoldsOf(w) /\ PhaseOf(w) /\ StagedOf(w) /\ ReservationOf(Target[w])
      /\ Target[w] \in Outputs /\ w # None
  BY DEF StepOf, Dirs
<1>a. \/ pc' = [pc EXCEPT ![w] = "mark"] /\ holder[Target[w]] = None
         /\ holder' = [holder EXCEPT ![Target[w]] = w]
      \/ pc' = [pc EXCEPT ![w] = "reserved"] /\ holder' = holder
  OBVIOUS
<1>1. TypeOK'
  BY DEF TypeOK, Steps, Checks, Unprotected, Ended, Dirs, Site
<1>2. HoldsOf(w)'
  BY <1>0, <1>a DEF HoldsOf, ReservationOf, TypeOK, Plain, Moved, Holding
<1>3. PhaseOf(w)'
  BY <1>0 DEF PhaseOf, TypeOK, Fresh, Past
<1>4. StagedOf(w)'
  BY <1>0 DEF StagedOf, PhaseOf, TypeOK, Ready, Fresh, Places
<1>5. \A v \in Writers : v # w => StepOf(v)'
  <2>1. \A v \in Writers : v # w => /\ pc'[v] = pc[v] /\ identity'[v] = identity[v]
                                    /\ eye'[v] = eye[v] /\ primary'[v] = primary[v]
    BY DEF TypeOK
  <2>2. \A o \in Outputs : o # Target[w] =>
            holder'[o] = holder[o] /\ backup'[o] = backup[o] /\ stage'[o] = stage[o]
    BY DEF TypeOK
  <2>3. \/ holder[Target[w]] = w
        \/ /\ holder[Target[w]] = None \/ holder'[Target[w]] = holder[Target[w]]
           /\ backup'[Target[w]] = backup[Target[w]] /\ stage'[Target[w]] = stage[Target[w]]
    BY <1>0 DEF HoldsOf, Holding, Plain, Moved
  <2>4. \A v \in Writers : v # w => (v \in made' <=> v \in made) /\ (v \in installed' <=> v \in installed)
    OBVIOUS
  <2>5. \A v \in Writers : v # w /\ v \notin installed => entries'[v] = entries[v]
    BY <1>0 DEF TypeOK, Places, Dirs
  <2> QED
    BY <2>1, <2>2, <2>3, <2>4, <2>5, OthersKeep
<1>6. \A o \in Outputs : ReservationOf(o)'
  BY <1>0 DEF ReservationOf, HoldsOf, PhaseOf, TypeOK, Plain, Moved, Holding, Past
<1>7. Places'
  BY <1>0 DEF Places, HoldsOf, PhaseOf, StagedOf, TypeOK, Fresh, Dirs
<1> QED
  BY <1>1, <1>2, <1>3, <1>4, <1>5, <1>6, <1>7 DEF StepOf

LEMMA MarkInv == ASSUME IInv, NEW w \in Writers, Mark(w) PROVE IInv'
<1> USE TransactionAssumption DEF IInv, Mark, Goto, Fails, Cancels, Fine, Faulty, Retained, Place, disk, locals, bounds
<1>0. /\ HoldsOf(w) /\ PhaseOf(w) /\ StagedOf(w) /\ ReservationOf(Target[w])
      /\ Target[w] \in Outputs /\ w # None
  BY DEF StepOf, Dirs
<1>1. TypeOK'
  BY DEF TypeOK, Steps, Checks, Unprotected, Ended, Dirs, Site
<1>2. HoldsOf(w)'
  BY <1>0 DEF HoldsOf, TypeOK, Plain, Moved, Holding
<1>3. PhaseOf(w)'
  BY <1>0 DEF PhaseOf, TypeOK, Fresh, Past
<1>4. StagedOf(w)'
  BY <1>0 DEF StagedOf, PhaseOf, TypeOK, Ready, Fresh, Places
<1>5. \A v \in Writers : v # w => StepOf(v)'
  <2>1. \A v \in Writers : v # w => /\ pc'[v] = pc[v] /\ identity'[v] = identity[v]
                                    /\ eye'[v] = eye[v] /\ primary'[v] = primary[v]
    BY DEF TypeOK
  <2>2. \A o \in Outputs : o # Target[w] =>
            holder'[o] = holder[o] /\ backup'[o] = backup[o] /\ stage'[o] = stage[o]
    BY DEF TypeOK
  <2>3. \/ holder[Target[w]] = w
        \/ /\ holder[Target[w]] = None \/ holder'[Target[w]] = holder[Target[w]]
           /\ backup'[Target[w]] = backup[Target[w]] /\ stage'[Target[w]] = stage[Target[w]]
    BY <1>0 DEF HoldsOf, Holding, Plain, Moved
  <2>4. \A v \in Writers : v # w => (v \in made' <=> v \in made) /\ (v \in installed' <=> v \in installed)
    OBVIOUS
  <2>5. \A v \in Writers : v # w /\ v \notin installed => entries'[v] = entries[v]
    BY <1>0 DEF TypeOK, Places, Dirs
  <2> QED
    BY <2>1, <2>2, <2>3, <2>4, <2>5, OthersKeep
<1>6. \A o \in Outputs : ReservationOf(o)'
  BY <1>0 DEF ReservationOf, HoldsOf, PhaseOf, TypeOK, Plain, Moved, Holding, Past
<1>7. Places'
  BY <1>0 DEF Places, HoldsOf, PhaseOf, StagedOf, TypeOK, Fresh, Dirs
<1> QED
  BY <1>1, <1>2, <1>3, <1>4, <1>5, <1>6, <1>7 DEF StepOf

LEMMA RenderInv == ASSUME IInv, NEW w \in Writers, Render(w) PROVE IInv'
<1> USE TransactionAssumption DEF IInv, Render, Goto, Fails, Cancels, Fine, Faulty, Retained, Place, disk, locals, bounds
<1>0. /\ HoldsOf(w) /\ PhaseOf(w) /\ StagedOf(w) /\ ReservationOf(Target[w])
      /\ Target[w] \in Outputs /\ w # None
  BY DEF StepOf, Dirs
<1>1. TypeOK'
  BY DEF TypeOK, Steps, Checks, Unprotected, Ended, Dirs, Site
<1>2. HoldsOf(w)'
  BY <1>0 DEF HoldsOf, TypeOK, Plain, Moved, Holding
<1>3. PhaseOf(w)'
  BY <1>0 DEF PhaseOf, TypeOK, Fresh, Past
<1>4. StagedOf(w)'
  BY <1>0 DEF StagedOf, PhaseOf, TypeOK, Ready, Fresh, Places
<1>5. \A v \in Writers : v # w => StepOf(v)'
  <2>1. \A v \in Writers : v # w => /\ pc'[v] = pc[v] /\ identity'[v] = identity[v]
                                    /\ eye'[v] = eye[v] /\ primary'[v] = primary[v]
    BY DEF TypeOK
  <2>2. \A o \in Outputs : o # Target[w] =>
            holder'[o] = holder[o] /\ backup'[o] = backup[o] /\ stage'[o] = stage[o]
    BY DEF TypeOK
  <2>3. \/ holder[Target[w]] = w
        \/ /\ holder[Target[w]] = None \/ holder'[Target[w]] = holder[Target[w]]
           /\ backup'[Target[w]] = backup[Target[w]] /\ stage'[Target[w]] = stage[Target[w]]
    BY <1>0 DEF HoldsOf, Holding, Plain, Moved
  <2>4. \A v \in Writers : v # w => (v \in made' <=> v \in made) /\ (v \in installed' <=> v \in installed)
    OBVIOUS
  <2>5. \A v \in Writers : v # w /\ v \notin installed => entries'[v] = entries[v]
    BY <1>0 DEF TypeOK, Places, Dirs
  <2> QED
    BY <2>1, <2>2, <2>3, <2>4, <2>5, OthersKeep
<1>6. \A o \in Outputs : ReservationOf(o)'
  BY <1>0 DEF ReservationOf, HoldsOf, PhaseOf, TypeOK, Plain, Moved, Holding, Past
<1>7. Places'
  BY <1>0 DEF Places, HoldsOf, PhaseOf, StagedOf, TypeOK, Fresh, Dirs
<1> QED
  BY <1>1, <1>2, <1>3, <1>4, <1>5, <1>6, <1>7 DEF StepOf

LEMMA MakeStageInv == ASSUME IInv, NEW w \in Writers, MakeStage(w) PROVE IInv'
<1> USE TransactionAssumption DEF IInv, MakeStage, Goto, Fails, Cancels, Fine, Faulty, Retained, Place, disk, locals, bounds
<1>0. /\ HoldsOf(w) /\ PhaseOf(w) /\ StagedOf(w) /\ ReservationOf(Target[w])
      /\ Target[w] \in Outputs /\ w # None
  BY DEF StepOf, Dirs
<1>a. entries[w] = {} /\ (pc'[w] = "write" \/ (pc'[w] = "settle" /\ primary'[w] # None))
  BY <1>0 DEF Places, PhaseOf, Fresh, TypeOK
<1>1. TypeOK'
  BY DEF TypeOK, Steps, Checks, Unprotected, Ended, Dirs, Site
<1>2. HoldsOf(w)'
  BY <1>0 DEF HoldsOf, TypeOK, Plain, Moved, Holding
<1>3. PhaseOf(w)'
  BY <1>0 DEF PhaseOf, TypeOK, Fresh, Past
<1>4. StagedOf(w)'
  BY <1>0, <1>a DEF StagedOf, TypeOK, Ready
<1>5. \A v \in Writers : v # w => StepOf(v)'
  <2>1. \A v \in Writers : v # w => /\ pc'[v] = pc[v] /\ identity'[v] = identity[v]
                                    /\ eye'[v] = eye[v] /\ primary'[v] = primary[v]
    BY DEF TypeOK
  <2>2. \A o \in Outputs : o # Target[w] =>
            holder'[o] = holder[o] /\ backup'[o] = backup[o] /\ stage'[o] = stage[o]
    BY DEF TypeOK
  <2>3. \/ holder[Target[w]] = w
        \/ /\ holder[Target[w]] = None \/ holder'[Target[w]] = holder[Target[w]]
           /\ backup'[Target[w]] = backup[Target[w]] /\ stage'[Target[w]] = stage[Target[w]]
    BY <1>0 DEF HoldsOf, Holding, Plain, Moved
  <2>4. \A v \in Writers : v # w => (v \in made' <=> v \in made) /\ (v \in installed' <=> v \in installed)
    OBVIOUS
  <2>5. \A v \in Writers : v # w /\ v \notin installed => entries'[v] = entries[v]
    BY <1>0 DEF TypeOK, Places, Dirs
  <2> QED
    BY <2>1, <2>2, <2>3, <2>4, <2>5, OthersKeep
<1>6. \A o \in Outputs : ReservationOf(o)'
  BY <1>0 DEF ReservationOf, HoldsOf, PhaseOf, TypeOK, Plain, Moved, Holding, Past
<1>7. Places'
  BY <1>0 DEF Places, HoldsOf, PhaseOf, StagedOf, TypeOK, Fresh, Dirs
<1> QED
  BY <1>1, <1>2, <1>3, <1>4, <1>5, <1>6, <1>7 DEF StepOf

LEMMA WriteFileInv == ASSUME IInv, NEW w \in Writers, WriteFile(w) PROVE IInv'
<1> USE TransactionAssumption DEF IInv, WriteFile, Goto, Fails, Cancels, Fine, Faulty, Retained, Place, disk, locals, bounds
<1>0. /\ HoldsOf(w) /\ PhaseOf(w) /\ StagedOf(w) /\ ReservationOf(Target[w])
      /\ Target[w] \in Outputs /\ w # None
  BY DEF StepOf, Dirs
<1>a. /\ w \in Dirs /\ entries' \in [Dirs -> SUBSET (Site \cup {"unlisted", "link"})]
      /\ \A d \in Dirs : d # w => entries'[d] = entries[d]
      /\ w \notin installed /\ stage[Target[w]] = w
  <2>1. stage[Target[w]] = w /\ w \notin installed
    BY <1>0 DEF StagedOf, PhaseOf, Past
  <2>2. w \in Dirs /\ {"listed"} \subseteq Site
    BY DEF Site, Dirs
  <2>3. entries' = entries \/ \E files \in SUBSET Site : entries' = [entries EXCEPT ![w] = files]
    BY <2>2
  <2>4. /\ entries' \in [Dirs -> SUBSET (Site \cup {"unlisted", "link"})]
        /\ \A d \in Dirs : d # w => entries'[d] = entries[d]
    BY <2>2, <2>3 DEF TypeOK
  <2> QED
    BY <2>1, <2>2, <2>4
<1>b. \/ pc'[w] = "write" /\ entries'[w] = {"listed"}
      \/ pc'[w] = "settle" /\ entries'[w] = Site
      \/ pc'[w] = "settle" /\ primary'[w] # None
  BY <1>0, <1>a DEF TypeOK
<1>1. TypeOK'
  BY <1>a DEF TypeOK, Steps, Unprotected
<1>2. HoldsOf(w)'
  BY <1>0 DEF HoldsOf, TypeOK, Plain, Moved, Holding
<1>3. PhaseOf(w)'
  BY <1>0 DEF PhaseOf, TypeOK, Fresh, Past
<1>4. StagedOf(w)'
  BY <1>0, <1>a, <1>b DEF StagedOf, TypeOK, Ready
<1>5. \A v \in Writers : v # w => StepOf(v)'
  <2>1. \A v \in Writers : v # w => /\ pc'[v] = pc[v] /\ identity'[v] = identity[v]
                                    /\ eye'[v] = eye[v] /\ primary'[v] = primary[v]
    BY DEF TypeOK
  <2>2. \A o \in Outputs : o # Target[w] =>
            holder'[o] = holder[o] /\ backup'[o] = backup[o] /\ stage'[o] = stage[o]
    BY DEF TypeOK
  <2>3. \/ holder[Target[w]] = w
        \/ /\ holder[Target[w]] = None \/ holder'[Target[w]] = holder[Target[w]]
           /\ backup'[Target[w]] = backup[Target[w]] /\ stage'[Target[w]] = stage[Target[w]]
    BY <1>0 DEF HoldsOf, Holding, Plain, Moved
  <2>4. \A v \in Writers : v # w => (v \in made' <=> v \in made) /\ (v \in installed' <=> v \in installed)
    OBVIOUS
  <2>5. \A v \in Writers : v # w /\ v \notin installed => entries'[v] = entries[v]
    BY <1>0 DEF TypeOK, Places, Dirs
  <2> QED
    BY <2>1, <2>2, <2>3, <2>4, <2>5, OthersKeep
<1>6. \A o \in Outputs : ReservationOf(o)'
  BY <1>0 DEF ReservationOf, HoldsOf, PhaseOf, TypeOK, Plain, Moved, Holding, Past
<1>7. Places'
  <2>1. w \in made
    BY <1>0, <1>a DEF ReservationOf
  <2> QED
    BY <1>0, <1>a, <2>1 DEF Places, TypeOK, Dirs
<1> QED
  BY <1>1, <1>2, <1>3, <1>4, <1>5, <1>6, <1>7 DEF StepOf

LEMMA SettleInv == ASSUME IInv, NEW w \in Writers, Settle(w) PROVE IInv'
<1> USE TransactionAssumption DEF IInv, Settle, Goto, Fails, Cancels, Fine, Faulty, Retained, Place, disk, locals, bounds
<1>0. /\ HoldsOf(w) /\ PhaseOf(w) /\ StagedOf(w) /\ ReservationOf(Target[w])
      /\ Target[w] \in Outputs /\ w # None
  BY DEF StepOf, Dirs
<1>1. TypeOK'
  BY DEF TypeOK, Steps, Checks, Unprotected, Ended, Dirs, Site
<1>2. HoldsOf(w)'
  BY <1>0 DEF HoldsOf, TypeOK, Plain, Moved, Holding
<1>3. PhaseOf(w)'
  BY <1>0 DEF PhaseOf, TypeOK, Fresh, Past
<1>4. StagedOf(w)'
  BY <1>0 DEF StagedOf, PhaseOf, TypeOK, Ready, Fresh, Places
<1>5. \A v \in Writers : v # w => StepOf(v)'
  <2>1. \A v \in Writers : v # w => /\ pc'[v] = pc[v] /\ identity'[v] = identity[v]
                                    /\ eye'[v] = eye[v] /\ primary'[v] = primary[v]
    BY DEF TypeOK
  <2>2. \A o \in Outputs : o # Target[w] =>
            holder'[o] = holder[o] /\ backup'[o] = backup[o] /\ stage'[o] = stage[o]
    BY DEF TypeOK
  <2>3. \/ holder[Target[w]] = w
        \/ /\ holder[Target[w]] = None \/ holder'[Target[w]] = holder[Target[w]]
           /\ backup'[Target[w]] = backup[Target[w]] /\ stage'[Target[w]] = stage[Target[w]]
    BY <1>0 DEF HoldsOf, Holding, Plain, Moved
  <2>4. \A v \in Writers : v # w => (v \in made' <=> v \in made) /\ (v \in installed' <=> v \in installed)
    OBVIOUS
  <2>5. \A v \in Writers : v # w /\ v \notin installed => entries'[v] = entries[v]
    BY <1>0 DEF TypeOK, Places, Dirs
  <2> QED
    BY <2>1, <2>2, <2>3, <2>4, <2>5, OthersKeep
<1>6. \A o \in Outputs : ReservationOf(o)'
  BY <1>0 DEF ReservationOf, HoldsOf, PhaseOf, TypeOK, Plain, Moved, Holding, Past
<1>7. Places'
  BY <1>0 DEF Places, HoldsOf, PhaseOf, StagedOf, TypeOK, Fresh, Dirs
<1> QED
  BY <1>1, <1>2, <1>3, <1>4, <1>5, <1>6, <1>7 DEF StepOf

LEMMA EnterInv == ASSUME IInv, NEW w \in Writers, Enter(w) PROVE IInv'
<1> USE TransactionAssumption DEF IInv, Enter, Goto, Fails, Cancels, Fine, Faulty, Retained, Place, disk, locals, bounds
<1>0. /\ HoldsOf(w) /\ PhaseOf(w) /\ StagedOf(w) /\ ReservationOf(Target[w])
      /\ Target[w] \in Outputs /\ w # None
  BY DEF StepOf, Dirs
<1>1. TypeOK'
  BY DEF TypeOK, Steps, Checks, Unprotected, Ended, Dirs, Site
<1>2. HoldsOf(w)'
  BY <1>0 DEF HoldsOf, TypeOK, Plain, Moved, Holding
<1>3. PhaseOf(w)'
  BY <1>0 DEF PhaseOf, TypeOK, Fresh, Past
<1>4. StagedOf(w)'
  BY <1>0 DEF StagedOf, PhaseOf, TypeOK, Ready, Fresh, Places
<1>5. \A v \in Writers : v # w => StepOf(v)'
  <2>1. \A v \in Writers : v # w => /\ pc'[v] = pc[v] /\ identity'[v] = identity[v]
                                    /\ eye'[v] = eye[v] /\ primary'[v] = primary[v]
    BY DEF TypeOK
  <2>2. \A o \in Outputs : o # Target[w] =>
            holder'[o] = holder[o] /\ backup'[o] = backup[o] /\ stage'[o] = stage[o]
    BY DEF TypeOK
  <2>3. \/ holder[Target[w]] = w
        \/ /\ holder[Target[w]] = None \/ holder'[Target[w]] = holder[Target[w]]
           /\ backup'[Target[w]] = backup[Target[w]] /\ stage'[Target[w]] = stage[Target[w]]
    BY <1>0 DEF HoldsOf, Holding, Plain, Moved
  <2>4. \A v \in Writers : v # w => (v \in made' <=> v \in made) /\ (v \in installed' <=> v \in installed)
    OBVIOUS
  <2>5. \A v \in Writers : v # w /\ v \notin installed => entries'[v] = entries[v]
    BY <1>0 DEF TypeOK, Places, Dirs
  <2> QED
    BY <2>1, <2>2, <2>3, <2>4, <2>5, OthersKeep
<1>6. \A o \in Outputs : ReservationOf(o)'
  BY <1>0 DEF ReservationOf, HoldsOf, PhaseOf, TypeOK, Plain, Moved, Holding, Past
<1>7. Places'
  BY <1>0 DEF Places, HoldsOf, PhaseOf, StagedOf, TypeOK, Fresh, Dirs
<1> QED
  BY <1>1, <1>2, <1>3, <1>4, <1>5, <1>6, <1>7 DEF StepOf

LEMMA CaptureInv == ASSUME IInv, NEW w \in Writers, Capture(w) PROVE IInv'
<1> USE TransactionAssumption DEF IInv, Capture, Goto, Fails, Cancels, Fine, Faulty, Retained, Place, disk, locals, bounds
<1>0. /\ HoldsOf(w) /\ PhaseOf(w) /\ StagedOf(w) /\ ReservationOf(Target[w])
      /\ Target[w] \in Outputs /\ w # None
  BY DEF StepOf, Dirs
<1>a. holder[Target[w]] = w /\ backup[Target[w]] = None /\ w \notin installed /\ pc[w] = "capture"
  BY <1>0 DEF HoldsOf, PhaseOf, Plain, Holding, Past
<1>b. \/ pc'[w] = "cleanup" /\ output' = output /\ backup' = backup /\ primary'[w] # None
      \/ pc'[w] = "commit" /\ identity[w] = None /\ output' = output /\ backup' = backup
      \/ /\ pc'[w] = "captured" /\ identity[w] # None /\ output[Target[w]] # None
         /\ output' = [output EXCEPT ![Target[w]] = None]
         /\ backup' = [backup EXCEPT ![Target[w]] = output[Target[w]]]
  BY DEF TypeOK
<1>c. eye[w] = Unseen
  BY <1>0 DEF HoldsOf
<1>1. TypeOK'
  BY DEF TypeOK, Steps, Checks, Unprotected, Ended, Dirs, Site
<1>2. HoldsOf(w)'
  BY <1>0, <1>a, <1>b, <1>c DEF HoldsOf, TypeOK, Plain, Moved, Holding
<1>3. PhaseOf(w)'
  BY <1>0, <1>a, <1>b DEF PhaseOf, Fresh, Past
<1>4. StagedOf(w)'
  BY <1>0, <1>a, <1>b DEF StagedOf, TypeOK, Ready
<1>5. \A v \in Writers : v # w => StepOf(v)'
  <2>1. \A v \in Writers : v # w => /\ pc'[v] = pc[v] /\ identity'[v] = identity[v]
                                    /\ eye'[v] = eye[v] /\ primary'[v] = primary[v]
    BY DEF TypeOK
  <2>2. \A o \in Outputs : o # Target[w] =>
            holder'[o] = holder[o] /\ backup'[o] = backup[o] /\ stage'[o] = stage[o]
    BY DEF TypeOK
  <2>3. \/ holder[Target[w]] = w
        \/ /\ holder[Target[w]] = None \/ holder'[Target[w]] = holder[Target[w]]
           /\ backup'[Target[w]] = backup[Target[w]] /\ stage'[Target[w]] = stage[Target[w]]
    BY <1>0 DEF HoldsOf, Holding, Plain, Moved
  <2>4. \A v \in Writers : v # w => (v \in made' <=> v \in made) /\ (v \in installed' <=> v \in installed)
    OBVIOUS
  <2>5. \A v \in Writers : v # w /\ v \notin installed => entries'[v] = entries[v]
    BY <1>0 DEF TypeOK, Places, Dirs
  <2> QED
    BY <2>1, <2>2, <2>3, <2>4, <2>5, OthersKeep
<1>6. \A o \in Outputs : ReservationOf(o)'
  BY <1>0 DEF ReservationOf, HoldsOf, PhaseOf, TypeOK, Plain, Moved, Holding, Past
<1>7. Places'
  <2>1. CASE output' = output /\ backup' = backup
    BY <2>1 DEF Places
  <2>2. CASE /\ output[Target[w]] # None
             /\ output' = [output EXCEPT ![Target[w]] = None]
             /\ backup' = [backup EXCEPT ![Target[w]] = output[Target[w]]]
    <3>1. PICK d \in made : d = output[Target[w]]
      BY <1>0, <2>2 DEF Places
    <3>2. \A o \in Outputs : o # Target[w] =>
            /\ output'[o] = output[o] /\ backup'[o] = backup[o] /\ output[o] # d /\ backup[o] # d
      BY <1>0, <2>2, <3>1 DEF Places, TypeOK
    <3>3. output'[Target[w]] = None /\ backup'[Target[w]] = d /\ d # None
      BY <1>0, <2>2, <3>1 DEF TypeOK
    <3>4. /\ \A v \in Writers : v \notin installed => d # v
          /\ UNCHANGED <<made, installed, identity, entries>>
      BY <1>0, <3>1 DEF Places
    <3> HIDE DEF Capture
    <3>5. \A o, p \in Outputs : backup'[o] = backup'[p] /\ backup'[o] # None => o = p
      BY <1>0, <3>2, <3>3 DEF Places
    <3>6. \A o, p \in Outputs : output'[o] # None => output'[o] # backup'[p]
      BY <1>0, <3>2, <3>3 DEF Places
    <3>7. \A o \in Outputs : output'[o] \in made \cup {None} /\ backup'[o] \in made \cup {None}
      BY <1>0, <3>1, <3>2, <3>3 DEF Places
    <3>8. \A o, p \in Outputs : output'[o] = output'[p] /\ output'[o] # None => o = p
      BY <1>0, <3>2, <3>3 DEF Places
    <3>9. \A v \in Writers : v \notin installed => \A o \in Outputs : output'[o] # v /\ backup'[o] # v
      <4>1. \A v \in Writers : v # None
        BY DEF Dirs
      <4> QED
        BY <1>0, <3>2, <3>3, <3>4, <4>1 DEF Places
    <3> QED
      BY <3>4, <3>5, <3>6, <3>7, <3>8, <3>9 DEF Places
  <2> QED
    BY <1>b, <2>1, <2>2
<1> QED
  BY <1>1, <1>2, <1>3, <1>4, <1>5, <1>6, <1>7 DEF StepOf

LEMMA CommitInv == ASSUME IInv, NEW w \in Writers, Commit(w) PROVE IInv'
<1> USE TransactionAssumption DEF IInv, Commit, Goto, Fails, Cancels, Fine, Faulty, Retained, Place, disk, locals, bounds
<1>0. /\ HoldsOf(w) /\ PhaseOf(w) /\ StagedOf(w) /\ ReservationOf(Target[w])
      /\ Target[w] \in Outputs /\ w # None
  BY DEF StepOf, Dirs
<1>a. /\ holder[Target[w]] = w /\ backup[Target[w]] = identity[w] /\ w \notin installed
      /\ pc[w] = "commit" /\ eye[w] = Unseen /\ stage[Target[w]] = w /\ entries[w] = Site
      /\ w \in made
  BY <1>0 DEF HoldsOf, PhaseOf, StagedOf, ReservationOf, Ready, Moved, Holding, Past
<1>b. \/ /\ output[Target[w]] = None /\ output' = [output EXCEPT ![Target[w]] = w]
         /\ stage' = [stage EXCEPT ![Target[w]] = None] /\ installed' = installed \cup {w}
         /\ \/ pc'[w] = "dispose" /\ identity[w] # None
            \/ pc'[w] = "cleanup" /\ identity[w] = None
      \/ /\ output' = output /\ stage' = stage /\ installed' = installed /\ primary'[w] # None
         /\ \/ pc'[w] = "restore" /\ identity[w] # None
            \/ pc'[w] = "cleanup" /\ identity[w] = None
  BY DEF TypeOK
<1>1. TypeOK'
  BY DEF TypeOK, Steps, Checks, Unprotected, Ended, Dirs, Site
<1>2. HoldsOf(w)'
  BY <1>0, <1>a, <1>b DEF HoldsOf, Plain, Moved, Holding
<1>3. PhaseOf(w)'
  BY <1>0, <1>a, <1>b DEF PhaseOf, Fresh, Past
<1>4. StagedOf(w)'
  BY <1>0, <1>a, <1>b DEF StagedOf, TypeOK, Ready
<1>5. \A v \in Writers : v # w => StepOf(v)'
  <2>1. \A v \in Writers : v # w => /\ pc'[v] = pc[v] /\ identity'[v] = identity[v]
                                    /\ eye'[v] = eye[v] /\ primary'[v] = primary[v]
    BY DEF TypeOK
  <2>2. \A o \in Outputs : o # Target[w] =>
            holder'[o] = holder[o] /\ backup'[o] = backup[o] /\ stage'[o] = stage[o]
    BY DEF TypeOK
  <2>3. \/ holder[Target[w]] = w
        \/ /\ holder[Target[w]] = None \/ holder'[Target[w]] = holder[Target[w]]
           /\ backup'[Target[w]] = backup[Target[w]] /\ stage'[Target[w]] = stage[Target[w]]
    BY <1>0 DEF HoldsOf, Holding, Plain, Moved
  <2>4. \A v \in Writers : v # w => (v \in made' <=> v \in made) /\ (v \in installed' <=> v \in installed)
    OBVIOUS
  <2>5. \A v \in Writers : v # w /\ v \notin installed => entries'[v] = entries[v]
    BY <1>0 DEF TypeOK, Places, Dirs
  <2> QED
    BY <2>1, <2>2, <2>3, <2>4, <2>5, OthersKeep
<1>6. \A o \in Outputs : ReservationOf(o)'
  BY <1>0 DEF ReservationOf, HoldsOf, PhaseOf, TypeOK, Plain, Moved, Holding, Past
<1>7. Places'
  <2>1. CASE output' = output /\ installed' = installed
    BY <2>1 DEF Places
  <2>2. CASE /\ output[Target[w]] = None /\ output' = [output EXCEPT ![Target[w]] = w]
             /\ installed' = installed \cup {w}
    <3>1. \A o \in Outputs : o # Target[w] => output'[o] = output[o] /\ output[o] # w
      BY <1>a, <2>2 DEF TypeOK, Places
    <3>2. output'[Target[w]] = w /\ \A o \in Outputs : backup'[o] = backup[o] /\ backup[o] # w
      BY <1>0, <1>a, <2>2 DEF TypeOK, Places
    <3> QED
      BY <1>0, <1>a, <2>2, <3>1, <3>2 DEF Places
  <2> QED
    BY <1>b, <2>1, <2>2
<1> QED
  BY <1>1, <1>2, <1>3, <1>4, <1>5, <1>6, <1>7 DEF StepOf

LEMMA RestoreInv == ASSUME IInv, NEW w \in Writers, Restore(w) PROVE IInv'
<1> USE TransactionAssumption DEF IInv, Restore, Goto, Fails, Cancels, Fine, Faulty, Retained, Place, disk, locals, bounds
<1>0. /\ HoldsOf(w) /\ PhaseOf(w) /\ StagedOf(w) /\ ReservationOf(Target[w])
      /\ Target[w] \in Outputs /\ w # None
  BY DEF StepOf, Dirs
<1>a. backup[Target[w]] # None
  BY <1>0 DEF HoldsOf
<1>b. \/ /\ output[Target[w]] = None /\ output' = [output EXCEPT ![Target[w]] = backup[Target[w]]]
         /\ backup' = [backup EXCEPT ![Target[w]] = None]
      \/ output' = output /\ backup' = backup
  OBVIOUS
<1>1. TypeOK'
  BY DEF TypeOK, Steps, Checks, Unprotected, Ended, Dirs, Site
<1>2. HoldsOf(w)'
  BY <1>0 DEF HoldsOf, TypeOK, Plain, Moved, Holding
<1>3. PhaseOf(w)'
  BY <1>0 DEF PhaseOf, TypeOK, Fresh, Past
<1>4. StagedOf(w)'
  BY <1>0 DEF StagedOf, PhaseOf, TypeOK, Ready, Fresh, Places
<1>5. \A v \in Writers : v # w => StepOf(v)'
  <2>1. \A v \in Writers : v # w => /\ pc'[v] = pc[v] /\ identity'[v] = identity[v]
                                    /\ eye'[v] = eye[v] /\ primary'[v] = primary[v]
    BY DEF TypeOK
  <2>2. \A o \in Outputs : o # Target[w] =>
            holder'[o] = holder[o] /\ backup'[o] = backup[o] /\ stage'[o] = stage[o]
    BY DEF TypeOK
  <2>3. \/ holder[Target[w]] = w
        \/ /\ holder[Target[w]] = None \/ holder'[Target[w]] = holder[Target[w]]
           /\ backup'[Target[w]] = backup[Target[w]] /\ stage'[Target[w]] = stage[Target[w]]
    BY <1>0 DEF HoldsOf, Holding, Plain, Moved
  <2>4. \A v \in Writers : v # w => (v \in made' <=> v \in made) /\ (v \in installed' <=> v \in installed)
    OBVIOUS
  <2>5. \A v \in Writers : v # w /\ v \notin installed => entries'[v] = entries[v]
    BY <1>0 DEF TypeOK, Places, Dirs
  <2> QED
    BY <2>1, <2>2, <2>3, <2>4, <2>5, OthersKeep
<1>6. \A o \in Outputs : ReservationOf(o)'
  BY <1>0 DEF ReservationOf, HoldsOf, PhaseOf, TypeOK, Plain, Moved, Holding, Past
<1>7. Places'
  <2>1. CASE output' = output /\ backup' = backup
    BY <2>1 DEF Places
  <2>2. CASE /\ output' = [output EXCEPT ![Target[w]] = backup[Target[w]]]
             /\ backup' = [backup EXCEPT ![Target[w]] = None]
    BY <1>0, <1>a, <2>2 DEF Places, TypeOK
  <2> QED
    BY <1>b, <2>1, <2>2
<1> QED
  BY <1>1, <1>2, <1>3, <1>4, <1>5, <1>6, <1>7 DEF StepOf

LEMMA UnlinkInv == ASSUME IInv, NEW w \in Writers, Unlink(w) PROVE IInv'
<1> USE TransactionAssumption DEF IInv, Unlink, Goto, Fails, Cancels, Fine, Faulty, Retained, Place, disk, locals, bounds
<1>0. /\ HoldsOf(w) /\ PhaseOf(w) /\ StagedOf(w) /\ ReservationOf(Target[w])
      /\ Target[w] \in Outputs /\ w # None
  BY DEF StepOf, Dirs
<1>1. TypeOK'
  BY DEF TypeOK, Steps, Checks, Unprotected, Ended, Dirs, Site
<1>2. HoldsOf(w)'
  BY <1>0 DEF HoldsOf, TypeOK, Plain, Moved, Holding
<1>3. PhaseOf(w)'
  BY <1>0 DEF PhaseOf, TypeOK, Fresh, Past
<1>4. StagedOf(w)'
  BY <1>0 DEF StagedOf, PhaseOf, TypeOK, Ready, Fresh, Places
<1>5. \A v \in Writers : v # w => StepOf(v)'
  <2>1. \A v \in Writers : v # w => /\ pc'[v] = pc[v] /\ identity'[v] = identity[v]
                                    /\ eye'[v] = eye[v] /\ primary'[v] = primary[v]
    BY DEF TypeOK
  <2>2. \A o \in Outputs : o # Target[w] =>
            holder'[o] = holder[o] /\ backup'[o] = backup[o] /\ stage'[o] = stage[o]
    BY DEF TypeOK
  <2>3. \/ holder[Target[w]] = w
        \/ /\ holder[Target[w]] = None \/ holder'[Target[w]] = holder[Target[w]]
           /\ backup'[Target[w]] = backup[Target[w]] /\ stage'[Target[w]] = stage[Target[w]]
    BY <1>0 DEF HoldsOf, Holding, Plain, Moved
  <2>4. \A v \in Writers : v # w => (v \in made' <=> v \in made) /\ (v \in installed' <=> v \in installed)
    OBVIOUS
  <2>5. \A v \in Writers : v # w /\ v \notin installed => entries'[v] = entries[v]
    BY <1>0 DEF TypeOK, Places, Dirs
  <2> QED
    BY <2>1, <2>2, <2>3, <2>4, <2>5, OthersKeep
<1>6. \A o \in Outputs : ReservationOf(o)'
  BY <1>0 DEF ReservationOf, HoldsOf, PhaseOf, TypeOK, Plain, Moved, Holding, Past
<1>7. Places'
  <2>1. CASE entries' = entries
    BY <2>1 DEF Places
  <2>2. PICK d \in Dirs : d = backup[Target[w]] /\ d \in made
    BY <1>0 DEF HoldsOf, TypeOK, Places
  <2>3. \A e \in Dirs : e # d => entries'[e] = entries[e]
    BY <2>2 DEF TypeOK
  <2> QED
    BY <2>1, <2>2, <2>3 DEF Places, Dirs
<1> QED
  BY <1>1, <1>2, <1>3, <1>4, <1>5, <1>6, <1>7 DEF StepOf

LEMMA RmdirInv == ASSUME IInv, NEW w \in Writers, Rmdir(w) PROVE IInv'
<1> USE TransactionAssumption DEF IInv, Rmdir, Goto, Fails, Cancels, Fine, Faulty, Retained, Place, disk, locals, bounds
<1>0. /\ HoldsOf(w) /\ PhaseOf(w) /\ StagedOf(w) /\ ReservationOf(Target[w])
      /\ Target[w] \in Outputs /\ w # None
  BY DEF StepOf, Dirs
<1>1. TypeOK'
  BY DEF TypeOK, Steps, Checks, Unprotected, Ended, Dirs, Site
<1>2. HoldsOf(w)'
  BY <1>0 DEF HoldsOf, TypeOK, Plain, Moved, Holding
<1>3. PhaseOf(w)'
  BY <1>0 DEF PhaseOf, TypeOK, Fresh, Past
<1>4. StagedOf(w)'
  BY <1>0 DEF StagedOf, PhaseOf, TypeOK, Ready, Fresh, Places
<1>5. \A v \in Writers : v # w => StepOf(v)'
  <2>1. \A v \in Writers : v # w => /\ pc'[v] = pc[v] /\ identity'[v] = identity[v]
                                    /\ eye'[v] = eye[v] /\ primary'[v] = primary[v]
    BY DEF TypeOK
  <2>2. \A o \in Outputs : o # Target[w] =>
            holder'[o] = holder[o] /\ backup'[o] = backup[o] /\ stage'[o] = stage[o]
    BY DEF TypeOK
  <2>3. \/ holder[Target[w]] = w
        \/ /\ holder[Target[w]] = None \/ holder'[Target[w]] = holder[Target[w]]
           /\ backup'[Target[w]] = backup[Target[w]] /\ stage'[Target[w]] = stage[Target[w]]
    BY <1>0 DEF HoldsOf, Holding, Plain, Moved
  <2>4. \A v \in Writers : v # w => (v \in made' <=> v \in made) /\ (v \in installed' <=> v \in installed)
    OBVIOUS
  <2>5. \A v \in Writers : v # w /\ v \notin installed => entries'[v] = entries[v]
    BY <1>0 DEF TypeOK, Places, Dirs
  <2> QED
    BY <2>1, <2>2, <2>3, <2>4, <2>5, OthersKeep
<1>6. \A o \in Outputs : ReservationOf(o)'
  BY <1>0 DEF ReservationOf, HoldsOf, PhaseOf, TypeOK, Plain, Moved, Holding, Past
<1>7. Places'
  BY <1>0 DEF Places, HoldsOf, PhaseOf, StagedOf, TypeOK, Fresh, Dirs
<1> QED
  BY <1>1, <1>2, <1>3, <1>4, <1>5, <1>6, <1>7 DEF StepOf

LEMMA CleanupInv == ASSUME IInv, NEW w \in Writers, Cleanup(w) PROVE IInv'
<1> USE TransactionAssumption DEF IInv, Cleanup, Goto, Fails, Cancels, Fine, Faulty, Retained, Place, disk, locals, bounds
<1>0. /\ HoldsOf(w) /\ PhaseOf(w) /\ StagedOf(w) /\ ReservationOf(Target[w])
      /\ Target[w] \in Outputs /\ w # None
  BY DEF StepOf, Dirs
<1>1. TypeOK'
  BY DEF TypeOK, Steps, Checks, Unprotected, Ended, Dirs, Site
<1>2. HoldsOf(w)'
  BY <1>0 DEF HoldsOf, TypeOK, Plain, Moved, Holding
<1>3. PhaseOf(w)'
  BY <1>0 DEF PhaseOf, TypeOK, Fresh, Past
<1>4. StagedOf(w)'
  BY <1>0 DEF StagedOf, PhaseOf, TypeOK, Ready, Fresh, Places
<1>5. \A v \in Writers : v # w => StepOf(v)'
  <2>1. \A v \in Writers : v # w => /\ pc'[v] = pc[v] /\ identity'[v] = identity[v]
                                    /\ eye'[v] = eye[v] /\ primary'[v] = primary[v]
    BY DEF TypeOK
  <2>2. \A o \in Outputs : o # Target[w] =>
            holder'[o] = holder[o] /\ backup'[o] = backup[o] /\ stage'[o] = stage[o]
    BY DEF TypeOK
  <2>3. \/ holder[Target[w]] = w
        \/ /\ holder[Target[w]] = None \/ holder'[Target[w]] = holder[Target[w]]
           /\ backup'[Target[w]] = backup[Target[w]] /\ stage'[Target[w]] = stage[Target[w]]
    BY <1>0 DEF HoldsOf, Holding, Plain, Moved
  <2>4. \A v \in Writers : v # w => (v \in made' <=> v \in made) /\ (v \in installed' <=> v \in installed)
    OBVIOUS
  <2>5. \A v \in Writers : v # w /\ v \notin installed => entries'[v] = entries[v]
    BY <1>0 DEF TypeOK, Places, Dirs
  <2> QED
    BY <2>1, <2>2, <2>3, <2>4, <2>5, OthersKeep
<1>6. \A o \in Outputs : ReservationOf(o)'
  BY <1>0 DEF ReservationOf, HoldsOf, PhaseOf, TypeOK, Plain, Moved, Holding, Past
<1>7. Places'
  BY <1>0 DEF Places, HoldsOf, PhaseOf, StagedOf, TypeOK, Fresh, Dirs
<1> QED
  BY <1>1, <1>2, <1>3, <1>4, <1>5, <1>6, <1>7 DEF StepOf

LEMMA ReleaseInv == ASSUME IInv, NEW w \in Writers, Release(w) PROVE IInv'
<1> USE TransactionAssumption DEF IInv, Release, Goto, Fails, Cancels, Fine, Faulty, Retained, Place, disk, locals, bounds
<1>0. /\ HoldsOf(w) /\ PhaseOf(w) /\ StagedOf(w) /\ ReservationOf(Target[w])
      /\ Target[w] \in Outputs /\ w # None
  BY DEF StepOf, Dirs
<1>a. \/ pc'[w] = "done" /\ w \in installed
      \/ pc'[w] \in {"failed", "cancelled"} /\ w \notin installed
      \/ pc'[w] = "installed" /\ w \in installed /\ holder' = holder
      \/ pc'[w] = "recovery" /\ w \notin installed /\ holder' = holder
  BY <1>0 DEF PhaseOf, TypeOK
<1>b. DOMAIN pc' = Writers /\ \A v \in Writers : v # w => pc'[v] = pc[v]
  BY DEF TypeOK
<1>c. pc' \in [Writers -> Steps]
  <2>1. pc'[w] \in Steps
    BY <1>a DEF Steps, Ended
  <2>2. pc' = [pc EXCEPT ![w] = pc'[w]]
    BY DEF TypeOK
  <2> QED
    BY <2>1, <2>2 DEF TypeOK
<1>1. TypeOK'
  BY <1>c DEF TypeOK
<1>2. HoldsOf(w)'
  BY <1>0, <1>a DEF HoldsOf, TypeOK, Plain, Moved, Holding
<1>3. PhaseOf(w)'
  BY <1>0, <1>a DEF PhaseOf, Fresh, Past
<1>4. StagedOf(w)'
  BY <1>0, <1>a DEF StagedOf, Ready
<1>5. \A v \in Writers : v # w => StepOf(v)'
  <2>1. \A v \in Writers : v # w => /\ pc'[v] = pc[v] /\ identity'[v] = identity[v]
                                    /\ eye'[v] = eye[v] /\ primary'[v] = primary[v]
    BY DEF TypeOK
  <2>2. \A o \in Outputs : o # Target[w] =>
            holder'[o] = holder[o] /\ backup'[o] = backup[o] /\ stage'[o] = stage[o]
    BY DEF TypeOK
  <2>3. \/ holder[Target[w]] = w
        \/ /\ holder[Target[w]] = None \/ holder'[Target[w]] = holder[Target[w]]
           /\ backup'[Target[w]] = backup[Target[w]] /\ stage'[Target[w]] = stage[Target[w]]
    BY <1>0 DEF HoldsOf, Holding, Plain, Moved
  <2>4. \A v \in Writers : v # w => (v \in made' <=> v \in made) /\ (v \in installed' <=> v \in installed)
    OBVIOUS
  <2>5. \A v \in Writers : v # w /\ v \notin installed => entries'[v] = entries[v]
    BY <1>0 DEF TypeOK, Places, Dirs
  <2> QED
    BY <2>1, <2>2, <2>3, <2>4, <2>5, OthersKeep
<1>6. \A o \in Outputs : ReservationOf(o)'
  <2>1. ReservationOf(Target[w])'
    BY <1>0, <1>a DEF ReservationOf, HoldsOf, StagedOf, TypeOK, Plain, Moved, Holding
  <2>2. ASSUME NEW o \in Outputs, o # Target[w] PROVE ReservationOf(o)'
    BY <1>0, <1>b, <2>2 DEF ReservationOf, TypeOK
  <2> QED
    BY <2>1, <2>2
<1>7. Places'
  BY <1>0 DEF Places, HoldsOf, PhaseOf, StagedOf, TypeOK, Fresh, Dirs
<1> QED
  BY <1>1, <1>2, <1>3, <1>4, <1>5, <1>6, <1>7 DEF StepOf

LEMMA InterruptInv == ASSUME IInv, NEW w \in Writers, Interrupt(w) PROVE IInv'
<1> USE TransactionAssumption DEF IInv, Interrupt, Goto, Fails, Cancels, Fine, Faulty, Retained, Place, disk, locals, bounds
<1>0. /\ HoldsOf(w) /\ PhaseOf(w) /\ StagedOf(w) /\ ReservationOf(Target[w])
      /\ Target[w] \in Outputs /\ w # None
  BY DEF StepOf, Dirs
<1>1. TypeOK'
  BY DEF TypeOK, Steps, Checks, Unprotected, Ended, Dirs, Site
<1>2. HoldsOf(w)'
  BY <1>0 DEF HoldsOf, TypeOK, Plain, Moved, Holding
<1>3. PhaseOf(w)'
  BY <1>0 DEF PhaseOf, TypeOK, Fresh, Past
<1>4. StagedOf(w)'
  BY <1>0 DEF StagedOf, PhaseOf, TypeOK, Ready, Fresh, Places
<1>5. \A v \in Writers : v # w => StepOf(v)'
  <2>1. \A v \in Writers : v # w => /\ pc'[v] = pc[v] /\ identity'[v] = identity[v]
                                    /\ eye'[v] = eye[v] /\ primary'[v] = primary[v]
    BY DEF TypeOK
  <2>2. \A o \in Outputs : o # Target[w] =>
            holder'[o] = holder[o] /\ backup'[o] = backup[o] /\ stage'[o] = stage[o]
    BY DEF TypeOK
  <2>3. \/ holder[Target[w]] = w
        \/ /\ holder[Target[w]] = None \/ holder'[Target[w]] = holder[Target[w]]
           /\ backup'[Target[w]] = backup[Target[w]] /\ stage'[Target[w]] = stage[Target[w]]
    BY <1>0 DEF HoldsOf, Holding, Plain, Moved
  <2>4. \A v \in Writers : v # w => (v \in made' <=> v \in made) /\ (v \in installed' <=> v \in installed)
    OBVIOUS
  <2>5. \A v \in Writers : v # w /\ v \notin installed => entries'[v] = entries[v]
    BY <1>0 DEF TypeOK, Places, Dirs
  <2> QED
    BY <2>1, <2>2, <2>3, <2>4, <2>5, OthersKeep
<1>6. \A o \in Outputs : ReservationOf(o)'
  BY <1>0 DEF ReservationOf, HoldsOf, PhaseOf, TypeOK, Plain, Moved, Holding, Past
<1>7. Places'
  BY <1>0 DEF Places, HoldsOf, PhaseOf, StagedOf, TypeOK, Fresh, Dirs
<1> QED
  BY <1>1, <1>2, <1>3, <1>4, <1>5, <1>6, <1>7 DEF StepOf

LEMMA ForcedExitInv == ASSUME IInv, NEW w \in Writers, ForcedExit(w) PROVE IInv'
<1> USE TransactionAssumption DEF IInv, ForcedExit, Goto, Fails, Cancels, Fine, Faulty, Retained, Place, disk, locals, bounds
<1>0. /\ HoldsOf(w) /\ PhaseOf(w) /\ StagedOf(w) /\ ReservationOf(Target[w])
      /\ Target[w] \in Outputs /\ w # None
  BY DEF StepOf, Dirs
<1>1. TypeOK'
  BY DEF TypeOK, Steps, Checks, Unprotected, Ended, Dirs, Site
<1>2. HoldsOf(w)'
  BY <1>0 DEF HoldsOf, TypeOK, Plain, Moved, Holding
<1>3. PhaseOf(w)'
  <2>1. pc[w] \notin Past \cup {"cleanup", "release", "gone"}
    BY DEF Past, Unprotected
  <2> QED
    BY <1>0, <2>1 DEF PhaseOf, TypeOK, Fresh, Past
<1>4. StagedOf(w)'
  BY <1>0 DEF StagedOf, PhaseOf, TypeOK, Ready, Fresh, Places
<1>5. \A v \in Writers : v # w => StepOf(v)'
  <2>1. \A v \in Writers : v # w => /\ pc'[v] = pc[v] /\ identity'[v] = identity[v]
                                    /\ eye'[v] = eye[v] /\ primary'[v] = primary[v]
    BY DEF TypeOK
  <2>2. \A o \in Outputs : o # Target[w] =>
            holder'[o] = holder[o] /\ backup'[o] = backup[o] /\ stage'[o] = stage[o]
    BY DEF TypeOK
  <2>3. \/ holder[Target[w]] = w
        \/ /\ holder[Target[w]] = None \/ holder'[Target[w]] = holder[Target[w]]
           /\ backup'[Target[w]] = backup[Target[w]] /\ stage'[Target[w]] = stage[Target[w]]
    BY <1>0 DEF HoldsOf, Holding, Plain, Moved
  <2>4. \A v \in Writers : v # w => (v \in made' <=> v \in made) /\ (v \in installed' <=> v \in installed)
    OBVIOUS
  <2>5. \A v \in Writers : v # w /\ v \notin installed => entries'[v] = entries[v]
    BY <1>0 DEF TypeOK, Places, Dirs
  <2> QED
    BY <2>1, <2>2, <2>3, <2>4, <2>5, OthersKeep
<1>6. \A o \in Outputs : ReservationOf(o)'
  <2>1. pc[w] \in Holding => pc[w] \in Plain
    BY DEF Unprotected, Holding, Plain, Moved
  <2>2. holder[Target[w]] = w => backup[Target[w]] = None
    BY <1>0, <2>1 DEF ReservationOf, HoldsOf, Unprotected
  <2> QED
    BY <1>0, <2>2 DEF ReservationOf, TypeOK
<1>7. Places'
  BY <1>0 DEF Places, HoldsOf, PhaseOf, StagedOf, TypeOK, Fresh, Dirs
<1> QED
  BY <1>1, <1>2, <1>3, <1>4, <1>5, <1>6, <1>7 DEF StepOf

LEMMA CrashInv == ASSUME IInv, NEW w \in Writers, Crash(w) PROVE IInv'
<1> USE TransactionAssumption DEF IInv, Crash, Goto, Fails, Cancels, Fine, Faulty, Retained, Place, disk, locals, bounds
<1>0. /\ HoldsOf(w) /\ PhaseOf(w) /\ StagedOf(w) /\ ReservationOf(Target[w])
      /\ Target[w] \in Outputs /\ w # None
  BY DEF StepOf, Dirs
<1>1. TypeOK'
  BY DEF TypeOK, Steps, Checks, Unprotected, Ended, Dirs, Site
<1>2. HoldsOf(w)'
  BY <1>0 DEF HoldsOf, TypeOK, Plain, Moved, Holding
<1>3. PhaseOf(w)'
  BY <1>0 DEF PhaseOf, TypeOK, Fresh, Past
<1>4. StagedOf(w)'
  BY <1>0 DEF StagedOf, PhaseOf, TypeOK, Ready, Fresh, Places
<1>5. \A v \in Writers : v # w => StepOf(v)'
  <2>1. \A v \in Writers : v # w => /\ pc'[v] = pc[v] /\ identity'[v] = identity[v]
                                    /\ eye'[v] = eye[v] /\ primary'[v] = primary[v]
    BY DEF TypeOK
  <2>2. \A o \in Outputs : o # Target[w] =>
            holder'[o] = holder[o] /\ backup'[o] = backup[o] /\ stage'[o] = stage[o]
    BY DEF TypeOK
  <2>3. \/ holder[Target[w]] = w
        \/ /\ holder[Target[w]] = None \/ holder'[Target[w]] = holder[Target[w]]
           /\ backup'[Target[w]] = backup[Target[w]] /\ stage'[Target[w]] = stage[Target[w]]
    BY <1>0 DEF HoldsOf, Holding, Plain, Moved
  <2>4. \A v \in Writers : v # w => (v \in made' <=> v \in made) /\ (v \in installed' <=> v \in installed)
    OBVIOUS
  <2>5. \A v \in Writers : v # w /\ v \notin installed => entries'[v] = entries[v]
    BY <1>0 DEF TypeOK, Places, Dirs
  <2> QED
    BY <2>1, <2>2, <2>3, <2>4, <2>5, OthersKeep
<1>6. \A o \in Outputs : ReservationOf(o)'
  BY <1>0 DEF ReservationOf, HoldsOf, PhaseOf, TypeOK, Plain, Moved, Holding, Past
<1>7. Places'
  BY <1>0 DEF Places, HoldsOf, PhaseOf, StagedOf, TypeOK, Fresh, Dirs
<1> QED
  BY <1>1, <1>2, <1>3, <1>4, <1>5, <1>6, <1>7 DEF StepOf

\* What other programs do leaves every build and every reservation where it is.
LEMMA OthersInv ==
    ASSUME IInv,
           UNCHANGED <<namespace, holder, stage, backup, locals, signals>>,
           made' \subseteq Dirs, \A w \in Writers : w \in made' <=> w \in made,
           \A w \in Writers : w \notin installed => entries'[w] = entries[w]
    PROVE (\A w \in Writers : StepOf(w)') /\ (made \subseteq made' => \A o \in Outputs : ReservationOf(o)')
<1> USE DEF IInv, locals
<1>1. ASSUME NEW w \in Writers PROVE HoldsOf(w)'
  BY DEF StepOf, HoldsOf
<1>2. ASSUME NEW w \in Writers PROVE PhaseOf(w)'
  BY DEF StepOf, PhaseOf
<1>3. ASSUME NEW w \in Writers PROVE StagedOf(w)'
  <2>1. Ready(w) \/ pc[w] = "write" => w \notin installed
    BY DEF StepOf, PhaseOf, Ready, Past
  <2> QED
    BY <2>1 DEF StepOf, StagedOf, Ready
<1>4. made \subseteq made' => \A o \in Outputs : ReservationOf(o)'
  BY DEF ReservationOf
<1> QED
  BY <1>1, <1>2, <1>3, <1>4 DEF StepOf

LEMMA AppearInv == ASSUME IInv, NEW o \in Outputs, NEW d \in Foreign, NEW shape \in Shapes, Appear(o, d, shape)
    PROVE IInv'
<1> USE TransactionAssumption DEF IInv, Appear, Others
<1>1. d \in Dirs /\ d \notin made /\ d \notin Writers /\ d # None
  BY DEF Dirs
<1>2. TypeOK'
  <2>1. shape \subseteq Site \cup {"unlisted", "link"}
    BY DEF Shapes, Site
  <2> QED
    BY <1>1, <2>1 DEF TypeOK, locals
<1>3. \A e \in Dirs : e # d => entries'[e] = entries[e]
  BY DEF TypeOK
<1>4. (\A w \in Writers : StepOf(w)') /\ \A p \in Outputs : ReservationOf(p)'
  <2>1. made' \subseteq Dirs /\ made \subseteq made'
    BY <1>1 DEF TypeOK
  <2> QED
    BY <1>1, <1>3, <2>1, OthersInv DEF Dirs
<1>5. /\ output'[o] = d /\ backup' = backup
      /\ \A p \in Outputs : p # o => output'[p] = output[p]
      /\ \A p \in Outputs : output[p] # d /\ backup[p] # d
  BY <1>1 DEF TypeOK, Places
<1>6. Places'
  BY <1>1, <1>3, <1>5 DEF Places, locals, Dirs
<1> QED
  BY <1>2, <1>4, <1>6

LEMMA LeaveInv == ASSUME IInv, NEW o \in Outputs, Leave(o) PROVE IInv'
<1> USE TransactionAssumption DEF IInv, Leave, Others
<1>1. TypeOK'
  BY DEF TypeOK, locals
<1>2. (\A w \in Writers : StepOf(w)') /\ \A p \in Outputs : ReservationOf(p)'
  BY OthersInv DEF TypeOK
<1>3. \A p \in Outputs : output'[p] = output[p] \/ output'[p] = None
  BY DEF TypeOK
<1>4. Places'
  BY <1>3 DEF Places, locals, Dirs
<1> QED
  BY <1>1, <1>2, <1>4

LEMMA ExtendInv == ASSUME IInv, NEW d \in Dirs, Extend(d) PROVE IInv'
<1> USE TransactionAssumption DEF IInv, Extend, Others
<1>1. TypeOK'
  BY DEF TypeOK, locals
<1>2. \A e \in Dirs : e # d => entries'[e] = entries[e]
  BY DEF TypeOK
<1>3. d \in made /\ (d \in Writers => d \in installed)
  BY DEF Places
<1>4. (\A w \in Writers : StepOf(w)') /\ \A p \in Outputs : ReservationOf(p)'
  BY <1>2, <1>3, OthersInv DEF TypeOK, Dirs
<1>5. Places'
  BY <1>2, <1>3 DEF Places, locals, Dirs
<1> QED
  BY <1>1, <1>4, <1>5

\* The invariant holds initially and is kept by every step.
THEOREM Inductive == Spec => []IInv
<1>1. Init => IInv
  <2> SUFFICES ASSUME Init PROVE IInv
    OBVIOUS
  <2> USE TransactionAssumption DEF Init
  <2>1. made \subseteq Foreign /\ made \subseteq Dirs
    BY DEF Dirs
  <2>2. \A d \in Dirs : d \notin made => entries[d] = {}
    OBVIOUS
  <2>3. entries \in [Dirs -> SUBSET (Site \cup {"unlisted", "link"})]
    <3>1. PICK shape \in [Outputs -> Shapes] :
            entries = [d \in Dirs |->
              IF d \in made THEN shape[CHOOSE o \in Outputs : output[o] = d] ELSE {}]
      OBVIOUS
    <3>2. ASSUME NEW d \in made
          PROVE shape[CHOOSE o \in Outputs : output[o] = d] \in SUBSET (Site \cup {"unlisted", "link"})
      <4>1. \E o \in Outputs : output[o] = d
        OBVIOUS
      <4>2. PICK o \in Outputs : o = CHOOSE p \in Outputs : output[p] = d
        BY <4>1
      <4>3. shape[o] \in Shapes
        BY <4>2
      <4> QED
        BY <4>2, <4>3 DEF Shapes, Site
    <3> QED
      BY <3>1, <3>2
  <2>4. TypeOK
    BY <2>1, <2>3 DEF TypeOK, Steps, Unprotected, Dirs
  <2>5. ASSUME NEW w \in Writers PROVE StepOf(w)
    <3>1. w \notin made
      BY <2>1
    <3> QED
      BY <3>1 DEF StepOf, HoldsOf, PhaseOf, StagedOf, Ready, Fresh, Plain, Moved, Past, Holding
  <2>6. \A o \in Outputs : ReservationOf(o)
    BY DEF ReservationOf
  <2>7. Places
    BY <2>1, <2>2 DEF Places, Dirs
  <2> QED
    BY <2>4, <2>5, <2>6, <2>7 DEF IInv
<1>2. IInv /\ [Next]_vars => IInv'
  <2> SUFFICES ASSUME IInv, [Next]_vars PROVE IInv'
    OBVIOUS
  <2>1. ASSUME NEW w \in Writers, Step(w) \/ Interrupt(w) \/ ForcedExit(w) \/ Crash(w) PROVE IInv'
    BY <2>1, AdmitInv, LookInv, AcceptInv, RejectInv, FoundInv, WriteOwnerInv, 
       ReserveInv, MarkInv, RenderInv, MakeStageInv, WriteFileInv, SettleInv, 
       EnterInv, CaptureInv, CommitInv, RestoreInv, UnlinkInv, RmdirInv, CleanupInv, ReleaseInv, 
       InterruptInv, ForcedExitInv, CrashInv DEF Step
  <2>2. ASSUME NEW o \in Outputs, Leave(o) \/ \E d \in Foreign, shape \in Shapes : Appear(o, d, shape)
        PROVE IInv'
    BY <2>2, LeaveInv, AppearInv
  <2>3. ASSUME NEW d \in Dirs, Extend(d) PROVE IInv'
    BY <2>3, ExtendInv
  <2>4. CASE UNCHANGED vars
    BY <2>4 DEF vars, disk, locals, bounds, IInv, TypeOK, StepOf, HoldsOf, PhaseOf, StagedOf, Ready, ReservationOf, Places
  <2> QED
    BY <2>1, <2>2, <2>3, <2>4 DEF Next
<1> QED
  BY <1>1, <1>2, PTL DEF Spec

-----------------------------------------------------------------------------
(* What follows *)

\* The types of the variables.
THEOREM Typed == Spec => []TypeOK
<1>1. IInv => TypeOK
  BY DEF IInv
<1> QED
  BY <1>1, Inductive, PTL

\* An outcome says what is left and which site is in place.
THEOREM Outcomes == Spec => []OutcomesTrue
<1>1. IInv => OutcomesTrue
  <2> SUFFICES ASSUME IInv, NEW w \in Writers
      PROVE /\ pc[w] \in {"recovery", "installed"} => holder[Target[w]] = w
            /\ pc[w] \in {"done", "failed", "cancelled", "reserved", "namespace"} =>
                 holder[Target[w]] # w
            /\ pc[w] \in Ended \ {"gone"} =>
                 (w \in installed <=> pc[w] \in {"done", "installed"})
    BY DEF OutcomesTrue
  <2>1. HoldsOf(w) /\ PhaseOf(w) /\ ReservationOf(Target[w]) /\ w # None
    BY TransactionAssumption DEF IInv, StepOf, Dirs
  <2> QED
    BY <2>1 DEF HoldsOf, PhaseOf, ReservationOf, Ended, Holding, Plain, Moved, Past
<1> QED
  BY <1>1, Inductive, PTL

\* A forced exit leaves nothing set aside and nothing half installed.
THEOREM ForcedExits == Spec => []ForcedExitsSettled
<1>1. IInv => ForcedExitsSettled
  <2> SUFFICES ASSUME IInv, NEW w \in Writers, pc[w] = "forced", holder[Target[w]] = w
      PROVE backup[Target[w]] = None /\ w \notin installed
    BY DEF ForcedExitsSettled
  <2>1. PhaseOf(w) /\ ReservationOf(Target[w]) /\ w # None
    BY TransactionAssumption DEF IInv, StepOf, Dirs
  <2> QED
    BY <2>1 DEF PhaseOf, ReservationOf, Past
<1> QED
  BY <1>1, Inductive, PTL

-----------------------------------------------------------------------------
(* Every step is one of the replacement of a site, or none *)

Shown == <<[o \in Outputs |-> Current(o)], identity, entries,
           {identity[w] : w \in installed} \ {None}, foreign>>

\* Steps that leave every directory where it is.
LEMMA QuietSteps ==
    ASSUME UNCHANGED <<output, holder, backup, installed, identity, entries, foreign>>
    PROVE UNCHANGED Shown
BY DEF Shown, Current

\* Steps that keep what counts at every output.
LEMMA KeptSteps ==
    ASSUME \A o \in Outputs : Current(o)' = Current(o),
           UNCHANGED <<installed, identity, entries, foreign>>
    PROVE UNCHANGED Shown
<1>1. [o \in Outputs |-> Current(o)]' = [o \in Outputs |-> Current(o)]
  OBVIOUS
<1> QED
  BY <1>1 DEF Shown

LEMMA LookObserves == ASSUME IInv, NEW w \in Writers, Look(w)
    PROVE Sites!Observe(w) \/ Sites!Overlook(w) \/ UNCHANGED Shown
<1> USE DEF Look, disk, locals, bounds
<1>1. CASE pc[w] # "open"
  BY <1>1, QuietSteps
<1>2. CASE pc[w] = "open"
  <2>1. w \notin installed /\ Target[w] \in Outputs
    BY <1>2, TransactionAssumption DEF IInv, StepOf, PhaseOf, Past
  <2>2. identity' = [identity EXCEPT ![w] = output[Target[w]]] /\ identity \in [Writers -> Dirs \cup {None}]
    BY <1>2 DEF Place, IInv, TypeOK
  <2>3. \A v \in installed : identity'[v] = identity[v]
    BY <2>1, <2>2 DEF IInv, TypeOK
  <2>4. ({identity[v] : v \in installed} \ {None})' = {identity[v] : v \in installed} \ {None}
    BY <2>3
  <2>5. [o \in Outputs |-> Current(o)]' = [o \in Outputs |-> Current(o)]
    BY DEF Current
  <2>6. CASE output[Target[w]] # None
    <3>1. Current(Target[w]) = output[Target[w]]
      BY <2>6 DEF Current
    <3> QED
      BY <2>1, <2>2, <2>4, <2>5, <3>1 DEF Sites!Observe
  <2>7. CASE output[Target[w]] = None
    BY <2>2, <2>4, <2>5, <2>7 DEF Sites!Overlook
  <2> QED
    BY <2>6, <2>7
<1> QED
  BY <1>1, <1>2

LEMMA ReserveKeeps == ASSUME IInv, NEW w \in Writers, Reserve(w) PROVE UNCHANGED Shown
<1>1. /\ holder' = holder \/ (holder[Target[w]] = None /\ holder' = [holder EXCEPT ![Target[w]] = w])
      /\ UNCHANGED <<output, backup, installed, identity, entries, foreign>>
  BY DEF Reserve
<1>2. holder[Target[w]] = None => backup[Target[w]] = None
  BY TransactionAssumption DEF IInv, ReservationOf
<1>3. \A o \in Outputs : Current(o)' = Current(o)
  BY <1>1, <1>2 DEF Current, IInv, TypeOK
<1> QED
  BY <1>1, <1>3, KeptSteps

LEMMA CaptureKeeps == ASSUME IInv, NEW w \in Writers, Capture(w) PROVE UNCHANGED Shown
<1>1. CASE UNCHANGED <<output, backup>>
  BY <1>1, QuietSteps DEF Capture
<1>2. CASE /\ output[Target[w]] # None
           /\ backup' = [backup EXCEPT ![Target[w]] = output[Target[w]]]
           /\ output' = [output EXCEPT ![Target[w]] = None]
  <2>1. holder[Target[w]] = w /\ w \notin installed /\ w # None
    BY TransactionAssumption DEF Capture, IInv, StepOf, HoldsOf, PhaseOf, Holding, Plain, Past, Dirs
  <2>2. UNCHANGED <<holder, installed, identity, entries, foreign>>
    BY DEF Capture
  <2>3. \A o \in Outputs : Current(o)' = Current(o)
    BY <1>2, <2>1, <2>2, TransactionAssumption DEF Current, IInv, TypeOK
  <2> QED
    BY <2>2, <2>3, KeptSteps
<1> QED
  BY <1>1, <1>2 DEF Capture

LEMMA RestoreKeeps == ASSUME IInv, NEW w \in Writers, Restore(w) PROVE UNCHANGED Shown
<1>1. CASE UNCHANGED <<output, backup>>
  BY <1>1, QuietSteps DEF Restore
<1>2. CASE /\ output[Target[w]] = None
           /\ output' = [output EXCEPT ![Target[w]] = backup[Target[w]]]
           /\ backup' = [backup EXCEPT ![Target[w]] = None]
  <2>1. holder[Target[w]] = w /\ w \notin installed /\ w # None /\ backup[Target[w]] # None
    BY TransactionAssumption
       DEF Restore, IInv, StepOf, HoldsOf, PhaseOf, Holding, Moved, Past, Dirs
  <2>2. UNCHANGED <<holder, installed, identity, entries, foreign>>
    BY DEF Restore
  <2>3. \A o \in Outputs : Current(o)' = Current(o)
    BY <1>2, <2>1, <2>2, TransactionAssumption DEF Current, IInv, TypeOK
  <2> QED
    BY <2>2, <2>3, KeptSteps
<1> QED
  BY <1>1, <1>2 DEF Restore

LEMMA RmdirKeeps == ASSUME IInv, NEW w \in Writers, Rmdir(w) PROVE UNCHANGED Shown
<1>1. holder[Target[w]] = w /\ w \in installed
  BY DEF Rmdir, IInv, StepOf, HoldsOf, PhaseOf, Holding, Moved, Past
<1>2. /\ \A o \in Outputs : o # Target[w] => backup'[o] = backup[o]
      /\ UNCHANGED <<output, holder, installed, identity, entries, foreign>>
  BY DEF Rmdir, IInv, TypeOK
<1>3. \A o \in Outputs : Current(o)' = Current(o)
  BY <1>1, <1>2 DEF Current
<1> QED
  BY <1>2, <1>3, KeptSteps

LEMMA ReleaseKeeps == ASSUME IInv, NEW w \in Writers, Release(w) PROVE UNCHANGED Shown
<1>1. backup[Target[w]] = None
  BY DEF Release, IInv, StepOf, HoldsOf, Plain
<1>2. /\ \A o \in Outputs : o # Target[w] => holder'[o] = holder[o]
      /\ UNCHANGED <<output, backup, installed, identity, entries, foreign>>
  BY DEF Release, Retained, IInv, TypeOK
<1>3. \A o \in Outputs : Current(o)' = Current(o)
  BY <1>1, <1>2 DEF Current
<1> QED
  BY <1>2, <1>3, KeptSteps

\* A directory that was staged and not installed is nowhere.
LEMMA StagedUnserved == ASSUME IInv, NEW w \in Writers, w \notin installed
    PROVE ~Sites!Served(w) /\ w \notin {identity[v] : v \in installed} \ {None}
<1>1. \A o \in Outputs : output[o] # w /\ backup[o] # w
  BY DEF IInv, Places
<1>2. \A v \in Writers : identity[v] # w
  BY DEF IInv, Places
<1>3. w # None /\ installed \subseteq Writers
  BY TransactionAssumption DEF Dirs, IInv, TypeOK
<1>4. \A o \in Outputs : [p \in Outputs |-> Current(p)][o] # w
  BY <1>1, <1>3 DEF Current
<1> QED
  BY <1>2, <1>3, <1>4 DEF Sites!Served

LEMMA WriteFileStages == ASSUME IInv, NEW w \in Writers, WriteFile(w)
    PROVE (\E files \in SUBSET Site : Sites!Stage(w, files)) \/ UNCHANGED Shown
<1>1. CASE UNCHANGED entries
  BY <1>1, QuietSteps DEF WriteFile
<1>2. CASE entries' = [entries EXCEPT ![w] = IF @ = {} THEN {"listed"} ELSE Site]
  <2>1. w \notin installed
    BY DEF WriteFile, IInv, StepOf, PhaseOf, Past
  <2>2. PICK files \in SUBSET Site : entries' = [entries EXCEPT ![w] = files]
    BY <1>2 DEF Site
  <2>3. [o \in Outputs |-> Current(o)]' = [o \in Outputs |-> Current(o)]
        /\ UNCHANGED <<installed, identity, foreign>>
    BY DEF WriteFile, Current
  <2> QED
    BY <2>1, <2>2, <2>3, StagedUnserved DEF Sites!Stage, Site
<1> QED
  BY <1>1, <1>2 DEF WriteFile

LEMMA CleanupStages == ASSUME IInv, NEW w \in Writers, Cleanup(w)
    PROVE (\E files \in SUBSET Site : Sites!Stage(w, files)) \/ UNCHANGED Shown
<1>1. CASE UNCHANGED entries
  BY <1>1, QuietSteps DEF Cleanup, Retained, Goto
<1>2. CASE stage[Target[w]] = w /\ entries' = [entries EXCEPT ![w] = {}]
  <2>1. w \notin installed
    BY <1>2, TransactionAssumption DEF IInv, ReservationOf, Dirs
  <2>2. [o \in Outputs |-> Current(o)]' = [o \in Outputs |-> Current(o)]
        /\ UNCHANGED <<installed, identity, foreign>>
    BY DEF Cleanup, Current
  <2>3. Sites!Stage(w, {})
    BY <1>2, <2>1, <2>2, StagedUnserved DEF Sites!Stage
  <2> QED
    BY <2>3
<1> QED
  BY <1>1, <1>2 DEF Cleanup

LEMMA UnlinkRetires == ASSUME IInv, NEW w \in Writers, Unlink(w)
    PROVE (\E d \in Dirs, entry \in Site : Sites!Retire(d, entry)) \/ UNCHANGED Shown
<1>1. CASE UNCHANGED entries
  BY <1>1, QuietSteps DEF Unlink
<1>2. CASE \E entry \in Site : entries' = [entries EXCEPT ![backup[Target[w]]] = @ \ {entry}]
  <2> DEFINE d == backup[Target[w]]
  <2>1. /\ d = identity[w] /\ d # None /\ w \in installed /\ holder[Target[w]] = w
        /\ Target[w] \in Outputs
    BY TransactionAssumption
       DEF Unlink, IInv, StepOf, HoldsOf, PhaseOf, Past, Holding, Moved
  <2>2. d \in Dirs /\ d \in {identity[v] : v \in installed} \ {None}
    BY <2>1 DEF IInv, TypeOK
  <2>3. \A o \in Outputs : Current(o) # d
    BY <2>1 DEF Current, IInv, Places
  <2>4. ~Sites!Served(d)
    BY <2>3 DEF Sites!Served
  <2>5. [o \in Outputs |-> Current(o)]' = [o \in Outputs |-> Current(o)]
        /\ UNCHANGED <<installed, identity, foreign>>
    BY DEF Unlink, Current
  <2>6. PICK entry \in Site : entries' = [entries EXCEPT ![d] = @ \ {entry}]
    BY <1>2
  <2>7. Sites!Retire(d, entry)
    BY <2>2, <2>4, <2>5, <2>6 DEF Sites!Retire
  <2> QED
    BY <2>2, <2>7
<1>3. (IF "listed" \in list[w] THEN "listed" ELSE "marker") \in Site
  BY DEF Site
<1> QED
  BY <1>1, <1>2, <1>3 DEF Unlink

LEMMA CommitPublishes == ASSUME IInv, NEW w \in Writers, Commit(w)
    PROVE Sites!Publish(w) \/ UNCHANGED Shown
<1>1. CASE UNCHANGED <<output, stage, installed>>
  BY <1>1, QuietSteps DEF Commit
<1>2. CASE /\ output[Target[w]] = None
           /\ output' = [output EXCEPT ![Target[w]] = w]
           /\ installed' = installed \cup {w}
  <2>1. /\ holder[Target[w]] = w /\ w \notin installed /\ w # None /\ Target[w] \in Outputs
        /\ backup[Target[w]] = identity[w] /\ entries[w] = Site
    BY TransactionAssumption
       DEF Commit, IInv, StepOf, HoldsOf, PhaseOf, StagedOf, Ready, Holding, Moved, Past, Dirs
  <2>2. UNCHANGED <<holder, backup, identity, entries, foreign>>
    BY DEF Commit
  <2>3. Current(Target[w]) = identity[w] /\ Current(Target[w])' = w
    BY <1>2, <2>1, <2>2 DEF Current, IInv, TypeOK
  <2>4. ASSUME NEW o \in Outputs, o # Target[w] PROVE Current(o)' = Current(o)
    <3>1. output'[o] = output[o]
      BY <1>2, <2>4 DEF IInv, TypeOK
    <3>2. holder[o] # None => holder[o] # w
      BY <2>4, TransactionAssumption DEF IInv, ReservationOf
    <3> QED
      BY <1>2, <2>2, <3>1, <3>2 DEF Current
  <2>5. [o \in Outputs |-> Current(o)]' = [[o \in Outputs |-> Current(o)] EXCEPT ![Target[w]] = w]
    BY <2>1, <2>3, <2>4
  <2>6. ({identity[v] : v \in installed} \ {None})'
          = (({identity[v] : v \in installed} \ {None}) \cup {identity[w]}) \ {None}
    BY <1>2, <2>2
  <2> QED
    BY <2>1, <2>2, <2>3, <2>5, <2>6 DEF Sites!Publish
<1> QED
  BY <1>1, <1>2 DEF Commit

\* A build replaces exactly the directory it found, by a complete site, and deletes
\* from it only what its inventory lists.
THEOREM Implements == Spec => SitesSpec
<1>1. Init => Sites!Init
  <2> SUFFICES ASSUME Init PROVE Sites!Init
    OBVIOUS
  <2>1. \A o \in Outputs : Current(o) \in Dirs \cup {None}
    BY DEF Init, Current, Dirs
  <2>2. [o \in Outputs |-> Current(o)] \in [Outputs -> Dirs \cup {None}]
    BY <2>1
  <2> QED
    BY <2>2 DEF Init, Sites!Init
<1>2. IInv /\ IInv' /\ [Next]_vars => [Sites!Next]_Sites!vars
  <2> SUFFICES ASSUME IInv, IInv', [Next]_vars PROVE Sites!Next \/ UNCHANGED Shown
    BY DEF Shown, Sites!vars
  <2>1. ASSUME NEW w \in Writers, Step(w) \/ Interrupt(w) \/ ForcedExit(w) \/ Crash(w)
        PROVE Sites!Next \/ UNCHANGED Shown
    <3>1. CASE Admit(w) \/ Accept(w) \/ Reject(w) \/ Found(w) \/ WriteOwner(w) \/ Mark(w)
               \/ Render(w) \/ MakeStage(w) \/ Settle(w) \/ Enter(w)
               \/ Interrupt(w) \/ ForcedExit(w) \/ Crash(w)
      BY <3>1, QuietSteps
         DEF Admit, Accept, Reject, Found, WriteOwner, Mark, Render, MakeStage, Settle,
             Enter, Interrupt, ForcedExit, Crash, disk, locals, bounds
    <3>2. CASE Reserve(w) \/ Capture(w) \/ Restore(w) \/ Rmdir(w) \/ Release(w)
      BY <3>2, ReserveKeeps, CaptureKeeps, RestoreKeeps, RmdirKeeps, ReleaseKeeps
    <3>3. CASE Look(w)
      BY <3>3, LookObserves DEF Sites!Next
    <3>4. CASE WriteFile(w) \/ Cleanup(w)
      BY <3>4, WriteFileStages, CleanupStages DEF Sites!Next
    <3>5. CASE Unlink(w)
      BY <3>5, UnlinkRetires DEF Sites!Next
    <3>6. CASE Commit(w)
      BY <3>6, CommitPublishes DEF Sites!Next
    <3> QED
      BY <2>1, <3>1, <3>2, <3>3, <3>4, <3>5, <3>6 DEF Step
  <2>2. CASE Others /\ output' \in [Outputs -> Dirs \cup {None}]
    <3>1. \A o \in Outputs : Current(o)' \in Dirs \cup {None}
      BY <2>2 DEF Current, IInv, TypeOK
    <3>2. [o \in Outputs |-> Current(o)]' \in [Outputs -> Dirs \cup {None}]
      BY <3>1
    <3>3. foreign' = foreign + 1 /\ UNCHANGED <<identity, installed>>
      BY <2>2 DEF Others, locals
    <3> QED
      BY <3>2, <3>3 DEF Sites!Next, Sites!Others
  <2>3. CASE UNCHANGED vars
    BY <2>3, QuietSteps DEF vars, disk, locals, bounds
  <2>4. output' \in [Outputs -> Dirs \cup {None}]
    BY DEF IInv, TypeOK
  <2> QED
    BY <2>1, <2>2, <2>3, <2>4 DEF Next, Appear, Leave, Extend
<1> QED
  BY <1>1, <1>2, Inductive, PTL DEF Spec, SitesSpec, Sites!Spec

-----------------------------------------------------------------------------
(* The upload exchange: the inductive invariant *)

\* The requests of a step: a Plan and a Complete are one, Blobs are of digests; a request
\* that waits for its turn was not tried, one that waits for another attempt has attempts.
PlacesOf(c) ==
    /\ phase[c] \in {"plan", "complete"} => \A d \in Digests : at[c][d] = "none"
    /\ phase[c] = "blobs" => at[c][Whole] = "none"
    /\ phase[c] \notin Running => \A k \in Keys : at[c][k] = "none"
    /\ \A k \in Keys : /\ at[c][k] \in {"none", "queued"} => tries[c][k] = 0
                       /\ at[c][k] = "backoff" => tries[c][k] < Tries

\* What was sent is in the count, or will be when the step ends.
BooksOf(c) == sent[c] = uploaded[c] \cup Attempted(c)

\* An upload that was answered says truly whether it is the publication; an upload that
\* was asked to complete is of a command that has begun.
Answers ==
    \A u \in Upload :
        /\ answer[u] = 201 => publication = u
        /\ answer[u] = 200 => publication # Nil
        /\ u \in asked => phase[u[1]] # "idle"

UploadInv == ExchangeTypeOK /\ (\A c \in Commands : PlacesOf(c) /\ BooksOf(c)) /\ Answers

-----------------------------------------------------------------------------
(* The invariant is inductive *)

\* The variables of the commands.
Local ==
    /\ phase \in [Commands -> Running \cup {"idle", "published", "kept", "failed", "cancelled"}]
    /\ round \in [Commands -> 0..1]
    /\ at \in [Commands -> [Keys -> {"none", "queued", "flying", "backoff", "stored"}]]
    /\ tries \in [Commands -> [Keys -> 0..Tries]]
    /\ uploaded \in [Commands -> SUBSET Digests] /\ sent \in [Commands -> SUBSET Digests]

Commanded == Local /\ \A c \in Commands : PlacesOf(c) /\ BooksOf(c)

\* Who has begun stays so, and no upload is asked to complete before.
Begun == \A c \in Commands : phase[c] # "idle" => phase'[c] # "idle"

LEMMA Names ==
    /\ Whole \in Keys /\ Digests \subseteq Keys /\ Whole \notin Digests
    /\ Tries \in Nat \ {0} /\ Files \in [Commands -> SUBSET Digests]
    /\ Nil \notin Commands \cup Upload \cup {200, 201}
    /\ \A d \in Keys : d \in Digests \/ d = Whole
BY ExchangeAssumption, NilAssumption DEF Keys

\* A step of a command begins with requests that nobody has tried, and what the step before
\* has tried is counted.
LEMMA GoesKeeps ==
    ASSUME Commanded, NEW c \in Commands,
           NEW next \in Running \cup {"published", "kept", "failed", "cancelled"},
           NEW ks \in SUBSET Keys, Goes(c, next, ks), round' \in [Commands -> 0..1],
           next \in {"plan", "complete"} => ks = {Whole}, next = "blobs" => ks \subseteq Digests,
           next \notin Running => ks = {}
    PROVE  Commanded' /\ Begun
<1> USE Names DEF Commanded
<1>1. Queued(ks) \in [Keys -> {"none", "queued", "flying", "backoff", "stored"}]
      /\ NotSent \in [Keys -> 0..Tries]
  BY DEF Queued, NotSent
<1>2. Attempted(c) \in SUBSET Digests
  BY DEF Attempted
<1>3. Local'
  BY <1>1, <1>2 DEF Local, Goes
<1>4. /\ phase'[c] = next /\ at'[c] = Queued(ks) /\ tries'[c] = NotSent
      /\ uploaded'[c] = uploaded[c] \cup Attempted(c) /\ sent' = sent
      /\ \A e \in Commands \ {c} : /\ phase'[e] = phase[e] /\ at'[e] = at[e] /\ tries'[e] = tries[e]
                                   /\ uploaded'[e] = uploaded[e]
  BY DEF Local, Goes
<1>5. PlacesOf(c)'
  BY <1>4 DEF PlacesOf, Queued, NotSent, Running
<1>6. BooksOf(c)'
  <2>1. Attempted(c)' = {}
    BY <1>4 DEF Attempted, NotSent
  <2> QED BY <1>4, <2>1 DEF BooksOf
<1>7. ASSUME NEW e \in Commands, e # c PROVE PlacesOf(e)' /\ BooksOf(e)'
  BY <1>4, <1>7 DEF PlacesOf, BooksOf, Attempted
<1>8. Begun
  BY <1>4 DEF Begun, Running
<1> QED BY <1>3, <1>5, <1>6, <1>7, <1>8

LEMMA EndsKeeps ==
    ASSUME Commanded, NEW c \in Commands,
           NEW outcome \in {"published", "kept", "failed", "cancelled"}, Ends(c, outcome)
    PROVE  Commanded' /\ Begun
<1>1. outcome \notin Running /\ round' \in [Commands -> 0..1]
  BY DEF Ends, Running, Commanded, Local
<1> QED BY <1>1, GoesKeeps DEF Ends, Running

LEMMA ReplansKeeps ==
    ASSUME Commanded, NEW c \in Commands, Replans(c) PROVE Commanded' /\ Begun
<1>1. round' \in [Commands -> 0..1]
  BY DEF Replans, Commanded, Local
<1>2. CASE round[c] = 0
  BY <1>1, <1>2, Names, GoesKeeps DEF Replans, Running
<1>3. CASE round[c] # 0
  BY <1>1, <1>3, Names, GoesKeeps DEF Replans, Running
<1> QED BY <1>2, <1>3

LEMMA SendKeeps ==
    ASSUME Commanded, NEW c \in Commands, NEW k \in Keys, Send(c, k)
    PROVE  Commanded' /\ Begun
<1> USE Names DEF Commanded
<1>1. /\ phase[c] \in Running /\ at[c][k] \in {"queued", "backoff"} /\ UNCHANGED <<phase, round, uploaded>>
      /\ at' = [at EXCEPT ![c][k] = "flying"] /\ tries' = [tries EXCEPT ![c][k] = @ + 1]
      /\ sent' = IF phase[c] = "blobs" THEN [sent EXCEPT ![c] = @ \cup {k}] ELSE sent
  BY DEF Send, Due
<1>2. phase[c] = "blobs" <=> k \in Digests
  BY <1>1 DEF PlacesOf, Running
<1>3. tries[c][k] \in 0..Tries /\ tries[c][k] < Tries
  BY <1>1 DEF PlacesOf, Local
<1>4. Local'
  BY <1>1, <1>2, <1>3 DEF Local
<1>5. /\ at'[c] = [at[c] EXCEPT ![k] = "flying"] /\ tries'[c] = [tries[c] EXCEPT ![k] = @ + 1]
      /\ \A e \in Commands \ {c} : at'[e] = at[e] /\ tries'[e] = tries[e] /\ sent'[e] = sent[e]
  BY <1>1 DEF Local
<1>6. PlacesOf(c)'
  <2>1. \A j \in Keys \ {k} : at'[c][j] = at[c][j] /\ tries'[c][j] = tries[c][j]
    BY <1>5 DEF Local
  <2>2. at'[c][k] = "flying"
    BY <1>5 DEF Local
  <2> QED BY <1>1, <1>2, <2>1, <2>2 DEF PlacesOf, Running
<1>7. BooksOf(c)'
  <2>1. CASE phase[c] = "blobs"
    <3>1. Attempted(c)' = Attempted(c) \cup {k}
      BY <1>1, <1>2, <1>3, <1>5, <2>1 DEF Attempted, Local
    <3>2. sent'[c] = sent[c] \cup {k}
      BY <1>1, <2>1 DEF Local
    <3> QED BY <1>1, <3>1, <3>2 DEF BooksOf
  <2>2. CASE phase[c] # "blobs"
    BY <1>1, <2>2 DEF BooksOf, Attempted
  <2> QED BY <2>1, <2>2
<1>8. ASSUME NEW e \in Commands, e # c PROVE PlacesOf(e)' /\ BooksOf(e)'
  BY <1>1, <1>5, <1>8 DEF PlacesOf, BooksOf, Attempted
<1> QED BY <1>1, <1>4, <1>6, <1>7, <1>8 DEF Begun

\* A request that waits changes its place.
LEMMA MovesKeeps ==
    ASSUME Commanded, NEW c \in Commands, NEW k \in Keys, NEW place \in {"backoff", "stored"},
           Waits(c, k), place = "backoff" => tries[c][k] < Tries,
           at' = [at EXCEPT ![c][k] = place], UNCHANGED <<phase, round, tries, uploaded, sent>>
    PROVE  Commanded' /\ Begun
<1> USE DEF Commanded
<1>1. Local'
  BY DEF Local
<1>2. /\ \A j \in Keys \ {k} : at'[c][j] = at[c][j]
      /\ at'[c][k] = place /\ \A e \in Commands \ {c} : at'[e] = at[e]
  BY DEF Local
<1>3. PlacesOf(c)'
  BY <1>2 DEF PlacesOf, Waits
<1>4. BooksOf(c)'
  BY DEF BooksOf, Attempted
<1>5. ASSUME NEW e \in Commands, e # c PROVE PlacesOf(e)' /\ BooksOf(e)'
  BY <1>2, <1>5 DEF PlacesOf, BooksOf, Attempted
<1> QED BY <1>1, <1>3, <1>4, <1>5 DEF Begun

\* The receiver's variables, and which uploads were asked to complete.
Received ==
    /\ asked \subseteq Upload /\ expired \subseteq Upload
    /\ answer \in [Upload -> {Nil, 200, 201}] /\ publication \in Upload \cup {Nil}

\* Every step but the arrival of a Complete and the answer that an upload has expired.
LEMMA QuietKeeps ==
    ASSUME UploadInv, NEW c \in Commands, NEW k \in Keys,
           \/ Begin(c) \/ Send(c, k) \/ TooLate(c, k) \/ Backoff(c, k)
           \/ Exhausted(c, k) \/ OutOfTime(c, k) \/ Spoiled(c, k) \/ Cancel(c)
           \/ Planned(c) \/ Lacking(c)
           \/ (k \in Digests /\ Stored(c, k)) \/ Gone(c, k) \/ Rejected(c, k)
    PROVE  Commanded' /\ Begun /\ UNCHANGED <<answer, publication>>
<1>1. Commanded
  BY DEF UploadInv, ExchangeTypeOK, Commanded, Local
<1>2. CASE Begin(c)
  <2>1. round' \in [Commands -> 0..1]
    BY <1>1, <1>2 DEF Begin, Commanded, Local
  <2> QED BY <1>1, <1>2, <2>1, Names, GoesKeeps DEF Begin, Running, receiver
<1>3. CASE Send(c, k)
  BY <1>1, <1>3, SendKeeps DEF Send, receiver
<1>4. CASE TooLate(c, k) \/ OutOfTime(c, k) \/ Lacking(c) \/ Gone(c, k)
  BY <1>1, <1>4, ReplansKeeps DEF TooLate, OutOfTime, Lacking, Gone, receiver
<1>5. CASE Exhausted(c, k) \/ Spoiled(c, k) \/ Cancel(c) \/ Rejected(c, k)
  BY <1>1, <1>5, EndsKeeps DEF Exhausted, Spoiled, Cancel, Rejected, receiver
<1>6. CASE Backoff(c, k)
  BY <1>1, <1>6, MovesKeeps DEF Backoff, receiver
<1>7. CASE Planned(c)
  <2>1. PICK missing \in SUBSET Files[c] :
            Goes(c, IF missing = {} THEN "complete" ELSE "blobs",
                 IF missing = {} THEN {Whole} ELSE missing)
    BY <1>7 DEF Planned
  <2>2. missing \subseteq Digests /\ round' \in [Commands -> 0..1]
    BY <1>1, <1>7, Names DEF Planned, Commanded, Local
  <2>3. Commanded' /\ Begun
    <3>1. CASE missing = {}
      BY <1>1, <2>1, <2>2, <3>1, Names, GoesKeeps DEF Running
    <3>2. CASE missing # {}
      BY <1>1, <2>1, <2>2, <3>2, Names, GoesKeeps DEF Running
    <3> QED BY <3>1, <3>2
  <2> QED BY <1>7, <2>3 DEF Planned, receiver
<1>8. CASE k \in Digests /\ Stored(c, k)
  <2>1. CASE Goes(c, "complete", {Whole})
    <3>1. round' \in [Commands -> 0..1]
      BY <1>1, <1>8 DEF Stored, Commanded, Local
    <3> QED BY <1>1, <1>8, <2>1, <3>1, Names, GoesKeeps DEF Running, Stored, receiver
  <2>2. CASE at' = [at EXCEPT ![c][k] = "stored"] /\ UNCHANGED <<phase, tries, uploaded, sent>>
    BY <1>1, <1>8, <2>2, MovesKeeps DEF Stored, receiver
  <2> QED BY <1>8, <2>1, <2>2 DEF Stored
<1> QED BY <1>2, <1>3, <1>4, <1>5, <1>6, <1>7, <1>8

LEMMA CurrentUpload ==
    ASSUME Commanded, NEW c \in Commands PROVE UploadOf(c) \in Upload /\ UploadOf(c)[1] = c
BY DEF Commanded, Local, UploadOf, Upload

LEMMA QuietInv ==
    ASSUME UploadInv, NEW c \in Commands, NEW k \in Keys,
           \/ Begin(c) \/ Send(c, k) \/ TooLate(c, k) \/ Backoff(c, k)
           \/ Exhausted(c, k) \/ OutOfTime(c, k) \/ Spoiled(c, k) \/ Cancel(c)
           \/ Planned(c) \/ Lacking(c)
           \/ (k \in Digests /\ Stored(c, k)) \/ Gone(c, k) \/ Rejected(c, k)
    PROVE  UploadInv'
<1>1. Commanded' /\ Begun /\ UNCHANGED <<answer, publication>>
  BY QuietKeeps
<1>2. Commanded /\ Received
  BY DEF UploadInv, ExchangeTypeOK, Commanded, Local, Received
<1>3. expired' \in {expired, expired \cup {UploadOf(c)}}
  BY DEF Begin, Send, TooLate, Backoff, Exhausted, OutOfTime, Spoiled, Cancel, Planned, Lacking,
         Stored, Gone, Rejected, receiver
<1>4. asked' = asked \/ (asked' = asked \cup {UploadOf(c)} /\ phase[c] = "complete")
  BY DEF Begin, Send, TooLate, Backoff, Exhausted, OutOfTime, Spoiled, Cancel, Planned, Lacking,
         Stored, Gone, Rejected, receiver
<1>5. Received'
  BY <1>1, <1>2, <1>3, <1>4, CurrentUpload DEF Received
<1>6. Answers'
  <2>1. \A u \in Upload : u[1] \in Commands
    BY DEF Upload
  <2>2. UploadOf(c)[1] = c
    BY <1>2, CurrentUpload
  <2> QED BY <1>1, <1>4, <2>1, <2>2 DEF UploadInv, Answers, Begun
<1> QED BY <1>1, <1>5, <1>6 DEF UploadInv, ExchangeTypeOK, Commanded, Local, Received

\* The first Complete makes its upload the publication, and no later one changes it.
LEMMA CompletedAnswers ==
    ASSUME Received, Answers, NEW u \in Upload, Completed(u)
    PROVE  /\ Received'
           /\ \A v \in Upload : /\ answer'[v] = 201 => publication' = v
                                /\ answer'[v] = 200 => publication' # Nil
           /\ publication' # Nil /\ answer'[u] = Status(u)
           /\ publication # Nil => publication' = publication
<1>1. /\ answer' = [answer EXCEPT ![u] = Status(u)]
      /\ publication' = IF publication = Nil THEN u ELSE publication
      /\ UNCHANGED <<asked, expired>>
  BY DEF Completed
<1>2. Status(u) \in {200, 201}
  BY DEF Received, Status
<1>3. publication' # Nil /\ publication' \in Upload
  BY <1>1, Names DEF Received
<1>4. answer'[u] = Status(u) /\ \A v \in Upload \ {u} : answer'[v] = answer[v]
  BY <1>1 DEF Received
<1>5. Status(u) = 201 => publication' = u
  BY <1>1, Names DEF Status, Answers, Received
<1>6. \A v \in Upload \ {u} : answer'[v] = 201 => publication' = v
  BY <1>1, <1>4, Names DEF Answers
<1> QED BY <1>1, <1>2, <1>3, <1>4, <1>5, <1>6 DEF Received

LEMMA CompletedInv ==
    ASSUME UploadInv, NEW u \in asked, Completed(u) PROVE UploadInv'
<1>1. Commanded /\ Received /\ u \in Upload /\ \A v \in Upload : v[1] \in Commands
  BY DEF UploadInv, ExchangeTypeOK, Commanded, Local, Received, Upload
<1>2. Commanded' /\ Begun
  <2>1. CASE UNCHANGED <<phase, round, at, tries, uploaded, sent>>
    BY <1>1, <2>1 DEF Commanded, Local, PlacesOf, BooksOf, Attempted, Begun
  <2>2. CASE \E c \in Commands : Ends(c, Outcome(Status(u)))
    BY <1>1, <2>2, EndsKeeps DEF Outcome
  <2> QED BY <2>1, <2>2 DEF Completed
<1>3. Received' /\ \A v \in Upload : /\ answer'[v] = 201 => publication' = v
                                     /\ answer'[v] = 200 => publication' # Nil
  BY <1>1, CompletedAnswers DEF UploadInv
<1>4. \A v \in Upload : v \in asked' => phase'[v[1]] # "idle"
  BY <1>1, <1>2 DEF UploadInv, Answers, Begun, Completed
<1>5. Answers'
  <2> SUFFICES ASSUME NEW v \in Upload
               PROVE  /\ answer'[v] = 201 => publication' = v
                      /\ answer'[v] = 200 => publication' # Nil
                      /\ v \in asked' => phase'[v[1]] # "idle"
    BY DEF Answers
  <2> QED BY <1>3, <1>4
<1> QED BY <1>2, <1>3, <1>5 DEF UploadInv, ExchangeTypeOK, Commanded, Local, Received

\* Types, places and books hold for any receiver and any answers.
THEOREM Uploads == ExchangeSpec => []UploadInv
<1>1. ExchangeInit => UploadInv
  <2> SUFFICES ASSUME ExchangeInit PROVE UploadInv
    OBVIOUS
  <2>1. ExchangeTypeOK
    <3>1. Queued({}) \in [Keys -> {"none", "queued", "flying", "backoff", "stored"}]
          /\ NotSent \in [Keys -> 0..Tries]
      BY Names DEF Queued, NotSent
    <3> QED BY <3>1 DEF ExchangeInit, ExchangeTypeOK
  <2>2. \A c \in Commands : PlacesOf(c) /\ BooksOf(c)
    BY DEF ExchangeInit, PlacesOf, BooksOf, Attempted, Queued, NotSent, Running
  <2>3. Answers
    BY Names DEF ExchangeInit, Answers
  <2> QED BY <2>1, <2>2, <2>3 DEF UploadInv
<1>2. UploadInv /\ [ExchangeNext]_exchange => UploadInv'
  <2> SUFFICES ASSUME UploadInv, [ExchangeNext]_exchange PROVE UploadInv'
    OBVIOUS
  <2>1. ASSUME NEW c \in Commands, Begin(c) \/ Attempting(c) \/ Cancel(c) \/ Answer(c) PROVE UploadInv'
    BY <2>1, Names, QuietInv DEF Attempting, Answer
  <2>2. CASE UNCHANGED exchange
    BY <2>2 DEF exchange, receiver, UploadInv, ExchangeTypeOK, PlacesOf, BooksOf, Attempted, Waits, Answers
  <2> QED BY <2>1, <2>2, CompletedInv DEF ExchangeNext
<1> QED BY <1>1, <1>2, PTL DEF ExchangeSpec

\* Types of the exchange, its attempts included (retry.rs, send).
THEOREM UploadsTyped == ExchangeSpec => []ExchangeTypeOK
<1>1. UploadInv => ExchangeTypeOK
  BY DEF UploadInv
<1>2. ExchangeSpec => []UploadInv
  BY Uploads
<1> QED BY <1>1, <1>2, PTL

\* The receipt counts what was sent, whichever rounds and attempts there were.
THEOREM AttemptsAreCounted == ExchangeSpec => []AttemptsCounted
<1>1. UploadInv => AttemptsCounted
  BY DEF UploadInv, BooksOf, Attempted, AttemptsCounted
<1>2. ExchangeSpec => []UploadInv
  BY Uploads
<1> QED BY <1>1, <1>2, PTL

-----------------------------------------------------------------------------
(* The exchange implements KeptPublication *)

told == [c \in Commands |-> IF phase[c] \in Running THEN "running" ELSE phase[c]]
kept == IF publication = Nil THEN Nil ELSE publication[1]

\* What a step of a command says.
LEMMA Says ==
    ASSUME Commanded, NEW c \in Commands, NEW next,
           phase' = [phase EXCEPT ![c] = next], phase[c] \in Running
    PROVE  told' = [told EXCEPT ![c] = IF next \in Running THEN "running" ELSE next]
BY DEF Commanded, Local, told

LEMMA SaysNothing ==
    ASSUME Commanded, NEW c \in Commands, NEW next \in Running,
           phase' = [phase EXCEPT ![c] = next], phase[c] \in Running
    PROVE  UNCHANGED told
<1>1. told' = [told EXCEPT ![c] = "running"] /\ told[c] = "running"
  BY Says DEF told
<1> QED BY <1>1 DEF told

LEMMA SaysOutcome ==
    ASSUME Commanded, NEW c \in Commands, phase[c] \in Running, UNCHANGED publication,
           NEW outcome \in {"failed", "cancelled"}, phase' = [phase EXCEPT ![c] = outcome]
    PROVE  Kept!Say(c, outcome)
<1>1. told' = [told EXCEPT ![c] = outcome] /\ told[c] = "running" /\ UNCHANGED kept
  BY Says DEF told, kept, Running
<1> QED BY <1>1 DEF Kept!Say, told, kept

\* Whatever the command does by itself, and every answer but that of a Complete.
LEMMA QuietSays ==
    ASSUME UploadInv, NEW c \in Commands, NEW k \in Keys,
           \/ Begin(c) \/ Send(c, k) \/ TooLate(c, k) \/ Backoff(c, k)
           \/ Exhausted(c, k) \/ OutOfTime(c, k) \/ Spoiled(c, k) \/ Cancel(c)
           \/ Planned(c) \/ Lacking(c)
           \/ (k \in Digests /\ Stored(c, k)) \/ Gone(c, k) \/ Rejected(c, k)
    PROVE  Kept!Next \/ UNCHANGED <<kept, told>>
<1>1. Commanded /\ UNCHANGED publication
  BY QuietKeeps DEF UploadInv, ExchangeTypeOK, Commanded, Local
<1>2. UNCHANGED kept
  BY <1>1 DEF kept
<1>3. CASE UNCHANGED phase
  BY <1>2, <1>3 DEF told
<1>4. CASE Begin(c)
  <2>1. told[c] = "idle" /\ told' = [told EXCEPT ![c] = "running"]
    BY <1>1, <1>4 DEF Begin, Goes, Commanded, Local, told, Running
  <2> QED BY <1>2, <2>1 DEF Kept!Next, Kept!Begin, told, kept
<1>5. ASSUME NEW next \in {"plan", "blobs", "complete"}, phase[c] \in Running, phase' = [phase EXCEPT ![c] = next]
      PROVE  UNCHANGED told
  BY <1>1, <1>5, SaysNothing DEF Running
<1>6. ASSUME NEW outcome \in {"failed", "cancelled"}, phase[c] \in Running, phase' = [phase EXCEPT ![c] = outcome]
      PROVE  Kept!Next
  BY <1>1, <1>6, SaysOutcome DEF Kept!Next
<1>7. CASE TooLate(c, k) \/ OutOfTime(c, k) \/ Lacking(c) \/ Gone(c, k)
  <2>1. phase[c] \in Running /\ Replans(c)
    BY <1>7 DEF TooLate, Due, OutOfTime, Waits, Lacking, Gone
  <2>2. phase' = [phase EXCEPT ![c] = "plan"] \/ phase' = [phase EXCEPT ![c] = "failed"]
    BY <2>1 DEF Replans, Goes
  <2> QED BY <1>2, <1>5, <1>6, <2>1, <2>2
<1>8. CASE Exhausted(c, k) \/ Spoiled(c, k) \/ Cancel(c) \/ Rejected(c, k)
  <2>1. phase[c] \in Running
    BY <1>8 DEF Exhausted, Spoiled, Due, Cancel, Rejected, Waits
  <2>2. phase' = [phase EXCEPT ![c] = "failed"] \/ phase' = [phase EXCEPT ![c] = "cancelled"]
    BY <1>8 DEF Exhausted, Spoiled, Cancel, Rejected, Ends, Goes
  <2> QED BY <1>6, <2>1, <2>2
<1>9. CASE Planned(c) \/ Stored(c, k)
  <2>1. phase[c] \in Running
    BY <1>9 DEF Planned, Stored, Waits
  <2>2. UNCHANGED phase \/ phase' = [phase EXCEPT ![c] = "complete"] \/ phase' = [phase EXCEPT ![c] = "blobs"]
    BY <1>9 DEF Planned, Stored, Goes
  <2> QED BY <1>2, <1>3, <1>5, <2>1, <2>2
<1> QED BY <1>3, <1>4, <1>7, <1>8, <1>9 DEF Send, Backoff

\* The arrival of a Complete keeps its build if none was kept, and says so.
LEMMA CompletedSays ==
    ASSUME UploadInv, NEW u \in asked, Completed(u)
    PROVE  Kept!Next \/ UNCHANGED <<kept, told>>
<1>1. /\ Commanded /\ Received /\ Answers /\ u \in Upload /\ u[1] \in Commands
      /\ \A v \in Upload : v[1] \in Commands
      /\ phase[u[1]] # "idle"
  BY DEF UploadInv, ExchangeTypeOK, Commanded, Local, Received, Answers, Upload
<1>2. /\ answer'[u] = Status(u) /\ publication' # Nil
      /\ answer'[u] = 201 => publication' = u
      /\ publication # Nil => publication' = publication
      /\ publication = Nil => publication' = u
  BY <1>1, CompletedAnswers DEF Completed
<1>3. /\ publication # Nil => kept' = kept /\ kept' \in Commands
      /\ publication = Nil => kept = Nil /\ kept' = u[1]
      /\ kept' # Nil
  BY <1>1, <1>2, Names DEF kept, Received
<1>4. told[u[1]] # "idle"
  BY <1>1 DEF told, Running
<1>5. CASE UNCHANGED phase
  <2>1. UNCHANGED told
    BY <1>5 DEF told
  <2>2. publication = Nil => Kept!Keep(u[1])
    BY <1>1, <1>3, <1>4, <2>1 DEF Kept!Keep, kept, told
  <2> QED BY <1>1, <1>3, <2>1, <2>2 DEF Kept!Next
<1>6. ASSUME NEW c \in Commands, phase[c] = "complete", UploadOf(c) = u, Ends(c, Outcome(Status(u)))
      PROVE  Kept!Next
  <2>1. u[1] = c /\ phase[c] \in Running /\ phase' = [phase EXCEPT ![c] = Outcome(Status(u))]
    BY <1>6, <1>1, CurrentUpload DEF Running, Ends, Goes
  <2>2. Outcome(Status(u)) \in {"published", "kept"} /\ Outcome(Status(u)) \notin Running
    BY DEF Outcome, Running
  <2>3. told' = [told EXCEPT ![c] = Outcome(Status(u))] /\ told[c] = "running"
    BY <1>1, <2>1, <2>2, Says DEF told
  <2>4. CASE publication = Nil
    <3>1. Status(u) = 201 \/ answer[u] # Nil
      BY <2>4 DEF Status
    <3>2. answer[u] = Nil
      BY <1>1, <2>4, Names DEF Answers, Received
    <3>3. Outcome(Status(u)) = "published"
      BY <3>1, <3>2 DEF Outcome
    <3>4. told' = [told EXCEPT ![c] = "published"]
      BY <2>3, <3>3
    <3>5. Kept!Keep(c)
      BY <1>3, <2>1, <2>3, <2>4, <3>4 DEF Kept!Keep, kept, told
    <3> QED BY <3>5 DEF Kept!Next
  <2>5. CASE publication # Nil
    <3>1. Outcome(Status(u)) = "published" => Status(u) = 201
      BY DEF Outcome
    <3>2. Outcome(Status(u)) = "published" => kept' = c
      BY <1>2, <2>1, <3>1, Names, <1>1 DEF kept
    <3>3. kept' = kept /\ kept # Nil
      BY <1>3, <2>5
    <3>4. PICK outcome \in {"published", "kept"} : outcome = Outcome(Status(u))
      BY <2>2
    <3>5. Kept!Say(c, outcome)
      BY <2>3, <3>2, <3>3, <3>4 DEF Kept!Say, kept, told
    <3> QED BY <3>5 DEF Kept!Next
  <2> QED BY <2>4, <2>5
<1> QED BY <1>5, <1>6 DEF Completed

\* Of one revision the receiver keeps the first build that completes, and what a command
\* says of it is true, whatever is lost, late or repeated.
THEOREM KeptFirst == ExchangeSpec => KeptSpec
<1>1. ExchangeInit => Kept!Init
  BY DEF ExchangeInit, Kept!Init, Running
<1>2. UploadInv /\ [ExchangeNext]_exchange => [Kept!Next]_(Kept!vars)
  <2> SUFFICES ASSUME UploadInv, [ExchangeNext]_exchange PROVE Kept!Next \/ UNCHANGED <<kept, told>>
    BY DEF Kept!vars, kept, told
  <2>1. ASSUME NEW c \in Commands, Begin(c) \/ Attempting(c) \/ Cancel(c) \/ Answer(c)
        PROVE  Kept!Next \/ UNCHANGED <<kept, told>>
    BY <2>1, Names, QuietSays DEF Attempting, Answer
  <2>2. CASE UNCHANGED exchange
    BY <2>2 DEF exchange, receiver, kept, told
  <2> QED BY <2>1, <2>2, CompletedSays DEF ExchangeNext
<1>3. ExchangeSpec => []UploadInv
  BY Uploads
<1> QED BY <1>1, <1>2, <1>3, PTL DEF ExchangeSpec, KeptSpec, Kept!Spec
=============================================================================
