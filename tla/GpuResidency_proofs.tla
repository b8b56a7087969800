----------------------- MODULE GpuResidency_proofs -----------------------
(***************************************************************************)
(* What holds of the three locks for every number of workers, devices and  *)
(* tasks: one holder each, no deadlock, a sound engine for every           *)
(* inference, one build of the index, and an exact count of the rebuilds.  *)
(***************************************************************************)
EXTENDS GpuResidency, FiniteSetTheorems, TLAPS

-----------------------------------------------------------------------------
(* The inductive invariant.                                                *)

\* TypeOK, but for the fact that LOADING never falls below zero.
Types ==
  /\ engine \in {"none", "sound", "failed"}
  /\ engineLock \in Tasks \cup {NoOne} /\ poisoned \in BOOLEAN
  /\ miners \subseteq Devices /\ minersLock \in Workers \cup {NoOne}
  /\ indexBuilt \in BOOLEAN /\ builds \in 0..MaxBuilds
  /\ indexLock \in Workers \cup {NoOne}
  /\ loading \in Int
  /\ wpc \in [Workers -> WorkerPC] /\ tpc \in [Tasks -> TaskPC]
  /\ lineup \in {"before", "evicting", "after"}

\* Who is where decides who holds a lock.
LockInv ==
  /\ \A t \in Tasks : engineLock = t <=> tpc[t] \in {"uninstall", "load", "generate"}
  /\ \A w \in Workers : minersLock = w <=> wpc[w] = "mining"
  /\ \A w \in Workers : indexLock = w <=> wpc[w] \in {"relook", "build"}

\* A panic leaves its engine under a poisoned lock only.
EngineInv ==
  /\ \A t \in Tasks : tpc[t] \in {"uninstall", "load"} => engine = "none"
  /\ InferenceOnSoundEngine
  /\ engine = "failed" => poisoned

\* The index is built exactly if somebody has built it, and whoever is about to has
\* seen that under the lock.
IndexInv ==
  /\ builds = IF indexBuilt THEN 1 ELSE 0
  /\ \A w \in Workers : wpc[w] = "build" => ~indexBuilt

IInv == Types /\ LockInv /\ EngineInv /\ IndexInv /\ LoadingExact

-----------------------------------------------------------------------------
(* Initial states and steps that change nothing.                           *)

\* The program starts in the invariant.
LEMMA InitIInv == Init => IInv
<1> SUFFICES ASSUME Init PROVE IInv
  OBVIOUS
<1>1. Types
  <2>1. wpc \in [Workers -> WorkerPC] /\ tpc \in [Tasks -> TaskPC]
    BY DEF Init, WorkerPC, TaskPC
  <2>2. builds \in 0..MaxBuilds /\ loading \in Int
    BY MaxBuildsAssumption DEF Init
  <2> QED
    BY <2>1, <2>2 DEF Init, Types
<1>2. LockInv
  BY ThreadsAssumption DEF Init, LockInv
<1>3. EngineInv /\ IndexInv
  BY DEF Init, EngineInv, InferenceOnSoundEngine, IndexInv
<1>4. LoadingExact
  <2>1. {w \in Workers : Rebuilding(w) \/ wpc[w] = "dead"} = {}
    BY DEF Init, Rebuilding
  <2> QED
    BY <2>1, FS_EmptySet DEF Init, LoadingExact
<1> QED
  BY <1>1, <1>2, <1>3, <1>4 DEF IInv

-----------------------------------------------------------------------------
(* Steps.                                                                  *)

\* No step leaves the types.
LEMMA NextTypes ==
  ASSUME Types, [Next]_vars
  PROVE  Types'
<1> USE WorkersAssumption, DeviceAssumption DEF Types, WorkerPC, TaskPC, WorkerGoes, TaskGoes,
           Installed, engineVars, minerVars, indexVars
<1>1. ASSUME NEW w \in Workers, GetJob(w) \/ WorkerStep(w)
      PROVE  Types'
  <2>1. CASE GetJob(w)
    BY <2>1 DEF GetJob
  <2>2. CASE CheckInstalled(w)
    BY <2>2 DEF CheckInstalled
  <2>3. CASE EnsureInstalled(w)
    BY <2>3 DEF EnsureInstalled
  <2>4. CASE FindIndex(w)
    BY <2>4 DEF FindIndex
  <2>5. CASE LockIndex(w)
    BY <2>5 DEF LockIndex
  <2>6. CASE RelookIndex(w)
    BY <2>6 DEF RelookIndex
  <2>7. CASE BuildIndex(w)
    <3>1. builds' \in 0..MaxBuilds
      BY <2>7, MaxBuildsAssumption DEF BuildIndex
    <3> QED
      BY <2>7, <3>1 DEF BuildIndex
  <2>8. CASE ShareWeights(w)
    BY <2>8 DEF ShareWeights
  <2>9. CASE LoadMiner(w)
    BY <2>9 DEF LoadMiner
  <2>10. CASE Install(w)
    BY <2>10 DEF Install
  <2>11. CASE Leave(w)
    BY <2>11 DEF Leave
  <2>12. CASE Mine(w)
    BY <2>12 DEF Mine
  <2>13. CASE BatchEnds(w)
    BY <2>13 DEF BatchEnds
  <2> QED
    BY <1>1,
       <2>1, <2>2, <2>3, <2>4, <2>5, <2>6, <2>7, <2>8, <2>9, <2>10, <2>11, <2>12, <2>13
    DEF WorkerStep
<1>2. ASSUME NEW t \in Tasks, StartInference(t) \/ TaskStep(t)
      PROVE  Types'
  <2>1. CASE StartInference(t)
    BY <2>1 DEF StartInference
  <2>2. CASE LockEngine(t)
    BY <2>2 DEF LockEngine
  <2>3. CASE Uninstall(t)
    BY <2>3 DEF Uninstall
  <2>4. CASE LoadEngine(t)
    BY <2>4 DEF LoadEngine, Unlock
  <2>5. CASE Generate(t)
    BY <2>5 DEF Generate, Unlock
  <2>6. CASE AfterPanic(t)
    BY <2>6 DEF AfterPanic
  <2> QED
    BY <1>2, <2>1, <2>2, <2>3, <2>4, <2>5, <2>6 DEF TaskStep
<1>3. CASE SwitchLineup
  BY <1>3 DEF SwitchLineup
<1>4. CASE EvictEngine
  BY <1>4 DEF EvictEngine
<1>5. CASE UNCHANGED vars
  BY <1>5 DEF vars
<1> QED
  BY <1>1, <1>2, <1>3, <1>4, <1>5 DEF Next

\* No step gives a lock to two threads, or to one that is elsewhere.
LEMMA NextLockInv ==
  ASSUME Types, LockInv, [Next]_vars
  PROVE  LockInv'
<1> USE ThreadsAssumption DEF Types, LockInv, WorkerPC, TaskPC, WorkerGoes, TaskGoes,
           Installed, engineVars, minerVars, indexVars
<1>1. ASSUME NEW w \in Workers, GetJob(w) \/ WorkerStep(w)
      PROVE  LockInv'
  <2>1. CASE GetJob(w)
    BY <2>1 DEF GetJob
  <2>2. CASE CheckInstalled(w)
    BY <2>2 DEF CheckInstalled
  <2>3. CASE EnsureInstalled(w)
    BY <2>3 DEF EnsureInstalled
  <2>4. CASE FindIndex(w)
    BY <2>4 DEF FindIndex
  <2>5. CASE LockIndex(w)
    BY <2>5 DEF LockIndex
  <2>6. CASE RelookIndex(w)
    BY <2>6 DEF RelookIndex
  <2>7. CASE BuildIndex(w)
    BY <2>7 DEF BuildIndex
  <2>8. CASE ShareWeights(w)
    BY <2>8 DEF ShareWeights
  <2>9. CASE LoadMiner(w)
    BY <2>9 DEF LoadMiner
  <2>10. CASE Install(w)
    BY <2>10 DEF Install
  <2>11. CASE Leave(w)
    BY <2>11 DEF Leave
  <2>12. CASE Mine(w)
    BY <2>12 DEF Mine
  <2>13. CASE BatchEnds(w)
    BY <2>13 DEF BatchEnds
  <2> QED
    BY <1>1,
       <2>1, <2>2, <2>3, <2>4, <2>5, <2>6, <2>7, <2>8, <2>9, <2>10, <2>11, <2>12, <2>13
    DEF WorkerStep
<1>2. ASSUME NEW t \in Tasks, StartInference(t) \/ TaskStep(t)
      PROVE  LockInv'
  <2>1. CASE StartInference(t)
    BY <2>1 DEF StartInference
  <2>2. CASE LockEngine(t)
    BY <2>2 DEF LockEngine
  <2>3. CASE Uninstall(t)
    BY <2>3 DEF Uninstall
  <2>4. CASE LoadEngine(t)
    BY <2>4 DEF LoadEngine, Unlock
  <2>5. CASE Generate(t)
    BY <2>5 DEF Generate, Unlock
  <2>6. CASE AfterPanic(t)
    BY <2>6 DEF AfterPanic
  <2> QED
    BY <1>2, <2>1, <2>2, <2>3, <2>4, <2>5, <2>6 DEF TaskStep
<1>3. CASE SwitchLineup
  BY <1>3 DEF SwitchLineup
<1>4. CASE EvictEngine
  BY <1>4 DEF EvictEngine
<1>5. CASE UNCHANGED vars
  BY <1>5 DEF vars
<1> QED
  BY <1>1, <1>2, <1>3, <1>4, <1>5 DEF Next

\* No step brings a task to an engine that a panic has left.
LEMMA NextEngineInv ==
  ASSUME Types, LockInv, EngineInv, [Next]_vars
  PROVE  EngineInv'
<1> USE ThreadsAssumption DEF Types, LockInv, EngineInv, InferenceOnSoundEngine,
           TaskGoes, engineVars
<1>1. ASSUME NEW w \in Workers, GetJob(w) \/ WorkerStep(w)
      PROVE  EngineInv'
  <2>1. UNCHANGED <<engineVars, tpc>>
    BY <1>1 DEF WorkerStep,
      GetJob, CheckInstalled, EnsureInstalled, FindIndex, LockIndex, RelookIndex, BuildIndex,
      ShareWeights, LoadMiner, Install, Leave, Mine, BatchEnds
  <2> QED
    BY <2>1
<1>2. ASSUME NEW t \in Tasks, StartInference(t) \/ TaskStep(t)
      PROVE  EngineInv'
  <2>1. CASE StartInference(t)
    BY <2>1 DEF StartInference
  <2>2. CASE LockEngine(t)
    BY <2>2 DEF LockEngine
  <2>3. CASE Uninstall(t)
    BY <2>3 DEF Uninstall
  <2>4. CASE LoadEngine(t)
    BY <2>4 DEF LoadEngine, Unlock
  <2>5. CASE Generate(t)
    BY <2>5 DEF Generate, Unlock
  <2>6. CASE AfterPanic(t)
    BY <2>6 DEF AfterPanic
  <2> QED
    BY <1>2, <2>1, <2>2, <2>3, <2>4, <2>5, <2>6 DEF TaskStep
<1>3. CASE SwitchLineup
  BY <1>3 DEF SwitchLineup
<1>4. CASE EvictEngine
  BY <1>4 DEF EvictEngine
<1>5. CASE UNCHANGED vars
  BY <1>5 DEF vars
<1> QED
  BY <1>1, <1>2, <1>3, <1>4, <1>5 DEF Next

\* No step builds the index a second time.
LEMMA NextIndexInv ==
  ASSUME Types, LockInv, IndexInv, [Next]_vars
  PROVE  IndexInv'
<1> USE ThreadsAssumption DEF Types, LockInv, IndexInv, WorkerGoes, indexVars
<1>1. ASSUME NEW w \in Workers, GetJob(w) \/ WorkerStep(w)
      PROVE  IndexInv'
  <2>1. CASE GetJob(w)
    BY <2>1 DEF GetJob
  <2>2. CASE CheckInstalled(w)
    BY <2>2 DEF CheckInstalled
  <2>3. CASE EnsureInstalled(w)
    BY <2>3 DEF EnsureInstalled
  <2>4. CASE FindIndex(w)
    BY <2>4 DEF FindIndex
  <2>5. CASE LockIndex(w)
    BY <2>5 DEF LockIndex
  <2>6. CASE RelookIndex(w)
    BY <2>6 DEF RelookIndex
  <2>7. CASE BuildIndex(w)
    BY <2>7 DEF BuildIndex
  <2>8. CASE ShareWeights(w)
    BY <2>8 DEF ShareWeights
  <2>9. CASE LoadMiner(w)
    BY <2>9 DEF LoadMiner
  <2>10. CASE Install(w)
    BY <2>10 DEF Install
  <2>11. CASE Leave(w)
    BY <2>11 DEF Leave
  <2>12. CASE Mine(w)
    BY <2>12 DEF Mine
  <2>13. CASE BatchEnds(w)
    BY <2>13 DEF BatchEnds
  <2> QED
    BY <1>1,
       <2>1, <2>2, <2>3, <2>4, <2>5, <2>6, <2>7, <2>8, <2>9, <2>10, <2>11, <2>12, <2>13
    DEF WorkerStep
<1>2. ASSUME NEW t \in Tasks, StartInference(t) \/ TaskStep(t)
      PROVE  IndexInv'
  <2>1. UNCHANGED <<indexVars, wpc>>
    BY <1>2 DEF TaskStep,
      StartInference, LockEngine, Uninstall, LoadEngine, Generate, AfterPanic
  <2> QED
    BY <2>1
<1>3. CASE SwitchLineup
  BY <1>3 DEF SwitchLineup
<1>4. CASE EvictEngine
  BY <1>4 DEF EvictEngine
<1>5. CASE UNCHANGED vars
  BY <1>5 DEF vars
<1> QED
  BY <1>1, <1>2, <1>3, <1>4, <1>5 DEF Next

-----------------------------------------------------------------------------
(* The count of rebuilds.                                                  *)

Rebuilds == {w \in Workers : Rebuilding(w) \/ wpc[w] = "dead"}

\* The set that LOADING counts is finite.
LEMMA RebuildsFinite == IsFiniteSet(Rebuilds) /\ Cardinality(Rebuilds) \in Nat
<1>1. Rebuilds \in SUBSET Workers
  BY DEF Rebuilds
<1> QED
  BY <1>1, WorkersAssumption, FS_Subset, FS_CardinalityType

\* Only EnsureInstalled and Leave change who rebuilds, and they count it.
LEMMA NextLoadingExact ==
  ASSUME Types, LoadingExact, [Next]_vars
  PROVE  LoadingExact'
<1> USE DEF Types
<1>0. loading = Cardinality(Rebuilds)
  BY DEF LoadingExact, Rebuilds
<1>1. ASSUME Rebuilds' = Rebuilds, loading' = loading
      PROVE  LoadingExact'
  BY <1>0, <1>1 DEF LoadingExact, Rebuilds
<1>2. ASSUME NEW w \in Workers, GetJob(w) \/ WorkerStep(w)
      PROVE  LoadingExact'
  <2>1. CASE GetJob(w)
    <3>1. Rebuilds' = Rebuilds /\ loading' = loading
      BY <2>1 DEF GetJob, Rebuilds, Rebuilding, WorkerGoes, Installed
    <3> QED
      BY <3>1, <1>1
  <2>2. CASE CheckInstalled(w)
    <3>1. Rebuilds' = Rebuilds /\ loading' = loading
      BY <2>2 DEF CheckInstalled, Rebuilds, Rebuilding, WorkerGoes, Installed
    <3> QED
      BY <3>1, <1>1
  <2>3. CASE EnsureInstalled(w)
    <3>1. CASE Installed(w)
      <4>1. Rebuilds' = Rebuilds /\ loading' = loading
        BY <2>3, <3>1 DEF EnsureInstalled, Rebuilds, Rebuilding, WorkerGoes, Installed
      <4> QED
        BY <4>1, <1>1
    <3>2. CASE ~Installed(w)
      <4>1. Rebuilds' = Rebuilds \cup {w} /\ w \notin Rebuilds
        BY <2>3, <3>2 DEF EnsureInstalled, Rebuilds, Rebuilding, WorkerGoes, Installed
      <4>2. loading' = loading + 1
        BY <2>3, <3>2 DEF EnsureInstalled
      <4>3. Cardinality(Rebuilds \cup {w}) = Cardinality(Rebuilds) + 1
        BY <4>1, RebuildsFinite, FS_AddElement
      <4> QED
        BY <1>0, <4>1, <4>2, <4>3 DEF LoadingExact, Rebuilds
    <3> QED
      BY <3>1, <3>2
  <2>4. CASE FindIndex(w)
    <3>1. Rebuilds' = Rebuilds /\ loading' = loading
      BY <2>4 DEF FindIndex, Rebuilds, Rebuilding, WorkerGoes, Installed
    <3> QED
      BY <3>1, <1>1
  <2>5. CASE LockIndex(w)
    <3>1. Rebuilds' = Rebuilds /\ loading' = loading
      BY <2>5 DEF LockIndex, Rebuilds, Rebuilding, WorkerGoes, Installed
    <3> QED
      BY <3>1, <1>1
  <2>6. CASE RelookIndex(w)
    <3>1. Rebuilds' = Rebuilds /\ loading' = loading
      BY <2>6 DEF RelookIndex, Rebuilds, Rebuilding, WorkerGoes, Installed
    <3> QED
      BY <3>1, <1>1
  <2>7. CASE BuildIndex(w)
    <3>1. Rebuilds' = Rebuilds /\ loading' = loading
      BY <2>7 DEF BuildIndex, Rebuilds, Rebuilding, WorkerGoes, Installed
    <3> QED
      BY <3>1, <1>1
  <2>8. CASE ShareWeights(w)
    <3>1. Rebuilds' = Rebuilds /\ loading' = loading
      BY <2>8 DEF ShareWeights, Rebuilds, Rebuilding, WorkerGoes, Installed
    <3> QED
      BY <3>1, <1>1
  <2>9. CASE LoadMiner(w)
    <3>1. Rebuilds' = Rebuilds /\ loading' = loading
      BY <2>9 DEF LoadMiner, Rebuilds, Rebuilding, WorkerGoes, Installed
    <3> QED
      BY <3>1, <1>1
  <2>10. CASE Install(w)
    <3>1. Rebuilds' = Rebuilds /\ loading' = loading
      BY <2>10 DEF Install, Rebuilds, Rebuilding, WorkerGoes, Installed
    <3> QED
      BY <3>1, <1>1
  <2>11. CASE Leave(w)
    <3>1. Rebuilds' = Rebuilds \ {w} /\ w \in Rebuilds
      BY <2>11 DEF Leave, Rebuilds, Rebuilding, WorkerGoes, Installed
    <3>2. loading' = loading - 1
      BY <2>11 DEF Leave
    <3>3. Cardinality(Rebuilds \ {w}) = Cardinality(Rebuilds) - 1
      BY <3>1, RebuildsFinite, FS_RemoveElement
    <3> QED
      BY <1>0, <3>1, <3>2, <3>3 DEF LoadingExact, Rebuilds
  <2>12. CASE Mine(w)
    <3>1. Rebuilds' = Rebuilds /\ loading' = loading
      BY <2>12 DEF Mine, Rebuilds, Rebuilding, WorkerGoes, Installed
    <3> QED
      BY <3>1, <1>1
  <2>13. CASE BatchEnds(w)
    <3>1. Rebuilds' = Rebuilds /\ loading' = loading
      BY <2>13 DEF BatchEnds, Rebuilds, Rebuilding, WorkerGoes, Installed
    <3> QED
      BY <3>1, <1>1
  <2> QED
    BY <1>2,
       <2>1, <2>2, <2>3, <2>4, <2>5, <2>6, <2>7, <2>8, <2>9, <2>10, <2>11, <2>12, <2>13
    DEF WorkerStep
<1>3. ASSUME NEW t \in Tasks, StartInference(t) \/ TaskStep(t)
      PROVE  LoadingExact'
  <2>1. wpc' = wpc /\ loading' = loading
    BY <1>3 DEF TaskStep,
      StartInference, LockEngine, Uninstall, LoadEngine, Generate, AfterPanic
  <2> QED
    BY <2>1, <1>1 DEF Rebuilds, Rebuilding
<1>4. CASE SwitchLineup \/ EvictEngine \/ UNCHANGED vars
  <2>1. wpc' = wpc /\ loading' = loading
    BY <1>4 DEF SwitchLineup, EvictEngine, vars
  <2> QED
    BY <2>1, <1>1 DEF Rebuilds, Rebuilding
<1> QED
  BY <1>2, <1>3, <1>4 DEF Next

-----------------------------------------------------------------------------
(* Theorems.                                                               *)

\* Every step of workers, tasks and the client loop keeps the invariant.
LEMMA StepIInv == IInv /\ [Next]_vars => IInv'
  BY NextTypes, NextLockInv, NextEngineInv, NextIndexInv, NextLoadingExact DEF IInv

\* The inductive invariant holds throughout.
THEOREM ResidencyInvariance == Spec => []IInv
  BY InitIInv, StepIInv, PTL DEF Spec

\* Every variable keeps its type: LOADING is a count and never wraps.
THEOREM ResidencyTypeCorrect == Spec => []TypeOK
<1>1. IInv => TypeOK
  <2> SUFFICES ASSUME IInv PROVE TypeOK
    OBVIOUS
  <2>1. loading \in Nat
    BY RebuildsFinite DEF IInv, LoadingExact, Rebuilds
  <2> QED
    BY <2>1 DEF IInv, Types, TypeOK
<1> QED
  BY <1>1, ResidencyInvariance, PTL

\* LOADING counts the workers that rebuild, however many do and however they end, and
\* those that a panic has ended in between.
THEOREM LoadingCounts == Spec => []LoadingExact
<1>1. IInv => LoadingExact
  BY DEF IInv
<1> QED
  BY <1>1, ResidencyInvariance, PTL

\* Whoever waits for MINERS or the index lock waits for a worker that waits for nobody, and
\* whoever waits for ENGINE for a task that waits for MINERS at most: no circle closes.
THEOREM LocksWithoutDeadlock == Spec => []NoDeadlock
<1>1. IInv => NoDeadlock
  <2> SUFFICES ASSUME IInv, NEW S \in SUBSET Threads, S # {},
                      \A x \in S : Blocker(x) \in S
               PROVE  FALSE
    BY DEF NoDeadlock
  <2>1. \A x \in Threads : Blocker(x) \in {minersLock, indexLock, engineLock, NoOne}
    BY DEF Blocker
  <2>2. NoOne \notin S
    BY ThreadsAssumption DEF Threads
  <2>3. ASSUME NEW w \in Workers, wpc[w] \in {"mining", "relook", "build"}
        PROVE  Blocker(w) = NoOne
    BY <2>3, ThreadsAssumption DEF Blocker
  <2>4. ASSUME NEW t \in Tasks, tpc[t] \in {"uninstall", "load", "generate"}
        PROVE  Blocker(t) \in {minersLock, NoOne}
    BY <2>4, ThreadsAssumption DEF Blocker
  <2>5. minersLock \notin S /\ indexLock \notin S
    BY <2>2, <2>3 DEF IInv, Types, LockInv
  <2>6. engineLock \notin S
    BY <2>2, <2>4, <2>5 DEF IInv, Types, LockInv
  <2> QED
    BY <2>1, <2>2, <2>5, <2>6
<1> QED
  BY <1>1, ResidencyInvariance, PTL

\* No inference runs on an engine that a panic has left behind.
THEOREM NoInferenceAfterPanic == Spec => []InferenceOnSoundEngine
<1>1. IInv => InferenceOnSoundEngine
  BY DEF IInv, EngineInv
<1> QED
  BY <1>1, ResidencyInvariance, PTL

\* The double check under INDEX_BUILD_LOCK admits one build among any number of workers.
THEOREM SingleIndexBuild == Spec => []IndexBuiltOnce
<1>1. IInv => IndexBuiltOnce
  BY DEF IInv, IndexInv, IndexBuiltOnce
<1> QED
  BY <1>1, ResidencyInvariance, PTL

\* Of all tasks, at most one loads or generates at a time.
THEOREM OneInferenceAtATime ==
  Spec => [](\A s, t \in Tasks :
               {tpc[s], tpc[t]} \subseteq {"uninstall", "load", "generate"} => s = t)
<1>1. IInv => \A s, t \in Tasks :
                {tpc[s], tpc[t]} \subseteq {"uninstall", "load", "generate"} => s = t
  BY DEF IInv, LockInv
<1> QED
  BY <1>1, ResidencyInvariance, PTL
=============================================================================
