---------------------------- MODULE GpuResidency ----------------------------
(***************************************************************************)
(* Who keeps a model in the memory of a GPU, and behind which locks: the   *)
(* inference engine of src/slm.rs behind ENGINE, on device 0; the          *)
(* Proof-of-Model miners of src/pom_gpu.rs behind MINERS, one per device;  *)
(* and the index that both need, built once under a lock of its own.  GPU  *)
(* workers (src/miner.rs) rebuild their miner when an inference has        *)
(* removed it.  There is one model: main.rs mines and serves the same.     *)
(*                                                                         *)
(* One step is what a thread does while it holds a lock, or between two.   *)
(***************************************************************************)
EXTENDS Integers, FiniteSets

CONSTANTS
  Workers,     \* GPU worker threads
  Devices,     \* GPUs
  Device,      \* Device[w]: the GPU of worker w
  Device0,     \* the one that the engine runs on
  Tasks,       \* blocking threads: a request, a challenge, one left by an old connection
  Handler,     \* the client loop
  NoOne,       \* nobody holds a lock
  MaxBuilds    \* bound on the times that the index is built

ASSUME WorkersAssumption == IsFiniteSet(Workers) /\ Device \in [Workers -> Devices]
ASSUME ThreadsAssumption ==
  /\ Workers \cap Tasks = {} /\ Handler \notin Workers \cup Tasks
  /\ NoOne \notin Workers \cup Tasks \cup {Handler}
ASSUME DeviceAssumption == Device0 \in Devices
ASSUME MaxBuildsAssumption == MaxBuilds \in Nat \ {0}

VARIABLES
  engine,       \* the content of ENGINE: "none", "sound", or "failed" by a panic
  engineLock,   \* who holds ENGINE
  poisoned,     \* a holder of ENGINE has panicked
  miners,       \* the devices with an entry in MINERS
  minersLock,   \* who holds MINERS for a batch
  indexBuilt,   \* POM_INDEX is set
  builds,       \* how often the index was built
  indexLock,    \* who holds INDEX_BUILD_LOCK
  loading,      \* LOADING
  wpc,          \* where each worker is
  tpc,          \* where each task is
  lineup        \* the switch of advance_lineup_if_due: "before", "evicting", "after"

engineVars == <<engine, engineLock, poisoned>>
minerVars == <<miners, minersLock>>
indexVars == <<indexBuilt, builds, indexLock>>
vars == <<engineVars, minerVars, indexVars, loading, wpc, tpc, lineup>>

WorkerPC == {"waiting", "ready", "recheck", "index", "lockIndex", "relook", "build",
             "share", "load", "install", "leave", "try", "mining", "dead"}
TaskPC == {"idle", "lock", "uninstall", "load", "generate", "panicked"}

Installed(w) == Device[w] \in miners
WorkerGoes(w, from, to) == wpc[w] = from /\ wpc' = [wpc EXCEPT ![w] = to]
TaskGoes(t, from, to) == tpc[t] = from /\ tpc' = [tpc EXCEPT ![t] = to]

-----------------------------------------------------------------------------
(* A GPU worker on the Proof-of-Model path.                                *)

\* A job comes over the watch channel; any time may pass before it does.
GetJob(w) ==
  /\ WorkerGoes(w, "waiting", "ready")
  /\ UNCHANGED <<engineVars, minerVars, indexVars, loading, tpc, lineup>>

\* is_installed, in the worker loop.
CheckInstalled(w) ==
  /\ minersLock = NoOne
  /\ WorkerGoes(w, "ready", IF Installed(w) THEN "try" ELSE "recheck")
  /\ UNCHANGED <<engineVars, minerVars, indexVars, loading, tpc, lineup>>

MutantEnsureInstalled(w) ==
  /\ minersLock = NoOne
  /\ \/ Installed(w) /\ WorkerGoes(w, "recheck", "try") /\ UNCHANGED <<loading, minersLock>>
     \/ ~Installed(w) /\ WorkerGoes(w, "recheck", "index") /\ loading' = loading + 1
        /\ minersLock' = w
  /\ UNCHANGED <<engineVars, miners, indexVars, tpc, lineup>>

\* ensure_installed asks again, then counts the rebuild.
EnsureInstalled(w) ==
  /\ minersLock = NoOne
  /\ \/ Installed(w) /\ WorkerGoes(w, "recheck", "try") /\ UNCHANGED loading
     \/ ~Installed(w) /\ WorkerGoes(w, "recheck", "index") /\ loading' = loading + 1
  /\ UNCHANGED <<engineVars, minerVars, indexVars, tpc, lineup>>

\* The first look at the index, without a lock.
FindIndex(w) ==
  /\ WorkerGoes(w, "index", IF indexBuilt THEN "share" ELSE "lockIndex")
  /\ UNCHANGED <<engineVars, minerVars, indexVars, loading, tpc, lineup>>

MutantLockIndex(w) ==
  /\ indexLock' = w
  /\ WorkerGoes(w, "lockIndex", "relook")
  /\ UNCHANGED <<engineVars, minerVars, indexBuilt, builds, loading, tpc, lineup>>

LockIndex(w) ==
  /\ indexLock = NoOne /\ indexLock' = w
  /\ WorkerGoes(w, "lockIndex", "relook")
  /\ UNCHANGED <<engineVars, minerVars, indexBuilt, builds, loading, tpc, lineup>>

\* The second look, under the lock.
RelookIndex(w) ==
  /\ WorkerGoes(w, "relook", IF indexBuilt THEN "share" ELSE "build")
  /\ indexLock' = IF indexBuilt THEN NoOne ELSE indexLock
  /\ UNCHANGED <<engineVars, minerVars, indexBuilt, builds, loading, tpc, lineup>>

\* The build fails without a tier at this score or a readable file.
BuildIndex(w) ==
  /\ indexLock' = NoOne
  /\ \/ /\ builds < MaxBuilds
        /\ WorkerGoes(w, "build", "share") /\ indexBuilt' = TRUE /\ builds' = builds + 1
     \/ WorkerGoes(w, "build", "leave") /\ UNCHANGED <<indexBuilt, builds>>
  /\ UNCHANGED <<engineVars, minerVars, loading, tpc, lineup>>

\* pom_shared: it waits for ENGINE on any device.  Whether the weights are then shared
\* or a copy of their own makes no difference here: the device holds weights from now on.
ShareWeights(w) ==
  /\ engineLock = NoOne
  /\ WorkerGoes(w, "share", "load")
  /\ UNCHANGED <<engineVars, minerVars, indexVars, loading, tpc, lineup>>

MutantLoadMiner(w) ==
  /\ \/ \E to \in {"install", "dead"} : WorkerGoes(w, "load", to) /\ UNCHANGED loading
     \/ WorkerGoes(w, "load", "leave") /\ loading' = loading - 1
  /\ UNCHANGED <<engineVars, minerVars, indexVars, tpc, lineup>>

\* load or load_shared, and the comparison with the index; either may fail.  A panic,
\* of CUDA for one, ends the thread: nobody takes back its count in LOADING.
LoadMiner(w) ==
  /\ \E to \in {"install", "leave", "dead"} : WorkerGoes(w, "load", to)
  /\ UNCHANGED <<engineVars, minerVars, indexVars, loading, tpc, lineup>>

Install(w) ==
  /\ minersLock = NoOne
  /\ miners' = miners \cup {Device[w]}
  /\ WorkerGoes(w, "install", "leave")
  /\ UNCHANGED <<engineVars, minersLock, indexVars, loading, tpc, lineup>>

MutantLeave(w) ==
  /\ WorkerGoes(w, "leave", "try")
  /\ loading' = IF Installed(w) THEN loading - 1 ELSE loading
  /\ UNCHANGED <<engineVars, minerVars, indexVars, tpc, lineup>>

\* However the rebuild went, the worker tries to mine.
Leave(w) ==
  /\ WorkerGoes(w, "leave", "try")
  /\ loading' = loading - 1
  /\ UNCHANGED <<engineVars, minerVars, indexVars, tpc, lineup>>

\* mine: without a miner it finds nothing; with one it keeps MINERS for the batch.
Mine(w) ==
  /\ minersLock = NoOne
  /\ \/ ~Installed(w) /\ WorkerGoes(w, "try", "ready") /\ UNCHANGED minersLock
     \/ Installed(w) /\ WorkerGoes(w, "try", "mining") /\ minersLock' = w
  /\ UNCHANGED <<engineVars, miners, indexVars, loading, tpc, lineup>>

\* After a block of its own the worker waits for another job.
BatchEnds(w) ==
  /\ WorkerGoes(w, "mining", "ready") \/ WorkerGoes(w, "mining", "waiting")
  /\ minersLock' = NoOne
  /\ UNCHANGED <<engineVars, miners, indexVars, loading, tpc, lineup>>

WorkerStep(w) ==
  \/ CheckInstalled(w) \/ EnsureInstalled(w) \/ FindIndex(w) \/ LockIndex(w) \/ RelookIndex(w)
  \/ BuildIndex(w) \/ ShareWeights(w) \/ LoadMiner(w) \/ Install(w) \/ Leave(w)
  \/ Mine(w) \/ BatchEnds(w)

-----------------------------------------------------------------------------
(* load_and_run_inference.                                                 *)

StartInference(t) ==
  /\ TaskGoes(t, "idle", "lock")
  /\ UNCHANGED <<engineVars, minerVars, indexVars, loading, wpc, lineup>>

MutantLockEngine(t) ==
  /\ engineLock = NoOne /\ engineLock' = t
  /\ TaskGoes(t, "lock", IF engine = "none" THEN "uninstall" ELSE "generate")
  /\ UNCHANGED <<engine, poisoned, minerVars, indexVars, loading, wpc, lineup>>

\* A poisoned ENGINE is emptied by whoever locks it next, but nobody clears the poison.
LockEngine(t) ==
  /\ engineLock = NoOne /\ engineLock' = t
  /\ engine' = IF poisoned THEN "none" ELSE engine
  /\ TaskGoes(t, "lock", IF engine' = "none" THEN "uninstall" ELSE "generate")
  /\ UNCHANGED <<poisoned, minerVars, indexVars, loading, wpc, lineup>>

\* uninstall(0), with ENGINE held.
Uninstall(t) ==
  /\ minersLock = NoOne
  /\ miners' = miners \ {Device0}
  /\ TaskGoes(t, "uninstall", "load")
  /\ UNCHANGED <<engineVars, minersLock, indexVars, loading, wpc, lineup>>

\* The guard is dropped, in a panic by the unwinding, which poisons the mutex.
Unlock(panic) == engineLock' = NoOne /\ poisoned' = (poisoned \/ panic)

LoadEngine(t) ==
  /\ \/ /\ TaskGoes(t, "load", "generate") /\ engine' = "sound"
        /\ UNCHANGED <<engineLock, poisoned>>
     \/ TaskGoes(t, "load", "idle") /\ Unlock(FALSE) /\ UNCHANGED engine
     \/ TaskGoes(t, "load", "panicked") /\ Unlock(TRUE) /\ UNCHANGED engine
  /\ UNCHANGED <<minerVars, indexVars, loading, wpc, lineup>>

\* A text or none; an error, after which the engine is dropped; or a panic.
Generate(t) ==
  /\ \/ TaskGoes(t, "generate", "idle") /\ Unlock(FALSE) /\ engine' \in {engine, "none"}
     \/ TaskGoes(t, "generate", "panicked") /\ Unlock(TRUE) /\ engine' = "failed"
  /\ UNCHANGED <<minerVars, indexVars, loading, wpc, lineup>>

MutantAfterPanic(t) ==
  /\ engineLock = NoOne /\ ~poisoned
  /\ engine' = "none"
  /\ TaskGoes(t, "panicked", "idle")
  /\ UNCHANGED <<engineLock, poisoned, minerVars, indexVars, loading, wpc, lineup>>

\* The handler of the panic empties ENGINE if it can lock it without an error.
AfterPanic(t) ==
  /\ engineLock = NoOne
  /\ engine' = IF poisoned THEN engine ELSE "none"
  /\ TaskGoes(t, "panicked", "idle")
  /\ UNCHANGED <<engineLock, poisoned, minerVars, indexVars, loading, wpc, lineup>>

TaskStep(t) ==
  LockEngine(t) \/ Uninstall(t) \/ LoadEngine(t) \/ Generate(t) \/ AfterPanic(t)

-----------------------------------------------------------------------------
(* The client loop switches the lineup once and evicts the engine.         *)

SwitchLineup ==
  /\ lineup = "before" /\ lineup' = "evicting"
  /\ UNCHANGED <<engineVars, minerVars, indexVars, loading, wpc, tpc>>

\* evict_engine, which a poisoned mutex does not keep from it.
EvictEngine ==
  /\ lineup = "evicting" /\ lineup' = "after"
  /\ engineLock = NoOne
  /\ engine' = "none"
  /\ UNCHANGED <<engineLock, poisoned, minerVars, indexVars, loading, wpc, tpc>>

-----------------------------------------------------------------------------
Init ==
  /\ engine = "none" /\ engineLock = NoOne /\ poisoned = FALSE
  /\ miners = {} /\ minersLock = NoOne
  /\ indexBuilt = FALSE /\ builds = 0 /\ indexLock = NoOne
  /\ loading = 0
  /\ wpc = [w \in Workers |-> "waiting"]
  /\ tpc = [t \in Tasks |-> "idle"]
  /\ lineup = "before"

Next ==
  \/ \E w \in Workers : GetJob(w) \/ WorkerStep(w)
  \/ \E t \in Tasks : StartInference(t) \/ TaskStep(t)
  \/ SwitchLineup \/ EvictEngine

\* Every thread runs, and gets a lock that stays free.  The mutexes of std keep no queue:
\* one that others take again and again need not come to a thread that waits for it.  No
\* job and no request has to come.
Fairness ==
  /\ \A w \in Workers : WF_vars(WorkerStep(w))
  /\ \A t \in Tasks : WF_vars(TaskStep(t))
  /\ WF_vars(EvictEngine)

Spec == Init /\ [][Next]_vars /\ Fairness

-----------------------------------------------------------------------------
(* Properties.                                                             *)

\* Every variable has its type; LOADING never wraps.
TypeOK ==
  /\ engine \in {"none", "sound", "failed"}
  /\ engineLock \in Tasks \cup {NoOne} /\ poisoned \in BOOLEAN
  /\ miners \subseteq Devices /\ minersLock \in Workers \cup {NoOne}
  /\ indexBuilt \in BOOLEAN /\ builds \in 0..MaxBuilds
  /\ indexLock \in Workers \cup {NoOne}
  /\ loading \in Nat
  /\ wpc \in [Workers -> WorkerPC] /\ tpc \in [Tasks -> TaskPC]
  /\ lineup \in {"before", "evicting", "after"}

Rebuilding(w) ==
  wpc[w] \in {"index", "lockIndex", "relook", "build", "share", "load", "install", "leave"}

\* LOADING, which keeps the stall watchdog calm, counts the workers that rebuild their
\* miner, however the rebuild ends, and no others but those that a panic has ended in the
\* middle of one: after one of these the watchdog is calm for good (pom_gpu.rs:359-369).
LoadingExact == loading = Cardinality({w \in Workers : Rebuilding(w) \/ wpc[w] = "dead"})

\* No inference runs on an engine in which another one has panicked, although nobody
\* has emptied ENGINE after the panic (slm.rs:987-995 makes up for 1049).
InferenceOnSoundEngine == \A t \in Tasks : tpc[t] = "generate" => engine = "sound"

\* Workers on several devices that start mining together walk the model file once
\* (INDEX_BUILD_LOCK, pom_gpu.rs:397-417).
IndexBuiltOnce == builds <= 1

Threads == Workers \cup Tasks \cup {Handler}

\* The holder of the lock that the next step of x takes, or NoOne.
Blocker(x) ==
  CASE x \in Workers /\ wpc[x] \in {"ready", "recheck", "install", "try"} -> minersLock
    [] x \in Workers /\ wpc[x] = "lockIndex" -> indexLock
    [] x \in Workers /\ wpc[x] = "share" -> engineLock
    [] x \in Tasks /\ tpc[x] = "uninstall" -> minersLock
    [] x \in Tasks /\ tpc[x] \in {"lock", "panicked"} -> engineLock
    [] x = Handler /\ lineup = "evicting" -> engineLock
    [] OTHER -> NoOne

\* No set of threads waits for one another in a circle, although an inference takes MINERS
\* while it holds ENGINE, a rebuild takes MINERS, ENGINE and the index lock one after the
\* other, and a batch keeps MINERS (pom_gpu.rs:317-344, 397-431, slm.rs:830-835, 987-1006).
NoDeadlock == \A S \in SUBSET Threads : S # {} => \E x \in S : Blocker(x) \notin S

RoundAfterRound ==
  \/ \E w \in Workers : []<>(wpc[w] = "ready") /\ []<>(wpc[w] # "ready")
  \/ \E t \in Tasks : []<>(tpc[t] = "idle") /\ []<>(tpc[t] # "idle")

\* Every inference, eviction and rebuild comes to an end, by its thread's death at worst,
\* unless some worker mines batch after batch or tasks infer one after the other without
\* end: only those can keep a lock from a thread that waits for it (miner.rs:298-305,
\* pom_gpu.rs:340-344, slm.rs:830-835, 987-1006).
EndsUnlessOthersGoOn ==
  \/ RoundAfterRound
  \/ /\ \A t \in Tasks : tpc[t] # "idle" ~> tpc[t] = "idle"
     /\ lineup = "evicting" ~> lineup = "after"
     /\ \A w \in Workers : Rebuilding(w) ~> ~Rebuilding(w)
=============================================================================
