# Verification of keryx-pascal-miner

TLA+ specifications of the miner, model-checked with TLC and proved with TLAPS.
Paths below are relative to the repository; `grpc.rs:118` means line 118 of
`src/client/grpc.rs`.

The miner connects to a Keryx full node (gRPC) or to a pool (Stratum), mines blocks on
CPU and GPU workers, and sells inference ("OPoI"): AiRequest transactions ask for
the output of a language model, the miner runs the model on the GPU it also mines with,
and is paid through escrow outputs that it may claim when a challenge window is over.

## 1. Inventory

| Part | State it keeps | Operations |
|---|---|---|
| watch channel (`watch.rs`) | value behind an RwLock, atomic id, mutex and condvar, receiver count, `sender_alive`, each receiver's `last_observed` | `send`, `get_changed`, `wait_for_change`, `clone`, drop of either end |
| escrow watcher (`escrow.rs`) | list of escrow entries, two indexes over it, the claim in flight, dirty flag, JSON file | `handle_block`, `find_claim`, `on_submit_response`, `track_inference_escrow`, `compact`, `maybe_flush`, `load_state` |
| gRPC client (`client/grpc.rs`) | request queue, seen payloads, request ids, running inference, running challenge, watchdog flag, last DAA score | one handler per node message, a 200 ms timer |
| miner manager and workers (`miner.rs`) | sender of the watch channel, `is_synced`, per worker: job, nonce, mask | `process_block`, worker loops, drop (join all), stall watchdog |
| Stratum client (`client/stratum.rs`) | pending shares by message id, static statistics, current task, challenge, extranonce | one handler per pool message, task and challenge completion, `listen` |
| inference engine (`slm.rs`) | `ENGINE` mutex over the resident model, lineup flag `V2_ACTIVE`, list of usable models | load and evict, generate, `advance_lineup_if_due`, `pom_shared` |
| mining residency (`pom_gpu.rs`) | `MINERS` mutex over the installed GPU miners, `LOADING`, active tier | `mine`, `ensure_installed`, `uninstall` |
| model store (`slm.rs`, `models.rs`) | model files of any length, `.ok` sentinels | `ensure_gguf`, `ensure_safetensors`, resumed `download_file`, the lineup by tier and memory |
| Proof of Model (`pom.rs`, `pow.rs`) | sparse checkpoint tree file, weight index | build, open, walk, prove, verify |
| device kernel (`pom_gpu.rs`, `cuda/pom_mine.cu`) | - | walk with a multiplied reciprocal instead of a division |
| IPFS (`ipfs.rs`) | kubo binary, daemon process | `ensure_daemon`, upload |
| start-up, reconnect (`main.rs`) | escrow key file, CUDA libraries | staging, prefetch, probe; `client_main` in an endless loop |

How they meet:

    node <-- stream --> KeryxdHandler --owns--> EscrowWatcher --> state file
                           |  owns                    (claims go out through the handler)
                           |--> tasks: inference, challenge --> SlmEngine --+
                           v                                               | same GPU
                     MinerManager == watch channel ==> workers --> PomGpuMiner

The handler is one asynchronous task: between two `await`s it runs alone, so that one
message is one atomic step. Concurrency is elsewhere: the receivers of the watch channel
are OS threads; inference and challenge run on blocking threads and answer through
oneshot channels; requests and answers cross on the connection; `main.rs` drops handler,
watcher and workers whenever a connection ends and builds new ones.

Hard behaviours, and what correctness means there:

* **watch channel**: a wake-up lost between a check and a wait; a value read under an id
  that is not its own. Correct: a blocked receiver always learns of a new job or of the
  end, nobody keeps a superseded job for current.
* **escrow watcher**: redelivered blocks, red blocks, positions renumbered by compaction,
  a file older than memory, answers that come late or for something else. Correct: every
  output is tracked once, claimed once, dropped for cause only, and resolved in the end.
* **gRPC client**: the node stops talking when the miner stops mining; one request
  shows up in several messages before, during and after its inference. Correct: mining
  resumes, a request is answered once, its reward is tracked, a challenge is reported.
* **workers**: a job taken over without its nonce mask, suspension on the Proof-of-Model
  path, shutdown while a kernel runs.
* **GPU residency**: two mutexes, eviction while a worker rebuilds, a poisoned lock.
* **files** (weights, tree, key, kubo): a crash between two writes, trust in sizes and in mere
  existence. Correct: only whole weights are mined, the index is the dense tree, and a
  restart gets on.
* **Proof of Model**: three functions that fold the same tree, a walk on the device and a
  second one on the host, a tier that changes with a hardfork. Correct: a node accepts
  every block that is submitted.
* **Stratum**: ids reused over connections, `try_lock().unwrap()`, resumption by notify, an
  address chosen at registration and checked before every line. Correct: an answer finds
  its share, a CID belongs to its job, the flags tell the truth, and the client reads on.

`PROJECT.json` lists every part under `components` and every hazard, with its
line and the properties that cover it, under `hazards`.

## 2. Modules

| Module | Models | Built on |
|---|---|---|
| `LatestValue` | what a watch channel promises: a register with blocking reads | - |
| `WatchChannel` | `watch.rs`, one step per access to a shared location | refines `LatestValue` |
| `WatchChannel_proofs` | theorems about it | `WatchChannel` |
| `EscrowWatcher` | `escrow.rs` against any caller | - |
| `EscrowClaims` | the watcher, the connection, the node, reconnections | `EscrowWatcher` |
| `EscrowClaims_proofs` | theorems about both | `EscrowClaims` |
| `GrpcClient` | `client/grpc.rs` with its timer, tasks, node and reconnections | - |
| `GrpcClient_proofs` | theorems about it | `GrpcClient` |
| `GpuResidency` | who keeps a model on a GPU: `pom_gpu.rs`, the engine of `slm.rs`, the locks of the workers of `miner.rs` | - |
| `GpuResidency_proofs` | theorems about it | `GpuResidency` |
| `MinerWorkers` | `miner.rs`: manager, CPU and GPU loops, the channel for blocks, shutdown | uses `LatestValue` |
| `MinerWorkers_proofs` | theorems about it | `MinerWorkers` |
| `Powers` | powers of two, by recursion | - |
| `Powers_proofs` | least elements, recursive functions on numbers, powers, division | `Powers` |
| `PoolSettings` | the arithmetic of difficulty and extranonce in `client/stratum.rs` | `Powers` |
| `StratumClient` | `client/stratum.rs`: lines of the pool, submitting task, logger, inference, reconnections | `PoolSettings` |
| `StratumClient_proofs` | theorems about it and about `PoolSettings` | `StratumClient`, `Powers_proofs` |
| `PomTree` | the sparse tree of `pom.rs`: layout, build, reopening, paths | `Powers` |
| `PomProof` | walk, proof and verification in `pom.rs`, `Wins` in `pow.rs` | `PomTree` |
| `PomDevice` | the reduction and the walk of the kernel | `PomProof` |
| `Lineup` | `models.rs` and what `main.rs` stages | - |
| `ModelStore` | the downloads of `slm.rs` | - |
| `IpfsDaemon` | `ensure_daemon` of `ipfs.rs` | - |
| `Startup` | `main.rs` from the key file to mined blocks, crashes and restarts | composes the five above |
| `Startup_proofs` | theorems about it and about `ModelStore`, `PomTree`, `PomProof`, `Lineup` | `Startup`, `Powers_proofs` |
| `MC*` | values for the constants of the runs | |

### WatchChannel

`value`, `valueLocked`, `id`, `mutex`, `waiters`, `receiversCount`, `senderAlive` are the
fields of `Shared` and the state of its locks; `spc` and `rpc[r]` say where sender and
receivers are; `path[r]` tells the calls of `get_changed_internal` apart: from
`get_changed`, first from `wait_for_change`, under the mutex, after a wake-up.
`lastObserved[r]` is the receiver's field, `delivered[r]` records what it was handed. A
value is named by the id that belongs to it, so "the value of id n" is n. `SendBegin` checks
the count, `ReplaceValue` and `IncrementId` are the two writes under the RwLock,
`LockToWake` and `NotifyAll` are `notify_all` under the mutex, `DropSender` starts the same
two. `CheckAlive`, `LoadId...`, `CloneValue` are the three reads of a receiver,
`LockToWait`, `EnterWait`, `Reacquire`, `RecheckAlive`, `ReloadId` the waiting loop. Memory
is taken to be sequentially consistent: the atomics are Acquire/Release, and the
weaker outcomes that these would allow are not modelled.

`LatestValue` has no locks, ids or waiting sets: `Publish`, `Close`, and per receiver `Call`
and `Return`, which hands over the latest value at the very moment it returns. The
refinement maps `published` to `id` (a new value cannot be read before the id is raised,
for both happen under the write lock), `open` to `senderAlive`, and `seen[r]` to what was
last delivered.

### EscrowWatcher and EscrowClaims

`entries`, `pending`, `outpointSet`, `blockIndex`, `dirty`, `blocksSinceCompact` are the
fields of the watcher; `saveDue` says that two seconds have passed since the last save;
`file` is what `load_state` would find. `HandleBlock` is the whole of `handle_block` in the
order of the code: compaction, red blocks, new outputs, claim, flush, with the early
return for a block without a coinbase id. `OnSubmitResponse`, `TrackInferenceEscrow` and
`Restart` (drop without a flush, `load_state`) are the other operations. An escrow is
named by its outpoint; scripts, signatures and hex text are left out, and a block lists
for each coinbase output the amount that it pays to this miner.

`EscrowWatcher` lets any caller do anything: blocks in any order and repeatedly, any answer.
`EscrowClaims` puts the real callers around it: `BlockArrives` (BlockAdded and
GetBlockResponse with the claim they submit), `AiResponseSubmitted` (the end of
`poll_inference`, which submits and tracks without waiting for an answer), `NodeAnswers`
(SubmitTransactionResponses come in order and carry no id, so they go to whatever claim is
pending), `Reconnect` (the watcher is rebuilt from the file, answers are lost, the node may
have accepted what was sent). The node refuses a second claim of one output.

### GrpcClient

One action per turn of the loop in `listen`: a handler per message type and `Tick`. The
handlers are put together from the functions they call: `GetBlockTemplate` (which carries
the result of a finished challenge), `Suspend` and `Resume` (`process_block(None)` and
`process_block(Some(_))` with `is_synced`), `ScanAndStart`
(`scan_txs_for_ai_requests`, `try_start_inference`), `Harvest` (`poll_inference`). `job` is
whether the last value sent over the watch channel is a job: `WatchChannel` is where its
delivery is modelled, and `EscrowClaims` what the same messages do to the escrow watcher.
The environment is `InferenceEnds`, `ChallengeEnds` (with or without a text; a panic is caught
and counts as no text), `NodeAnswers`, `NodeNotifies`, `NodeSyncs` and `Reconnect`.

`FilesChange` lets the model's files vanish at any time and come back while a task loads them
(`modelReady`): a request that was accepted may be discarded when its turn comes.

Abstracted: a message carries at most one AiRequest; a payload is its stable id, and only
requests for the model that the miner serves are considered, for `main.rs` stages a single
model, the same as legacy and as v2 lineup; a template with an error is a `Reconnect`;
devfund counter (in `StratumClient`), block submission and formatting are absent.

### GpuResidency

`engine` is the content of `ENGINE`: none, sound, or what a panic has left; `engineLock` and
`poisoned` are the state of its mutex. `miners` is the map behind `MINERS`, `minersLock` who
holds that mutex for a batch; `indexBuilt`, `indexLock` and `builds` belong to the possession
index; `loading` is `LOADING`. A worker goes through `is_installed`, `ensure_installed` (again
`is_installed`, the index with its double check, `pom_shared`, load, `install`) and `mine`; a task
through `load_and_run_inference`, where loading and generating may succeed, fail or panic, as may the load of a
miner, whose panic nobody catches (`dead`); the
client loop through `advance_lineup_if_due` once, with the eviction at its end. A critical
section without another lock inside is one step; those that wait inside one
(`uninstall` under `ENGINE`, a batch under `MINERS`, the build of the index) are split.
Left out: the legacy path, which takes none of these locks, a panic while `MINERS` is held,
and where the weights of a shared miner come from.

### MinerWorkers

The loops of `launch_cpu_miner` and `launch_gpu_miner` over the watch channel, of which the
module uses only what `LatestValue` says (`Call`, `Deliver`, `Unchanged`, `Leave`): that
`WatchChannel` implements it is what `ImplementsRegister` checks. `pc[w]` is where a worker is
in its loop, `state[w]` its job, `nonceOf[w]` the job whose mask and fixed part of the nonce
a CPU worker applies, `commands` what was sent. A pass that ends with `get_changed` goes on with
`PollReturns`; one without a job waits (`Wait`, `WaitReturns`); one that has found something is in
`Submit`, which blocks while `send_channel` is full. `Forward` is the task that empties it,
`ConnectionEnds` makes its next send fail. `ProcessBlock`, `BadTemplate` and `Suspend` are
`process_block`; `CloseWorkers` and `JoinWorker` are the drop of the manager; `Freeze` is the signal
that `trigger_freeze_handler` sends a second later, a panic in an `extern "C"` handler that
aborts the process or ends the thread. A GPU in `slow` is one whose kernel `sync` always
refuses, so that it never asks for news.

Abstracted: a nonce counts modulo `PollEvery` (128 in the code), what a pass finds is a choice,
hash counters and `log_hashrate` are absent, and the locks of the Proof-of-Model path are those
of `GpuResidency`. The manager of one connection is modelled; the next one starts from `Init`.

### PoolSettings and StratumClient

`connection` (link, block counter, devfund), `inference` (slot, cache, flags, thread) and `shares`
(ids, channel, submitting task, lock, pending and sent shares) are the fields of
`StratumHandler`, `InferenceCacheInner` and `ShareStats`. A line of the pool is one step, chosen
when it is read: `HandleNotify` (all three forms; a job may bring a task, malformed or not),
`HandleChallenge`, `HandleAnswer`, `SetDifficulty`, `SetExtranonce`, `ConnectionEnds`. The only
thing that other tasks see in the middle of a line is the mutex of `shares_pending`, so answers
have a second step (`FinishAnswer`), as have the submitting task (`TakeShare`, `FinishInsert`) and the
logger (`LogTick`, `LogDone`). A `try_lock().unwrap()` that fails is a panic: in the handler the
process ends and is started again (`Exit`, with an empty map), the submitter is dead until
the next connection, the logger as well. `pending` alone survives a connection. `ListenReturns` is
the test at the head of the loop, `Connect` the choice of the address.

`PoolSettings` has the numbers: `TargetWords` on words of `WordBits` bits, `NonceFixed` and
`NonceMask`, with shifts that wrap as in a release build. The pool assigns them before the
first job, and they are checked when they arrive: nothing else reads them.

### PomTree, PomProof and PomDevice

A hash is the tuple of what it hashes, which makes it injective: two trees are equal only if they
are built from the same chunks in the same way. `DenseLevels` is the tree that a node
pins (`merkle_root`), with a lone node hashed with itself. Against it stands the sparse file:
`Checkpoints` and `Offset` (`compute_checkpoint_offsets`), `NextNode` (what `build_from_gguf` and
`finalize_checkpoint_upper` append next, each node folded from a `Batch` of the chunks or of the
`StoredLevel` below), `TreeFits` (all that `open_existing_tree` asks), and
`merkle_path`, which reads stored levels and computes the others with `compute_subtree_hash`.
Chunks come from tensors in the order of their names, which is not that of the file
(`Table`, `read_chunk`). A file is a sequence of nodes; it grows by one node per step. Whatever is
computed level by level or tensor by tensor is a recursive function on numbers (`Levels`, `Above`,
`ChunksUpTo`, `Offset`), which TLC evaluates and the proofs can unfold.

`PomProof` walks (`Trace`), builds a proof and verifies it; the mixing function is the
parameter `Transition`, and `challenges`, a hash in the code, is any choice of steps, so that a proof
has to open wherever it is asked to. `PomDevice` does the same walk with `fast_mod`, where
`mod_magic` is as in the code but on `WordBits` bits, with its self-test on edge cases and samples
(`Samples`); a remainder one too large reads beside the weights, and what is there is a
choice (`Stray`).

### Lineup, ModelStore, IpfsDaemon and Startup

`Lineup` has the scores, memory sizes and tiers of the code; `NodeTier` says independently what
a node counts: the rank, by size, of the model among those that may be proved at that score.
`ModelStore` keeps the length of each file, the seal, and the download in progress (`todo` has the
places in `Files`, which are downloaded in that order);
`Resume`, `Restart`, `RangeRefused` and `ConnectFails` are the answers of the gateway, `Receive` and
`DownloadEnds` what becomes of the stream. `IpfsDaemon` is `ensure_daemon` with the binary absent,
partial or whole. `Startup` goes through `main()`: key file, staging, prefetch, probe
and library installation, then `client_main` with jobs, the index and one worker's blocks. `Crash`
is possible everywhere; every other exit (`Stop`) is one of the code, among them the freeze
handler's abort while an index is being built. `Boot` is the supervisor that
`main.rs:517` counts on (HiveOS, PM2).

Abstracted: a file is written a node or a piece at a time and what was written stays (no power
loss); `pom-tree.bin` may also be what an earlier version left (`FullTree`), and the
small files are only `tokenizer.json` and the like; what one worker does stands for all
(`GpuResidency` has several); of a job only score and target count.

## 3. Runs

At most three minutes each with two workers. "Violation" runs check what a comment or the documentation says and find
that the code does otherwise; `findings` in `PROJECT.json` quotes the lines.

| Run | Question | Answer |
|---|---|---|
| `watch_channel` | Is a wake-up ever lost? Does a receiver keep an old job under a new id? Is it the register that users think of, waiting included? | No, no, yes |
| `escrow_watcher` | Are outputs tracked once and the indexes exact, for any caller, over restarts and failing writes? | Yes |
| `escrow_claims` | Is an escrow marked claimed only if it was, is every escrow given up for cause, does the watcher wait only for an answer to come, and is every escrow resolved in the end? | Yes, but a claim that meets another request on the connection may be marked or given up wrongly; and if amounts exceed the fee |
| `escrow_routing` | Is an escrow marked claimed only if it was, without that exception? | No: an answer to an AiResponse settles the claim in flight (`grpc.rs:653`) |
| `grpc_client` | Does mining resume on a node without other miners? Is a request answered once, its reward tracked, a challenge reported, the watchdog flag right? | Yes |
| `gpu_residency` | Can threads wait for one another in a circle, although a batch keeps one lock and an inference takes two? Do inference, rebuild and eviction come to an end? Is the watchdog's counter exact, the index built once, and never an inference run on what a panic left? | No circle; they end unless workers or tasks go round without end, which may starve them; yes, but a worker that dies while it loads its miner is counted for good |
| `miner_workers` | Does every job, suspension and end reach every worker, mining, waiting or blocked on a send? Does each work on what it was told last? Does a dropped manager always come to an end, and is one whose threads are all dead replaced? | Yes |
| `workers_nonce` | Is a share looked for in the sub-range of its job (`stratum.rs:285`)? | Not by a CPU worker that takes over a job while it has one (`miner.rs:448`) |
| `stratum` | Whatever a pool sends: does every answer find its share although ids repeat, does a CID belong to its job, do the flags follow the inference, are the numbers right, does the client read on? | Yes |
| `stratum_devfund` | And if the devfund is disabled (`cli.rs:176`)? | No: when the block counter is 0 the client reconnects forever (`stratum.rs:222`) |
| `boot` | Wherever a miner dies and whatever the gateway does: does it mine whole weights only, is its index the dense tree, are its blocks accepted, and does it come back? | Yes, except for what `Stuck` and `NothingLeft` name |
| `store_416` | Is a complete file without its seal recognised (`slm.rs:148`)? | No: the 416 comes back as an error, and every start fails |

### Bounds

* `watch_channel`: two receivers, one cloned from the other or created early, two sends
  and the drop, one spurious wake-up. Two receivers compete for the mutex and both
  wait for one notification; two sends overtake a receiver between any two of its steps.
  The theorems below remove these bounds for safety.
* `escrow_watcher`: two blocks that pay the miner and a foreign one without a coinbase id
  that finds the first one red; one paid and one unpaid AiRequest; compaction every two
  blocks; one orphan retry. All numbers in the code are compared, never computed with
  beyond sums, so small ones (window 1, margin 1, cooldowns 1 to 3) keep every
  order of the thresholds that the runs use.
* `escrow_claims`: a coinbase output and an inference escrow, a block that turns red, an
  endless supply of foreign blocks, one reconnection, two temporary refusals. `LastStart`
  keeps the score at which a cooldown starts below the largest score of a block. The one AiResponse
  is enough to meet a claim before, behind or between its submission and its answer, and to shift the answers
  of the claims that follow. The list is compacted at every block; `escrow_watcher` compacts at every second one.
* `grpc_client`: two requests, one paid; scores on both sides of the Proof-of-Model
  activation; files that vanish and return without limit; one challenge; one reconnection; at most one unasked message (`MaxUnread`) beside the answers that
  the client has asked for. The mutants of `PROJECT.json` show that each
  property notices a missing step within these bounds.
* `gpu_residency`: two devices with one worker each, of which the engine shares the first; two
  tasks, since an inference and a challenge, or one left by an old connection, run together;
  the switch of the lineup. Two builds of the index are enough to see a second one.

* `miner_workers`: a CPU and a GPU worker, or a GPU alone, which is the smallest team that can die of
  errors and also the one to show a worker without competition for `send_channel`; a
  job on the Proof-of-Model path and one of a pool on the legacy path; the initial value, two more
  commands and `Close`, so that one command overwrites another that nobody has read, and a
  suspension follows a job. The kernel of the GPU is fast or always too slow.
* `stratum`: four jobs, two with a task, one whose task does not parse, which is as good as none, and one
  whose task has no `stable_id` and is for another model; two ids per connection and any number of
  connections, so that the shares of old ones are met under the same ids; one exit;
  a counter of three values with a devfund of one. Words of four bits and bytes of one bit give
  every position of a mantissa in four words and an extranonce of every size up to a whole
  word.
* `boot`: seven machines, each with one peculiarity (memory, libraries, pool, daemon, index of two
  stored levels); trees of 5 to 17 chunks with a checkpoint on every third level (6 in the code),
  full, partial and lone nodes on each of them; two pieces of weights and one of a small
  file; two attempts per file; the scores around both hardforks; bytes of seven values and words of five bits, for which the
  machine with seven chunks has a reciprocal that passes the samples and is wrong (state 27). Two
  crashes: one during the recovery from the other. Exits are not bounded. `LargeEnough` keeps the number
  of chunks above half a batch, as in any model: below, the root would be carried too far, and
  the comment at `pom.rs:955` claims too much with "every N".

### Fairness

* Threads inside a call of the channel are scheduled; no one has to start a call.
* The node answers requests and blocks keep arriving, whoever they pay
  (`escrow_claims`). Nothing is assumed about reconnections or saves.
* `select!` serves the stream and the timer, tasks end, the node answers, it catches up with
  the chain, and it announces blocks *while the workers have a job*. The
  last condition is what makes `MiningResumes` worth checking: without the timer of
  `grpc.rs:97` a suspended miner would hear nothing more. Strong fairness
  of `NodeSyncs` stands for a node that catches up sooner or later: the guard of this action is
  disabled now and then only by the bound on messages.
* In `stratum` the tasks and the inference thread run, `listen` gets its turn, and a pool that can be
  reached again and again gets a job through (strong fairness of `HandleNotify`): nothing
  is assumed that would keep the connection.
* In `boot` no step hangs for good (ureq 2 sets no timeout for reading, so that a gateway that goes silent
  would), the gateway serves now and then (`GatewayServes`: it answers, tells the size, sends
  what is left), libraries can be installed in the end, the chain goes on, and some
  sessions last until the index is open, is built, and a good nonce is found and proved.
* Threads in `gpu_residency` run, and get a lock that stays free (weak fairness). No more is assumed:
  `std::sync::Mutex` keeps no queue, and a worker takes `MINERS` again microseconds after a batch
  (`miner.rs:298-305`, `pom_gpu.rs:340-344`), so that it may keep an inference or the rebuild of another worker
  from it for as long as it mines. No job or request has to come.

* In `miner_workers` every thread and task goes on unless its call has no reason to return
  (`MustReturn` of `LatestValue`), not every batch of a GPU wins (strong fairness of a pass that ends
  with a question: a worker that won every time would never look at its channel), whoever waits for
  room in `send_channel` gets it sooner or later (a fair semaphore in tokio), templates keep coming,
  and the freeze handler comes for a worker with nothing but a kernel that is too slow. The
  runtime needs a second thread: the drop of the manager blocks one.

## 4. Proofs

`WatchChannel_proofs` proves for every non-empty finite set of receivers, every number
of sends and of spurious wake-ups (`ReceiversAssumption`, `HoldersAssumption`,
`MaxSendsAssumption`, `SpuriousAssumption` in `WatchChannel`):

| Theorem | Statement |
|---|---|
| `Invariance` | `Spec => []IInv` |
| `TypeCorrect` | `Spec => []TypeOK` |
| `WakeupsNeverLost` | `Spec => []NoLostWakeup` |
| `NeverBehind` | `Spec => []NeverBehindObservedId` |
| `ImplementsSafety` | `Spec => Register!Safety` |

None of the properties is inductive. `IInv` adds to the types

* `CountInv`, the receiver count is the number of live handles: without it the decrement
  in the drop of a receiver could leave the naturals;
* `SenderInv`, value and id differ exactly while the sender holds the RwLock, and a
  dropped sender still has its notification to make;
* `ObservedInv`, no recorded or delivered id runs ahead;
* `PathInv` and `MutexInv`, which step belongs to which pass through
  `get_changed_internal`, and who holds the mutex;
* `ParkInv`, the double check: whoever has parked, is about to park, or has just checked
  for a living sender under the mutex has seen everything, or the sender has yet to take
  that mutex. It is an invariant only with `MutexInv`: the sender cannot be at
  `notify` while a receiver checks.

Each part has a lemma with one step per action. `ImplementsSafety` shows that each step of
the channel under `IInv` is a step of `LatestValue` or a stutter: a receiver that returns
empty-handed under the mutex has seen the latest value, one that clones the value under
the read lock returns the value of the current id.

`GpuResidency_proofs` proves for every finite set of workers, every set of devices and tasks
and every number of builds (`WorkersAssumption`, `ThreadsAssumption`, `DeviceAssumption`,
`MaxBuildsAssumption` in `GpuResidency`):

| Theorem | Statement |
|---|---|
| `ResidencyInvariance` | `Spec => []IInv` |
| `ResidencyTypeCorrect` | `Spec => []TypeOK` |
| `LoadingCounts` | `Spec => []LoadingExact` |
| `LocksWithoutDeadlock` | `Spec => []NoDeadlock` |
| `NoInferenceAfterPanic` | `Spec => []InferenceOnSoundEngine` |
| `SingleIndexBuild` | `Spec => []IndexBuiltOnce` |
| `OneInferenceAtATime` | two tasks that load or generate are the same task |

Here `IInv` ties each lock to the places of its holders (`LockInv`), says that an engine spoilt
by a panic is always under a poisoned lock and that a loading task finds none (`EngineInv`), and
that whoever is about to build has seen under the lock that there is no index (`IndexInv`); the
type of `LOADING` itself needs `LoadingExact`, for a decrement alone could leave the naturals.
A `NoOne` that is no thread is all that the locks need of the constants. `NoDeadlock` is about every set of threads at
once: holders of `MINERS` and of the index lock wait for nobody, the holder of `ENGINE` for `MINERS` at most, so that no
lock can be the one that closes a circle.

`StratumClient_proofs` proves for all jobs, tasks and numbers of ids, exits and percentages, and for every
width of words and every set of difficulties and extranonces (`JobsAssumption`, `CountersAssumption`,
`NoneAssumption` in `StratumClient`, `WordsAssumption` and `ProductAssumption` in `PoolSettings`):

| Theorem | Statement |
|---|---|
| `StratumInvariant` | `Spec => []IInv` |
| `StratumTypeCorrect` | `Spec => []TypeOK` |
| `AnswersFindShares` | `Spec => []SharesAccounted` |
| `CidsBelong` | `Spec => []CidBelongsToJob` |
| `FlagsFollowInference` | `Spec => []FlagsExact` |
| `SettingsArriveExact` | `Spec => []SettingsExact` |

`SharesAccounted` is not inductive: a new share overwrites whatever the map has under its id, and an answer
takes an entry away. `IdInv` says why neither hits a share that still waits: ids only grow on a connection,
nothing of this connection has an id from the next one on, and the share that the submitting task holds has
its entry and an id of its own, so that sending it needs no look at the map. `CidInv` is
`CidBelongsToJob` for that share, between the lookup and the sending. `FlagsExact` is inductive with the
types: an inference starts only where `inFlight` is false, so where no other runs. All hold without fairness.

`SettingsArriveExact` is arithmetic: a setting is what was computed from some difficulty or extranonce
(`SettingKept`), and what was computed is exact (`TargetsExact`, `RangesExact`). With `p` the product and `e`
the bits it is shifted by in its word, the two words that are written are `(p * Power[e]) % WordSize` and
`p \div Power[WordBits - e]`; `Halves` (in `Powers_proofs`) says that such a pair loses no bit, from the uniqueness of
quotient and remainder, and `PowerSum` puts it in its place among four words. `ProductAssumption` is that the
product of the 24 bits of a mantissa and the 16 of the base fits a word.

`GrpcClient_proofs` proves for every set of transactions, payloads and scores and every bound
(`RequestsAssumption`, `ScoresAssumption`, and `NothingAssumption`, that "no task" is no task):

| Theorem | Statement |
|---|---|
| `ClientInvariant` | `Spec => []IInv` |
| `ClientTypeCorrect` | `Spec => []TypeOK` |
| `RequestsAnsweredOnce` | `Spec => []AnsweredOnce` |
| `RewardsTracked` | `Spec => []RewardTracked` |
| `FlagFollowsChallenge` | `Spec => []ChallengeFlagExact` |
| `IdleWorkersHaveReason` | `Spec => []IdleForAReason` |

`QueueInv` says where a payload can be: in the queue once, under inference, or answered, never in two of them,
and seen in each. `TxidInv` says that the id of a paid transaction is remembered from its scan to its harvest
and is that of a transaction with this payload; `RewardTracked` follows at the harvest. `IdleForAReason`
needs `SyncInv`: a template that says "not synced" after the node has caught up is followed in the
stream by the announcement that it has, or the workers would wait for a template nobody asks for.

`EscrowClaims_proofs` proves of the watcher alone, for every set of blocks, in any order, any disk and any answers
(`BlocksAssumption`, `NamesAssumption`, `RewardAssumption`, `NumbersAssumption`):

| Theorem | Statement |
|---|---|
| `WatcherInvariant` | `Spec => []IInv` |
| `WatcherTypeCorrect` | `Spec => []TypeOK` |
| `OutputsTrackedOnce` | `Spec => []OneEntryPerOutpoint` |
| `IndexesSayWhatEntriesSay` | `Spec => []IndexesExact` |

The three properties are inductive together and none of them alone: deduplication trusts the index, and a push keeps
the index exact only if it was. Compaction renumbers the open entries in ascending order; that
it leaves the indexes alone if nothing is dropped is right because an ascending numbering of all places is
the identity (`AscendingOfAll`).

Then it composes the watcher with client, node and reconnections. `WatcherHoldsAtWork` carries the
watcher's invariant over to `ClaimsSpec`. The others speak of what claims become. The history variable `crossed`
has the outpoints of claims that were on the connection together with another request; no guard reads it. With
`crossed` empty, the theorems would say that nothing is ever marked wrongly, which `escrow_routing` refutes; they say
that nothing but such a meeting can be the reason:

| Theorem | Statement |
|---|---|
| `WatcherHoldsAtWork` | `ClaimsSpec => [](OneEntryPerOutpoint /\ IndexesExact)` |
| `ClaimsInvariant` | `ClaimsSpec => [](IInv /\ ClaimsInv)` |
| `ClaimedWasSpent` | `ClaimsSpec => []ClaimedUnlessCrossed` |
| `ClaimIsUnderWay` | `ClaimsSpec => []AnswerToCome` |
| `GivenUpWithCause` | `ClaimsSpec => []GivenUpForCause` |

`Waiting` is the heart: the pending claim is under way, and a claim that is not crossed is alone, so that the
answer belongs to what it is taken for. `AllCaused` holds of the file as well as of
the list, since a reconnection loads it.

`MinerWorkers_proofs` proves for every finite set of CPU and GPU workers, any jobs and any number of commands
(`WorkersAssumption`, `JobsAssumption`, `BoundsAssumption`):

| Theorem | Statement |
|---|---|
| `MinerInvariant` | `Spec => []IInv` |
| `MinerTypeCorrect` | `Spec => []TypeOK` |
| `WorkersWorkOnLastCommand` | `Spec => []WorksOnLastCommand` |
| `ChannelUsedAsRegister` | `Spec => [][Channel!Next]_channel` |
| `ThreadsJoined` | a manager that is gone has left no worker alive |

`WorksOnLastCommand` needs that a worker with a job has been told something (`Told`), and the types that there is
always room for the last command (`Room`). `ChannelUsedAsRegister` joins the two halves of the channel: the
workers assume `LatestValue`, which `ImplementsSafety` shows `WatchChannel` to implement.

`Startup_proofs` proves for every machine, every set of files of any size, every number of attempts and of
crashes, every model, chunk size and checkpoint interval, every walk and all challenges:

| Theorem | Statement |
|---|---|
| `BootInvariant` | `Spec => []IInv` |
| `BootTypeCorrect` | `Spec => []TypeOK` |
| `MinesWholeWeights` | `Spec => []WeightsWhole` |
| `IndexIsExact` | `Spec => []IndexExact` |
| `BlocksAreAccepted` | `Spec => []BlocksAccepted` |

The assumptions are `StoreAssumption`, `TreeAssumption`, `WalkAssumption` and `DeviceAssumption` about sizes and
counts, and

* `MachinesAssumption`: tensors begin and end at natural numbers, and a model has more chunks than half a
  batch (`LargeEnough`: 32 chunks, a kilobyte, in the code; real models have tens of millions);
* `StatesAssumption`: a step of the walk leads from a word to a word (`transition` returns a `u64`);
* `BytesAssumption`: pow values and targets are byte strings of the same length (32 in the code).

**Weights.** `Settled` holds between `BeginEnsure` and the seal: a piece of the weights is whole or still pending, for
the weights are always downloaded again and a download ends only at a known total. That nothing is pending outside
of the fetch, and that the phases behind it have the weights whole if there is a model (`ServedWhole`), makes it
inductive over exits and crashes.

**Index.** `IndexExact` speaks of an index that is ready, and is not inductive: a build is killed anywhere, and the next
start finds its file. `TreeInv` says what can be on the disk: nothing, the full tree of an old version, or a
file that has `Begun`, in which each node, at the place that `Offset` gives it, is the node of the
dense tree. The argument has these steps.

* *Numbers.* `count_at_level` halves until one node is left (`CountBounds`, `RootReached`), and is the length of the dense
  level (`LevelsRows`). The stored levels follow one another without gap or overlap (`OffsetRecursion`,
  `PlacesOfLevels`, `PlaceHasLevel`), the first of them at the interval (`CheckpointLevels`, which needs `LargeEnough`).
* *Chunks.* The table leads from the number of a chunk to the place it was hashed from, whatever tensor it is in
  (`ChunksGrow`, `LeavesInOrder`, `ChunkOfLeaf`).
* *Folding.* A part of a level that begins with a pair has its part of the next level above it (`ParentsOfPart`), so that
  folding a batch exactly as many rounds as it is below gives the dense node, at the right edge as well
  (`FoldIsDense`). This is where the mutant that stops at a single node fails.
* *Building.* The next node is the dense one, from chunks or from the level below, which is complete by then
  (`NextNodeDense`, `NextNodeKeeps`); a file of the full length has them all (`BuiltExact`), and every path that is read
  from it or computed again is a path of the dense tree (`PathNode`).
* *Opening.* Only the size is compared. It is enough because a full tree of an old version is longer than the
  sparse file of the same model (`FullTreeDoesNotFit`), and a file with the right size that a build has left is
  finished.

**Blocks.** `BlockInv` says that a found nonce belongs to a tier and that a proof is what `build_proof` made of it
over the index of this machine. `PathOpens` shows, for any number of leaves and any leaf, that `verify_merkle`
accepts the path of the dense tree; it is used three times per opening, for two states of the trace and a chunk
(`TraceRecursion`, `TraceOpens`, `ProofVerifies`). `LowerNumber` shows that the comparison of bytes from the highest down in
`le_leq` is that of the numbers, and `TierIsOfNode` that a tier which the miner computes is the rank by size of its
model among those of its time, before and after the hardfork.

What is computed over data, such as a level of a tree, is a recursive function on the numbers of levels, tensors or bytes.
The library's induction needs an operator as a parameter; what takes its place are least counterexamples. `Least` in
`Powers_proofs` gives a set of naturals its least element (from `NatLessThanWellFounded`, the one use of
well-foundedness), and `Recursion` and `RecursionUpTo` say from it that a recursive function is what its equation says.

Only model-checked:

* liveness: the second half of `ImplementsRegister`, `EscrowResolved`, `MiningResumes`, `ChallengeReported`,
  `RequestsServed`, `EndsUnlessOthersGoOn`, `CommandsReachWorkers`, `ClosingEnds`, `KeepsListening` and
  `RecoversUnlessStuck`. Liveness and ENABLED are out of the prover's reach.
* the violations of section 3, which are counterexamples.

## 5. What the checks do not say

* `EscrowResolved` needs amounts above the fee, for `find_claim` picks the same dust escrow at
  every block and nothing else is claimed any more (`escrow.rs:320`). It counts an escrow as resolved that the
  answer to another request has marked (`escrow_routing`).
* Three comments that the models contradict, without a run of their own: lost tracking is not
  "re-derived from the chain on the next blocks" (`escrow.rs:192`), nobody asks for past blocks; `catch_unwind`
  does not keep a panic from "permanently poisoning ENGINE" (`slm.rs:984`), the guard is dropped while unwinding, and
  from then on every inference loads its model again; and mining does not pause during an inference
  (`README.md:108`) on the GPU's Proof-of-Model path, which takes a suspension for no news (`miner.rs:325`).
* `RewardTracked` speaks of a payload, not of a transaction: two transactions with one
  payload share one entry of `ai_request_txids`, and the escrow of the first is lost.
* The GPU itself, hash functions, tensor code, and the RPC encoding are not modelled: no
  protocol state, or numeric code on wide words.
* "Inference has priority over every worker" (`pom_gpu.rs:316`, `slm.rs:1002`) is not what the locks provide: `uninstall`
  waits for `MINERS` like everybody else, with `ENGINE` held, and the worker of any device may get ahead of it batch after
  batch. `EndsUnlessOthersGoOn` says that nothing but such rounds can keep an inference, an eviction or a rebuild from
  its end; how long a fair enough scheduler lets them last is not modelled.
* Nobody restarts a worker that panics while it loads its miner, and its count stays in `LOADING`
  (`pom_gpu.rs:365-367`): the stall watchdog is silent from then on. `LoadingExact` counts that worker in.
* `watch.rs:44` says that a reader cannot observe a new value with an old id. It can, for the id
  is loaded before the lock (`watch.rs:125`): the job is then delivered twice, never lost, which
  is what `NeverBehindObservedId` says.
* An inference that a block notification starts does not suspend the workers before the next
  template; and a worker between `is_installed` and `install` may load its weights although the
  inference has just removed the miner of the device. Both are states of the models
  (`GrpcClient`, `GpuResidency`); nothing that these runs check depends on them.
* `ClosingEnds` does not count seconds: a worker that is in a batch for longer than one is shot by
  the freeze handler, too slow or not.
* The refinement of the channel is for programs that keep one sender, as the code does.
* `FlagsExact` says that the flags follow the inference, not that mining waits for it: a
  notify without a task, or with one already handled, gives the workers a job while an inference
  runs, which the comment at `stratum.rs:721` means to prevent.
* `SharesAccounted` is about answers to shares. Still fatal are a rejected authorisation (id 1), an error for
  an id that was never sent, and an answer, a share or a log line that meets the mutex taken, although
  `stratum.rs:536-538` calls a rejection "never fatal". Shares of old connections are never removed from
  the map, and shares carry the miner's own address while the connection is authorised for the devfund.
* `SettingsExact` leaves out shifts by a whole word: a mantissa at the first bit of one of the lower words
  appears in the word above as well, and an extranonce that leaves eight bytes gets a mask of 0
  (a debug build panics in both).
* A GPU worker past the activation of Proof of Model finds nonces for a pool and drops them
  (`pow.rs:175-213`); `Stuck` counts every pool.
* `WeightsWhole` is about weights. `tokenizer.json` cut short by a crash is kept and sealed,
  for only its existence is looked at, although `slm.rs:266` says that `.ok` "guards against truncated files".
* `BlocksAccepted` holds because the host walks again. The comments that the reduction is `a / d` "for all
  a" and that "correctness [is] always preserved" (`pom_gpu.rs:60-64`) do not hold: the candidate is off by one for some
  `a` of the form `k * d - 1` for roughly a quarter of the divisors of this size, and a million samples
  almost never meet one (`d = 90721575`, `a = 0xf96e060c4a416f98`); it is exact for the Gemma model. The device
  then reads one chunk beside the weights, and a winner found that way is dropped.
* The very-light tier is said to fall back to Gemma before its hardfork (`models.rs:301`); the code stages
  its later model and idles until then. The machines of `boot` start before it and wait.
* Left out of `boot`: `--recover-escrow`, option parsing (with `parse_devfund_percent`), power limits,
  plugin loading, power loss without `fsync`, the lineup before OPoI v2. A daemon is looked after only at
  a connection, as in the code.

## 6. Plan

Every invariant that a run checks is now a theorem. Open are

1. The device: for which divisors `mod_magic` is exact on words of any width. It is not for all (section 5), for the code
   tests samples and not the bound on the error of the candidate; a theorem would state that bound.
2. A lineup before OPoI v2, should `main.rs` ever ask for it.

Not planned: hash functions, tensor code and driver calls, which have no protocol state; the ticks of
`log_hashrate`, whose only input from the protocol is `LOADING` (`LoadingExact`).
