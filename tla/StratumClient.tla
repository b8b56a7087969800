--------------------------- MODULE StratumClient ----------------------------
(***************************************************************************)
(* StratumHandler of src/client/stratum.rs: the client loop of a miner     *)
(* that works for a pool.  listen() takes one line of the pool after the   *)
(* other: jobs, some with an AiRequest, challenges, answers to shares.  A  *)
(* task of its own forwards the workers' shares, another logs the          *)
(* statistics, and an inference runs on a thread of its own; the three     *)
(* share a map of pending shares under a lock that is only ever tried.     *)
(*                                                                         *)
(* The pool may send any line at any time, answers included, so a line is  *)
(* chosen when it is read.  A job's payload, target and nonce range go     *)
(* through unchanged and are left out; what the pool assigns for them is   *)
(* kept only until the next job.                                           *)
(***************************************************************************)
EXTENDS PoolSettings, FiniteSets

CONSTANTS
  Jobs,            \* job ids of the pool
  Tasks,           \* AiRequests, named by their stable_id
  TaskOf,          \* what mining.notify attaches to a job, or None
  Malformed,       \* tasks whose JSON does not parse
  Unnamed,         \* tasks with an empty stable_id
  Served,          \* tasks for the model this miner serves
  DevfundPercent,  \* devfund_percent; 0 if main.rs does not call add_devfund
  CtrRange,        \* 10_000: where block_template_ctr starts again
  MaxId,           \* bound on the ids of one connection
  MaxExits,        \* bound on the restarts of the process
  None

ASSUME JobsAssumption ==
  /\ TaskOf \in [Jobs -> Tasks \cup {None}] /\ None \notin Tasks \cup Jobs
  /\ Malformed \subseteq Tasks /\ Unnamed \subseteq Tasks /\ Served \subseteq Tasks
ASSUME CountersAssumption ==
  /\ DevfundPercent \in Nat /\ MaxExits \in Nat
  /\ MaxId \in Nat \ {0, 1} /\ CtrRange \in Nat \ {0}

VARIABLES
  link,        \* "down" or "up"
  exits,       \* restarts of the process after a panic of listen()
  ctr,         \* block_template_ctr, shared by all connections
  miningDev,   \* mining_dev: this connection is authorised for the devfund
  ready,       \* loaded_model_ids is not empty
  setting,     \* the number that the pool assigned last, and what became of it
  lastId,      \* last_stratum_id: the next id
  slot,        \* current_task_slot: the job whose task it holds, or None
  results,     \* inference_cache.results
  inProgress,  \* inference_cache.in_progress
  inFlight,    \* challenge_in_flight
  quiet,       \* opoi_challenge_flag of this connection's MinerManager
  run,         \* this connection's inference thread, or None
  work,        \* the job of the workers, or None
  channel,     \* block_channel, capacity 1
  submitter,   \* the task of create_block_channel
  logger,      \* log_handler has not panicked
  lock,        \* who holds the mutex of shares_pending
  pending,     \* shares_pending, which is static
  sent         \* shares that the pool has not answered

connection == <<link, exits, ctr, miningDev, ready, setting>>
inference == <<slot, results, inProgress, inFlight, quiet, run>>
shares == <<lastId, channel, submitter, lock, pending, sent>>
vars == <<connection, inference, shares, work, logger>>

Idle == [at |-> "idle"]
NoShares == [id \in {} |-> None]
Share == [id : 2 .. MaxId - 1, job : Jobs, cid : Tasks \cup {None}]
Run == [task : Tasks \cup {None}, at : {"infer", "done", "quiet"}]

ASSUME NoneAssumption == None \notin Run

Without(f, x) == [y \in DOMAIN f \ {x} |-> f[y]]
With(f, x, v) == [y \in DOMAIN f \cup {x} |-> IF y = x THEN v ELSE f[y]]

-----------------------------------------------------------------------------
(* A connection.                                                           *)

DevfundTurn == ctr <= DevfundPercent

MutantAuthorisedForDevfund == DevfundPercent > 0 /\ ctr < DevfundPercent

\* register(): main.rs leaves devfund_address at None if the percentage is 0.
AuthorisedForDevfund == DevfundPercent > 0 /\ DevfundTurn

\* What connect() and MinerManager::new make anew; shares_pending is kept.
FreshConnection ==
  /\ slot' = None /\ results' = {} /\ inProgress' = {}
  /\ inFlight' = FALSE /\ quiet' = FALSE /\ run' = None
  /\ work' = None /\ channel' = None /\ submitter' = Idle /\ logger' = TRUE
  /\ lock' = "free" /\ sent' = {} /\ setting' = None

\* connect() and register(): subscribing has id 0 and authorising id 1; add_devfund
\* was called in between if the percentage is not 0.
Connect ==
  /\ link = "down"
  /\ link' = "up" /\ lastId' = 2
  /\ miningDev' = AuthorisedForDevfund
  /\ FreshConnection
  /\ UNCHANGED <<exits, ctr, ready, pending>>

\* The handler and the MinerManager are dropped.  Abort takes a task at an await, so
\* not with the mutex in its hands; an inference goes on, but nobody reads its results.
Lost ==
  /\ lock # "submitter" /\ lock # "logger"
  /\ link' = "down"
  /\ FreshConnection
  /\ UNCHANGED <<exits, ctr, miningDev, ready, lastId, pending>>

\* A panic in listen() ends the process, and a supervisor starts it again with a
\* counter of its own.
Exit ==
  /\ exits < MaxExits
  /\ exits' = exits + 1 /\ link' = "down"
  /\ ctr' \in 0 .. CtrRange - 1
  /\ pending' = NoShares
  /\ FreshConnection
  /\ UNCHANGED <<miningDev, ready, lastId>>

\* The check at the head of listen(): the connection is authorised for the wrong address.
WrongAddress == miningDev # DevfundTurn

ListenReturns ==
  /\ link = "up" /\ lock # "handler" /\ WrongAddress
  /\ Lost

\* The handler waits for the next line of the pool.
Listening == link = "up" /\ lock # "handler" /\ ~WrongAddress

\* The pool closes, or sends what does not decode, an unexpected command or a result
\* without an id.
ConnectionEnds == Listening /\ Lost

-----------------------------------------------------------------------------
(* Lines of the pool.                                                      *)

MutantCountTemplate == ctr' = ctr + 1

CountTemplate == ctr' = (ctr + 1) % CtrRange

StartRun(r) ==
  /\ inFlight' = TRUE /\ quiet' = TRUE /\ run' = r
  /\ work' = None

\* The early returns of handle_ai_task once the task is in the slot; the swap of
\* challenge_in_flight is the last.
Inferable(t) ==
  /\ t \notin Unnamed \cup results \cup inProgress
  /\ t \in Served /\ ready
  /\ ~inFlight

\* mining.notify: without a model mining stops and the slot stays; otherwise an
\* inference starts and mining pauses, or the workers get the job, whatever runs.
HandleNotify(j) ==
  LET t == TaskOf[j]
      parsed == t # None /\ t \notin Malformed
  IN
  /\ Listening
  /\ CountTemplate /\ setting' = None
  /\ IF ~ready
     THEN work' = None /\ UNCHANGED inference
     ELSE /\ slot' = IF parsed THEN j ELSE None
          /\ IF parsed /\ Inferable(t)
             THEN /\ StartRun([task |-> t, at |-> "infer"])
                  /\ inProgress' = inProgress \cup {t}
             ELSE /\ work' = j
                  /\ UNCHANGED <<inProgress, inFlight, quiet, run>>
          /\ UNCHANGED results
  /\ UNCHANGED <<link, exits, miningDev, ready, shares, logger>>

MutantHandleChallenge(valid) ==
  /\ Listening /\ ~inFlight
  /\ IF valid /\ ready
     THEN StartRun([task |-> None, at |-> "infer"])
     ELSE inFlight' = TRUE /\ UNCHANGED <<quiet, run, work>>
  /\ UNCHANGED <<connection, shares, logger, slot, results, inProgress>>

\* mining.challenge: one for another model, for one that is not ready or for none at
\* all ends with the flag cleared; while an inference is in flight it is dropped.
HandleChallenge(valid) ==
  /\ Listening /\ ~inFlight
  /\ IF valid /\ ready
     THEN StartRun([task |-> None, at |-> "infer"])
     ELSE UNCHANGED <<inFlight, quiet, run, work>>
  /\ UNCHANGED <<connection, shares, logger, slot, results, inProgress>>

\* An answer to id 1 or to a share.  try_lock().unwrap() panics while another task
\* holds the mutex, and so does remove().unwrap() of an error for an id that is not
\* pending; a result for such an id is ignored.
HandleAnswer(id, kind) ==
  /\ Listening
  /\ id = 1 \/ \E s \in sent : s.id = id
  /\ IF lock # "free" \/ (kind # "accepted" /\ id \notin DOMAIN pending)
     THEN Exit
     ELSE /\ lock' = "handler"
          /\ pending' = Without(pending, id)
          /\ sent' = {s \in sent : s.id # id}
          /\ UNCHANGED <<connection, inference, work, logger, lastId, channel, submitter>>

\* The guard of the mutex lives to the end of the statement; Unauthorized and
\* NotSubscribed then end the connection, which ConnectionEnds has as well.
FinishAnswer ==
  /\ link = "up" /\ lock = "handler"
  /\ lock' = "free"
  /\ UNCHANGED <<connection, inference, work, logger, lastId, channel, submitter, pending, sent>>

\* The pool assigns numbers after it has accepted the subscription and before the first
\* job; this bounds when, for neither touches anything but the jobs to come.
BeforeFirstJob == Listening /\ lastId = 2 /\ work = None /\ run = None /\ channel = None

\* mining.set_difficulty; a target too big is an error, and one outside of the array
\* a panic.
SetDifficulty(d) ==
  /\ BeforeFirstJob
  /\ CASE TargetPanics(d) -> Exit
       [] TargetTooBig(d) -> Lost
       [] OTHER -> /\ setting' = [asked |-> d, words |-> TargetWords(d)]
                   /\ UNCHANGED <<link, exits, ctr, miningDev, ready, inference, shares,
                                  work, logger>>

\* The answer to mining.subscribe, or mining.set_extranonce.
SetExtranonce(x) ==
  /\ BeforeFirstJob
  /\ setting' = [asked |-> x, fixed |-> NonceFixed(x), mask |-> NonceMask(x)]
  /\ UNCHANGED <<link, exits, ctr, miningDev, ready, inference, shares, work, logger>>

-----------------------------------------------------------------------------
(* The submitting task.                                                    *)

\* A worker's blocking_send; to a dead task it fails and the share is lost.
FindShare ==
  /\ link = "up" /\ work # None /\ channel = None /\ lastId < MaxId
  /\ submitter.at # "dead"
  /\ channel' = work
  /\ UNCHANGED <<connection, inference, work, logger, lastId, submitter, lock, pending, sent>>

MutantTakeShare ==
  /\ link = "up" /\ channel # None /\ submitter.at = "idle" /\ lastId < MaxId
  /\ lastId' = lastId + 1 /\ channel' = None
  /\ IF lock # "free"
     THEN submitter' = [at |-> "dead"] /\ UNCHANGED <<lock, pending>>
     ELSE /\ submitter' = [at |-> "insert", id |-> lastId, job |-> channel]
          /\ lock' = "submitter"
          /\ pending' = IF lastId \in DOMAIN pending THEN pending
                        ELSE With(pending, lastId, channel)
  /\ UNCHANGED <<connection, inference, work, logger, sent>>

\* The share gets its id and is entered as pending, or the task panics.
TakeShare ==
  /\ link = "up" /\ channel # None /\ submitter.at = "idle" /\ lastId < MaxId
  /\ lastId' = lastId + 1 /\ channel' = None
  /\ IF lock # "free"
     THEN submitter' = [at |-> "dead"] /\ UNCHANGED <<lock, pending>>
     ELSE /\ submitter' = [at |-> "insert", id |-> lastId, job |-> channel]
          /\ lock' = "submitter"
          /\ pending' = With(pending, lastId, channel)
  /\ UNCHANGED <<connection, inference, work, logger, sent>>

FinishInsert ==
  /\ submitter.at = "insert"
  /\ submitter' = [submitter EXCEPT !.at = "look"]
  /\ lock' = "free"
  /\ UNCHANGED <<connection, inference, work, logger, lastId, channel, pending, sent>>

MutantCidFor(job) ==
  IF slot # None /\ TaskOf[slot] \notin Unnamed /\ TaskOf[slot] \in results
  THEN TaskOf[slot]
  ELSE None

\* The CID of the result for the job's own task, if the slot still holds it.
CidFor(job) ==
  IF slot = job /\ TaskOf[slot] \notin Unnamed /\ TaskOf[slot] \in results
  THEN TaskOf[slot]
  ELSE None

LookUpCid ==
  /\ submitter.at = "look"
  /\ submitter' = [at |-> "send", id |-> submitter.id, job |-> submitter.job,
                   cid |-> CidFor(submitter.job)]
  /\ UNCHANGED <<connection, inference, work, logger, lastId, channel, lock, pending, sent>>

SendShare ==
  /\ submitter.at = "send"
  /\ sent' = sent \cup {[id |-> submitter.id, job |-> submitter.job, cid |-> submitter.cid]}
  /\ submitter' = Idle
  /\ UNCHANGED <<connection, inference, work, logger, lastId, channel, lock, pending>>

\* log_shares takes the mutex for the length of the map.
LogTick ==
  /\ link = "up" /\ logger
  /\ IF lock = "free"
     THEN lock' = "logger" /\ UNCHANGED logger
     ELSE logger' = FALSE /\ UNCHANGED lock
  /\ UNCHANGED <<connection, inference, work, lastId, channel, submitter, pending, sent>>

LogDone ==
  /\ lock = "logger"
  /\ lock' = "free"
  /\ UNCHANGED <<connection, inference, work, logger, lastId, channel, submitter, pending, sent>>
-----------------------------------------------------------------------------
(* The inference thread.                                                   *)

\* run_inference_and_upload: inference and upload may fail; in_progress goes anyway.
InferenceEnds(ok) ==
  /\ run # None /\ run.at = "infer"
  /\ run' = [run EXCEPT !.at = "done"]
  /\ inProgress' = inProgress \ {run.task}
  /\ results' = IF ok /\ run.task # None THEN results \cup {run.task} ELSE results
  /\ UNCHANGED <<connection, shares, work, logger, slot, inFlight, quiet>>

ClearQuiet ==
  /\ run # None /\ run.at = "done"
  /\ quiet' = FALSE /\ run' = [run EXCEPT !.at = "quiet"]
  /\ UNCHANGED <<connection, shares, work, logger, slot, results, inProgress, inFlight>>

ClearInFlight ==
  /\ run # None /\ run.at = "quiet"
  /\ inFlight' = FALSE /\ run' = None
  /\ UNCHANGED <<connection, shares, work, logger, slot, results, inProgress, quiet>>

\* Model files appear or vanish.
FilesChange ==
  /\ ready' = ~ready
  /\ UNCHANGED <<link, exits, ctr, miningDev, setting, inference, shares, work, logger>>

-----------------------------------------------------------------------------
Init ==
  /\ link = "down" /\ exits = 0 /\ setting = None /\ ctr \in 0 .. CtrRange - 1 /\ miningDev = FALSE
  /\ ready \in BOOLEAN
  /\ slot = None /\ results = {} /\ inProgress = {} /\ inFlight = FALSE /\ quiet = FALSE
  /\ run = None /\ work = None /\ channel = None /\ submitter = Idle /\ logger = TRUE
  /\ lock = "free" /\ pending = NoShares /\ sent = {} /\ lastId = 0

Pool ==
  \/ \E j \in Jobs : HandleNotify(j)
  \/ \E valid \in BOOLEAN : HandleChallenge(valid)
  \/ \E id \in 1 .. MaxId, kind \in {"accepted", "rejected"} : HandleAnswer(id, kind)
  \/ \E d \in Difficulties : SetDifficulty(d)
  \/ \E x \in Extranonces : SetExtranonce(x)
  \/ ConnectionEnds

Handler == Connect \/ ListenReturns \/ FinishAnswer
Submitter == TakeShare \/ FinishInsert \/ LookUpCid \/ SendShare
Logger == LogTick \/ LogDone
Inference == (\E ok \in BOOLEAN : InferenceEnds(ok)) \/ ClearQuiet \/ ClearInFlight

Next == Pool \/ Handler \/ Submitter \/ Logger \/ Inference \/ FindShare \/ FilesChange

\* Tasks and threads run; a pool that can be reached again and again gets a job through.
Fairness ==
  /\ WF_vars(Connect) /\ SF_vars(ListenReturns)
  /\ WF_vars(FinishAnswer) /\ WF_vars(FinishInsert) /\ WF_vars(LogDone)
  /\ WF_vars(LookUpCid) /\ WF_vars(SendShare) /\ WF_vars(Inference)
  /\ SF_vars(\E j \in Jobs : HandleNotify(j))

Spec == Init /\ [][Next]_vars /\ Fairness

-----------------------------------------------------------------------------
(* Properties.                                                             *)

TypeOK ==
  /\ link \in {"down", "up"} /\ exits \in 0 .. MaxExits
  /\ ctr \in 0 .. CtrRange - 1 /\ miningDev \in BOOLEAN /\ ready \in BOOLEAN
  /\ lastId \in 0 .. MaxId
  /\ slot \in Jobs \cup {None} /\ work \in Jobs \cup {None} /\ channel \in Jobs \cup {None}
  /\ results \subseteq Tasks /\ inProgress \subseteq Tasks
  /\ inFlight \in BOOLEAN /\ quiet \in BOOLEAN /\ logger \in BOOLEAN
  /\ run \in {None} \cup Run
  /\ submitter \in [at : {"idle", "dead"}] \cup [at : {"insert", "look"}, id : 2 .. MaxId - 1, job : Jobs]
                    \cup [at : {"send"}, id : 2 .. MaxId - 1, job : Jobs, cid : Tasks \cup {None}]
  /\ lock \in {"free", "handler", "submitter", "logger"}
  /\ DOMAIN pending \subseteq 2 .. MaxId - 1 /\ pending \in [DOMAIN pending -> Jobs]
  /\ sent \subseteq Share

\* Whatever the pool answers to a share of this connection finds the share under its id
\* and with its job (handle_message, stratum.rs:384 and 534), although the map still has
\* the shares that earlier connections left under the same ids: a rejection of a share
\* never unwraps None.
SharesAccounted ==
  \A s \in sent : s.id \in DOMAIN pending /\ pending[s.id] = s.job

\* A share carries the CID of its own job's task or none (stratum.rs:323-335), though the
\* slot, the results and the worker's job change independently of each other.
CidBelongsToJob ==
  \A s \in sent : s.cid # None => s.cid = TaskOf[s.job]

\* Both flags and in_progress say what the inference thread of this connection is doing
\* (stratum.rs:621-642, 718-746, 774): a flag left behind would refuse every later
\* inference and silence the watchdog for good.
FlagsExact ==
  /\ inFlight = (run # None)
  /\ quiet = (run # None /\ run.at # "quiet")
  /\ inProgress = IF run # None /\ run.at = "infer" THEN {run.task} \ {None} ELSE {}

\* The target of a difficulty is the difficulty-1 target divided by it, whichever words
\* it spans (set_difficulty, stratum.rs:573-588), except where a mantissa starts at the
\* first bit of one of the lower words; the nonces of an extranonce are those that begin
\* with it, if it leaves room for both (set_extranonce, 596-598).
SettingsExact ==
  /\ setting # None /\ setting.asked \in Difficulties => TargetExact(setting.asked, setting.words)
  /\ setting # None /\ setting.asked \in Extranonces
       => RangeExact(setting.asked, setting.fixed, setting.mask)

\* The miner goes on taking jobs (listen, stratum.rs:218-235): it always comes back to
\* reading, on the connection it has or on the next one.
KeepsListening == []<><<\E j \in Jobs : HandleNotify(j)>>_vars
=============================================================================
