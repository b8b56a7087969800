---------------------------- MODULE MinerWorkers ----------------------------
(***************************************************************************)
(* MinerManager and its worker threads (src/miner.rs) over one connection: *)
(* jobs and suspensions go out over the watch channel, of which only what  *)
(* LatestValue says is used; CPU and GPU loops mine, ask for news, and     *)
(* send blocks over a channel with room for one; at the end the manager    *)
(* closes the workers and joins them, and shoots one that does not end.    *)
(*                                                                         *)
(* One step is one pass of a worker through a part of its loop.            *)
(***************************************************************************)
EXTENDS Integers, Sequences, SequencesExt

CONSTANTS
  CpuWorkers, GpuWorkers,
  Teams,        \* the sets of workers that the options may ask for
  SlowGpus,     \* GPUs whose kernel may take longer than the block rate
  Jobs,         \* blocks or partial blocks
  Full,         \* those of a node; the others come from a pool
  Pom,          \* those past POM_ACTIVATION_DAA
  Extranonce,   \* Extranonce[j]: nonce_fixed of j
  None,         \* the command that suspends
  CloseCommand, \* the command that ends
  PollEvery,    \* a CPU worker asks for news once in so many nonces
  MaxCommands   \* bound on the commands sent before that one

Workers == CpuWorkers \cup GpuWorkers

ASSUME WorkersAssumption ==
  /\ IsFiniteSet(Workers) /\ CpuWorkers \cap GpuWorkers = {}
  /\ SlowGpus \subseteq GpuWorkers
  /\ Teams \subseteq SUBSET Workers
ASSUME JobsAssumption ==
  /\ Full \subseteq Jobs /\ Pom \subseteq Jobs /\ Extranonce \in [Jobs -> Nat]
  /\ None \notin Jobs /\ CloseCommand \notin Jobs /\ None # CloseCommand
ASSUME BoundsAssumption == {PollEvery, MaxCommands} \subseteq Nat \ {0}

VARIABLES
  published, open, seen, calling,   \* the watch channel, see LatestValue
  commands,     \* commands[n]: the value of rank n
  pc,           \* where each worker is: "top" of its loop, ...
  state,        \* state[w]: the rank of its job, 0 if it has none
  nonceOf,      \* nonceOf[w]: the rank of the job whose mask and fixed part a CPU uses
  nonce,        \* nonce[w], of a CPU, modulo PollEvery
  slow,         \* the GPUs whose kernel is too slow
  outgoing,     \* blocks in send_channel, 0 or 1
  forwarding,   \* the task that empties it runs
  connected,    \* the stream to the node takes what it is given
  manager,      \* "open", "closing", "joining", "closed" or "aborted"
  handles,      \* threads not yet joined
  isSynced      \* is_synced

channel == <<published, open, seen, calling>>
thread == <<pc, state, nonceOf, nonce>>
sending == <<outgoing, forwarding, connected>>
managing == <<manager, handles, isSynced>>
vars == <<channel, commands, thread, slow, sending, managing>>

Channel == INSTANCE LatestValue WITH Receivers <- Workers

JobOf(w) == commands[state[w]]
OnPom(w) == state[w] # 0 /\ JobOf(w) \in Pom
Goes(w, from, to) == pc[w] = from /\ pc' = [pc EXCEPT ![w] = to]

-----------------------------------------------------------------------------
(* What both loops do.                                                     *)

\* Without a job a worker waits for a command, ...
Wait(w) ==
  /\ pc[w] = "top" /\ state[w] = 0
  /\ Channel!Call(w) /\ calling'[w] = "wait"
  /\ UNCHANGED <<commands, thread, slow, sending, managing>>

\* ... and only then, on a CPU, are mask and fixed part of the nonce taken from the job.
WaitReturns(w) ==
  /\ calling[w] = "wait" /\ Channel!Deliver(w)
  /\ LET command == commands[published]
     IN  /\ state' = [state EXCEPT ![w] = IF command \in Jobs THEN published ELSE 0]
         /\ nonceOf' = IF command \in Jobs /\ w \in CpuWorkers
                       THEN [nonceOf EXCEPT ![w] = published] ELSE nonceOf
         /\ Goes(w, "top", IF command = CloseCommand THEN "exit" ELSE "top")
  /\ UNCHANGED <<commands, nonce, slow, sending, managing>>

\* The end of a pass, at which the worker asks for news.
AskForNews(w, from) ==
  Goes(w, from, "poll") /\ Channel!Call(w) /\ calling'[w] = "poll"

MutantAnyCommandIsJob(w) == published

MutantStateAfterPoll(w) ==
  CASE commands[published] \in Jobs -> published
    [] commands[published] = None /\ state[w] # 0 -> state[w]
    [] OTHER -> 0

\* A GPU on the Proof-of-Model path keeps its job when it is told to suspend.
StateAfterPoll(w) ==
  CASE commands[published] \in Jobs -> published
    [] commands[published] = None /\ w \in GpuWorkers /\ OnPom(w) -> state[w]
    [] OTHER -> 0

MutantPollReturns(w) ==
  /\ calling[w] = "poll"
  /\ \/ Channel!Unchanged(w) /\ UNCHANGED state
     \/ Channel!Deliver(w) /\ state' = [state EXCEPT ![w] = StateAfterPoll(w)]
  /\ Goes(w, "poll", "top")
  /\ UNCHANGED <<commands, nonceOf, nonce, slow, sending, managing>>

PollReturns(w) ==
  /\ calling[w] = "poll"
  /\ \/ Channel!Unchanged(w) /\ Goes(w, "poll", "top") /\ UNCHANGED state
     \/ /\ Channel!Deliver(w)
        /\ state' = [state EXCEPT ![w] = StateAfterPoll(w)]
        /\ Goes(w, "poll", IF commands[published] = CloseCommand THEN "exit" ELSE "top")
  /\ UNCHANGED <<commands, nonceOf, nonce, slow, sending, managing>>

\* blocking_send: it waits for room, or fails when nobody empties the channel any more.
\* A block of a node ends the work on the job, a share does not.
Submit(w) ==
  /\ pc[w] = "found"
  /\ IF forwarding THEN outgoing = 0 /\ outgoing' = 1 ELSE UNCHANGED outgoing
  /\ state' = IF JobOf(w) \in Full THEN [state EXCEPT ![w] = 0] ELSE state
  /\ UNCHANGED <<commands, nonceOf, slow, forwarding, connected, managing>>

\* The thread ends and drops its job and its receiver.
Exit(w) ==
  /\ Goes(w, "exit", "dead")
  /\ Channel!Leave(w)
  /\ state' = [state EXCEPT ![w] = 0]
  /\ UNCHANGED <<commands, nonceOf, nonce, slow, sending, managing>>

-----------------------------------------------------------------------------
(* A CPU worker.                                                           *)

\* The next nonce; the worker asks for news whenever it reaches a multiple of 128.
NextNonce(w, from) ==
  LET n == (nonce[w] + 1) % PollEvery
  IN  /\ nonce' = [nonce EXCEPT ![w] = n]
      /\ \/ n = 0 /\ AskForNews(w, from)
         \/ n # 0 /\ Goes(w, from, "top") /\ UNCHANGED channel

\* A partial block past the activation can be no solution, for it cannot carry a proof.
CpuTries(w) ==
  /\ w \in CpuWorkers /\ pc[w] = "top" /\ state[w] # 0
  /\ \/ /\ JobOf(w) \in Full \cup (Jobs \ Pom)
        /\ Goes(w, "top", "found")
        /\ UNCHANGED <<channel, nonce>>
     \/ NextNonce(w, "top")
  /\ UNCHANGED <<commands, state, nonceOf, slow, sending, managing>>

CpuSubmits(w) == w \in CpuWorkers /\ Submit(w) /\ NextNonce(w, "found")

-----------------------------------------------------------------------------
(* A GPU worker.                                                           *)

\* Proof of Model: it asks for news only after a batch without a winning nonce; with
\* one there may still be no block.
GpuWalks(w) ==
  /\ w \in GpuWorkers /\ pc[w] = "top" /\ OnPom(w)
  /\ \/ AskForNews(w, "top")
     \/ JobOf(w) \in Full /\ Goes(w, "top", "found") /\ UNCHANGED channel
  /\ UNCHANGED <<commands, state, nonceOf, nonce, slow, sending, managing>>

\* kHeavyHash: nothing found, a block, or the end of the thread after a wrong result or
\* an error of copy_output_to.  After an error of sync the loop starts over, so that a
\* kernel that is always too slow never gets here.
GpuHashes(w) ==
  /\ w \in GpuWorkers \ slow /\ pc[w] = "top" /\ state[w] # 0 /\ ~OnPom(w)
  /\ \/ AskForNews(w, "top")
     \/ \E to \in {"found", "exit"} : Goes(w, "top", to) /\ UNCHANGED channel
  /\ UNCHANGED <<commands, state, nonceOf, nonce, slow, sending, managing>>

GpuSubmits(w) ==
  /\ w \in GpuWorkers
  /\ Submit(w) /\ Goes(w, "found", "top")
  /\ UNCHANGED <<channel, nonce>>

WorkerStep(w) ==
  /\ manager # "aborted"
  /\ \/ Wait(w) \/ WaitReturns(w) \/ PollReturns(w) \/ Exit(w)
     \/ CpuTries(w) \/ CpuSubmits(w)
     \/ GpuWalks(w) \/ GpuHashes(w) \/ GpuSubmits(w)

-----------------------------------------------------------------------------
(* The channel for blocks and the connection.                              *)

MutantForward ==
  /\ outgoing = 1 /\ connected /\ manager # "aborted"
  /\ outgoing' = 0
  /\ UNCHANGED <<channel, commands, thread, slow, forwarding, connected, managing>>

\* The task of create_block_channel; an error ends it.
Forward ==
  /\ outgoing = 1 /\ manager # "aborted"
  /\ outgoing' = 0 /\ forwarding' = connected
  /\ UNCHANGED <<channel, commands, thread, slow, connected, managing>>

\* listen returns, and the manager is dropped before the client.
ConnectionEnds ==
  /\ manager \notin {"closed", "aborted"}
  /\ connected /\ connected' = FALSE
  /\ manager' = IF manager = "open" THEN "closing" ELSE manager
  /\ UNCHANGED <<channel, commands, thread, slow, outgoing, forwarding, handles, isSynced>>

-----------------------------------------------------------------------------
(* MinerManager.                                                           *)

\* watch::Sender::send fails when no receiver is left.
WorkersLive == \E w \in Workers : calling[w] # "absent"

Send(command) == Channel!Publish /\ commands' = Append(commands, command)

MutantSendOrFail(command) ==
  IF WorkersLive
  THEN published < MaxCommands /\ Send(command) /\ UNCHANGED manager
  ELSE UNCHANGED <<manager, channel, commands>>

\* An error of send ends listen.
SendOrFail(command) ==
  IF WorkersLive
  THEN published < MaxCommands /\ Send(command) /\ UNCHANGED manager
  ELSE manager' = "closing" /\ UNCHANGED <<channel, commands>>

\* A connection goes to a node or to a pool.
SameClient(job) ==
  \A n \in 1..published : commands[n] \in Jobs => (commands[n] \in Full <=> job \in Full)

\* process_block(Some(_))
ProcessBlock(job) ==
  /\ manager = "open" /\ SameClient(job)
  /\ isSynced' = TRUE
  /\ SendOrFail(job)
  /\ UNCHANGED <<thread, slow, sending, handles>>

\* State::new refuses a block without a header.
BadTemplate ==
  /\ manager = "open" /\ manager' = "closing"
  /\ isSynced' = TRUE
  /\ UNCHANGED <<channel, commands, thread, slow, sending, handles>>

MutantSuspend ==
  /\ manager = "open" /\ isSynced
  /\ isSynced' = FALSE
  /\ UNCHANGED <<channel, commands, manager, thread, slow, sending, handles>>

\* process_block(None)
Suspend ==
  /\ manager = "open" /\ isSynced
  /\ isSynced' = FALSE
  /\ SendOrFail(None)
  /\ UNCHANGED <<thread, slow, sending, handles>>

\* drop: the command to close ...
CloseWorkers ==
  /\ manager = "closing" /\ manager' = "joining"
  /\ IF WorkersLive THEN Send(CloseCommand) ELSE UNCHANGED <<channel, commands>>
  /\ UNCHANGED <<thread, slow, sending, handles, isSynced>>

\* ... and the threads joined one by one, the last one first.
JoinWorker ==
  /\ manager = "joining"
  /\ IF handles = <<>> THEN manager' = "closed" /\ UNCHANGED handles
     ELSE /\ pc[Last(handles)] = "dead"
          /\ handles' = Front(handles)
          /\ UNCHANGED manager
  /\ UNCHANGED <<channel, commands, thread, slow, sending, isSynced>>

\* The freeze handler, a second after the manager has begun to wait for w: a panic in a
\* signal handler, which aborts the process or ends the thread, as the build has it.
Freeze(w) ==
  /\ manager = "joining" /\ handles # <<>> /\ w = Last(handles) /\ pc[w] # "dead"
  /\ \/ manager' = "aborted" /\ UNCHANGED pc
     \/ pc' = [pc EXCEPT ![w] = "dead"] /\ UNCHANGED manager
  /\ UNCHANGED <<channel, commands, state, nonceOf, nonce, slow, sending, handles, isSynced>>

\* client_main goes on with a new manager, or the process has ended.
Ended == manager \in {"closed", "aborted"} /\ UNCHANGED vars

-----------------------------------------------------------------------------
\* Every worker starts from a clone of the one receiver, which has seen nothing.
Init ==
  /\ published = 1 /\ open = TRUE /\ commands = <<None>>
  /\ seen = [w \in Workers |-> 0]
  /\ state = [w \in Workers |-> 0] /\ nonceOf = [w \in Workers |-> 0]
  /\ nonce = [w \in Workers |-> 0]
  /\ slow \in SUBSET SlowGpus
  /\ outgoing = 0 /\ forwarding = TRUE /\ connected = TRUE
  /\ manager = "open" /\ isSynced = TRUE
  /\ \E team \in Teams :
       /\ calling = [w \in Workers |-> IF w \in team THEN "no" ELSE "absent"]
       /\ pc = [w \in Workers |-> IF w \in team THEN "top" ELSE "dead"]
       /\ handles = SetToSeq(team)

Next ==
  \/ \E w \in Workers : WorkerStep(w) \/ Freeze(w)
  \/ Forward \/ ConnectionEnds
  \/ \E job \in Jobs : ProcessBlock(job)
  \/ BadTemplate \/ Suspend \/ CloseWorkers \/ JoinWorker
  \/ Ended

\* Every thread and task runs, not every batch wins, templates keep coming, and the
\* freeze handler comes for a worker that has nothing but a kernel that is too slow.
Fairness ==
  /\ \A w \in Workers :
       /\ WF_vars((calling[w] = "no" \/ Channel!MustReturn(w)) /\ WorkerStep(w))
       /\ SF_vars(manager # "aborted" /\ (GpuWalks(w) \/ GpuHashes(w)) /\ pc'[w] = "poll")
       /\ SF_vars(manager # "aborted" /\ (CpuSubmits(w) \/ GpuSubmits(w)))
       /\ WF_vars(w \in slow /\ Freeze(w))
  /\ WF_vars(Forward)
  /\ WF_vars(\E job \in Jobs : ProcessBlock(job))
  /\ WF_vars(CloseWorkers) /\ WF_vars(JoinWorker)

Spec == Init /\ [][Next]_vars /\ Fairness

-----------------------------------------------------------------------------
(* Properties.                                                             *)

\* Every variable has its type; no job is worked on that was not sent.
TypeOK ==
  /\ published \in 1..(MaxCommands + 1) /\ open = TRUE
  /\ seen \in [Workers -> 0..published]
  /\ calling \in [Workers -> {"absent", "no", "wait", "poll"}]
  /\ commands \in Seq(Jobs \cup {None, CloseCommand}) /\ Len(commands) = published
  /\ pc \in [Workers -> {"top", "found", "poll", "exit", "dead"}]
  /\ state \in [Workers -> 0..published] /\ nonceOf \in [Workers -> 0..published]
  /\ \A w \in Workers : state[w] # 0 => JobOf(w) \in Jobs
  /\ nonce \in [Workers -> 0..(PollEvery - 1)] /\ slow \subseteq SlowGpus
  /\ outgoing \in {0, 1} /\ {forwarding, connected, isSynced} \subseteq BOOLEAN
  /\ manager \in {"open", "closing", "joining", "closed", "aborted"}
  /\ handles \in Seq(Workers)

\* What a worker was told last is what it works on.  Only a GPU may have ignored a
\* suspension, whatever was sent and overwritten in between (miner.rs:321-327, 400-408,
\* 480-490); and the manager skips a second suspension only if the first is what the
\* workers will find in the channel (is_synced, miner.rs:216-238).
WorksOnLastCommand ==
  /\ \A w \in Workers :
       state[w] # 0 => \/ state[w] = seen[w]
                       \/ w \in GpuWorkers /\ commands[seen[w]] = None
  /\ manager = "open" /\ ~isSynced => commands[published] = None

Alive(w) == pc[w] # "dead"
Free(w) == w \notin slow

\* Whatever a worker is doing, it comes to the newest command, a job, a suspension or the
\* end: none mines, waits or blocks on a send for good (miner.rs:321, 401, 481).
CommandsReachWorkers ==
  \A w \in Workers :
    seen[w] < published /\ Alive(w) /\ Free(w)
    ~> seen[w] = published \/ ~Alive(w) \/ manager = "aborted"

\* The end of a connection is not held up: told to close, a worker ends by itself, wherever
\* it is, so that main can reconnect; only for a kernel that is too slow the freeze handler
\* has to come (miner.rs:104-127, main.rs:555).  When all threads have ended in errors,
\* the next template ends the connection too (miner.rs:237-238).
ClosingEnds ==
  /\ manager = "closing" ~> manager \in {"closed", "aborted"}
  /\ (\A w \in Workers : ~Alive(w)) /\ manager = "open" ~> manager # "open"

\* What stratum.rs says: set_extranonce assigns a sub-range, and shares are looked for
\* there (stratum.rs:285).
NonceInSubRange ==
  \A w \in CpuWorkers :
    pc[w] = "found" => Extranonce[commands[nonceOf[w]]] = Extranonce[JobOf(w)]
=============================================================================
