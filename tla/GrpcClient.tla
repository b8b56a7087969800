----------------------------- MODULE GrpcClient -----------------------------
(***************************************************************************)
(* KeryxdHandler of src/client/grpc.rs: the client loop of a miner that    *)
(* works for a full node.  It hands block templates to the workers, queues *)
(* the AiRequests it finds in blocks and templates, runs one inference for *)
(* a request and one for a challenge of the node, suspends mining while    *)
(* they run, and collects their results on node messages and on a timer.   *)
(*                                                                         *)
(* One action is one turn of listen().  What the handler does for the      *)
(* escrow watcher on the same messages is in EscrowClaims.                 *)
(***************************************************************************)
EXTENDS Integers, Sequences, FiniteSets

CONSTANTS
  Txs,                \* AiRequest transactions for the model that this miner serves
  Payloads,           \* their payloads, named by the stable id (the hash)
  PayloadOf,          \* PayloadOf[t]
  Paid,               \* payloads with an inference_reward
  Scores,             \* DAA scores of the templates
  PomActivation,      \* POM_ACTIVATION_DAA
  MineWhenNotSynced,  \* --mine-when-not-synced
  MaxUnread,          \* bound on messages under way at which no more are sent unasked
  MaxChallenges,      \* bound on the challenges the node issues
  MaxReconnects,      \* bound on reconnections
  Nothing             \* None

ASSUME RequestsAssumption ==
  PayloadOf \in [Txs -> Payloads] /\ Paid \subseteq Payloads
ASSUME ScoresAssumption ==
  /\ Scores \subseteq Nat /\ MineWhenNotSynced \in BOOLEAN
  /\ {PomActivation, MaxUnread, MaxChallenges, MaxReconnects} \subseteq Nat

VARIABLES
  queue,        \* ai_request_queue
  seen,         \* ai_seen_prefixes
  txidOf,       \* ai_request_txids
  inference,    \* inference_rx, with what its task has sent so far
  challenge,    \* challenge_inference_rx, likewise
  flag,         \* opoi_challenge_active
  lastDaa,      \* last_known_daa
  modelReady,   \* loaded_model_ids is not empty: the files of the model are complete
  job,          \* the workers hold a job: the last value of the watch channel
  isSynced,     \* MinerManager::is_synced
  outbox,       \* send_channel
  inbox,        \* stream
  answered,     \* how often each payload was answered on this connection
  tracked,      \* AiRequests whose escrow was handed to the watcher
  issued,       \* challenges the node has issued
  nodeSynced,   \* it has caught up with the chain
  reconnects

requests == <<queue, seen, txidOf, inference>>
history == <<answered, tracked>>
workers == <<job, isSynced>>
chain == <<lastDaa, modelReady>>
node == <<issued, nodeSynced>>
vars == <<requests, history, challenge, flag, workers, chain, node, outbox, inbox, reconnects>>

\* What a oneshot channel holds; the sender is never dropped without a result, for
\* load_and_run_inference catches every panic.
Results == {"running", "text", "none"}
InferenceTask == [payload : Payloads, result : Results]
ChallengeTask == [id : 1..MaxChallenges, result : Results]

ASSUME NothingAssumption == Nothing \notin Txs \cup InferenceTask \cup ChallengeTask

Running(task) == task # Nothing /\ task.result = "running"
Finished(task) == task # Nothing /\ task.result # "running"

-----------------------------------------------------------------------------
(* Parts of the handlers.                                                  *)

Send(request) == outbox' = Append(outbox, request)

MutantGetBlockTemplate(current, active) ==
  /\ Send("template")
  /\ challenge' = IF Finished(current) THEN Nothing ELSE current
  /\ flag' = IF Finished(current) THEN active /\ current.result = "none" ELSE active

\* client_get_block_template: a finished challenge goes out with the request, as a
\* text or as the empty string.
GetBlockTemplate(current, active) ==
  /\ Send("template")
  /\ challenge' = IF Finished(current) THEN Nothing ELSE current
  /\ flag' = IF Finished(current) THEN FALSE ELSE active

\* process_block(None) sends nothing twice in a row.
Suspend ==
  IF isSynced THEN job' = FALSE /\ isSynced' = FALSE ELSE UNCHANGED workers

\* process_block(Some(block))
Resume == job' = TRUE /\ isSynced' = TRUE

\* A miner serves one model: main.rs stages the same one as both lineups.
Accepts(t) == t # Nothing /\ modelReady

MutantQueueAfterScan(t) ==
  IF Accepts(t) THEN Append(queue, PayloadOf[t]) ELSE queue

QueueAfterScan(t) ==
  IF Accepts(t) /\ PayloadOf[t] \notin seen THEN Append(queue, PayloadOf[t]) ELSE queue

MutantTxidsAfterScan(t) == txidOf

\* Whether it is new or not, a paid request leaves its id; compute_rpc_txid finds one
\* when the node has not put it in.
TxidsAfterScan(t) ==
  IF Accepts(t) /\ PayloadOf[t] \in Paid THEN [txidOf EXCEPT ![PayloadOf[t]] = t] ELSE txidOf

MutantStartInference(q) ==
  IF inference # Nothing \/ Len(q) <= Len(queue)
  THEN queue' = q /\ UNCHANGED inference
  ELSE /\ queue' = Tail(q)
       /\ inference' = IF modelReady
                       THEN [payload |-> Head(q), result |-> "running"]
                       ELSE Nothing

\* try_start_inference: the head is discarded if the model has gone in the meantime.
StartInference(q) ==
  IF inference # Nothing \/ q = <<>>
  THEN queue' = q /\ UNCHANGED inference
  ELSE /\ queue' = Tail(q)
       /\ inference' = IF modelReady
                       THEN [payload |-> Head(q), result |-> "running"]
                       ELSE Nothing

\* scan_txs_for_ai_requests, then try_start_inference.  A message holds one AiRequest
\* at most here, or Nothing.
ScanAndStart(t) ==
  /\ seen' = IF Accepts(t) THEN seen \cup {PayloadOf[t]} ELSE seen
  /\ txidOf' = TxidsAfterScan(t)
  /\ StartInference(QueueAfterScan(t))
  /\ UNCHANGED history

MutantTracked(p) == tracked \cup {txidOf[p]}

Tracked(p) == IF txidOf[p] = Nothing THEN tracked ELSE tracked \cup {txidOf[p]}

\* poll_inference when the task is done: no result and a failed upload end it without
\* an AiResponse.
Harvest ==
  /\ inference' = Nothing
  /\ \/ UNCHANGED <<history, txidOf>>
     \/ /\ inference.result = "text"
        /\ answered' = [answered EXCEPT ![inference.payload] = @ + 1]
        /\ tracked' = Tracked(inference.payload)
        /\ txidOf' = [txidOf EXCEPT ![inference.payload] = Nothing]
  /\ UNCHANGED <<queue, seen>>

-----------------------------------------------------------------------------
(* handle_message.                                                         *)

Receive(type) == inbox # <<>> /\ Head(inbox).type = type /\ inbox' = Tail(inbox)

OnGetInfoResponse ==
  /\ Receive("info")
  /\ GetBlockTemplate(challenge, flag)
  /\ UNCHANGED <<requests, history, workers, chain, node, reconnects>>

OnNewBlockTemplate ==
  /\ Receive("notify")
  /\ GetBlockTemplate(challenge, flag)
  /\ UNCHANGED <<requests, history, workers, chain, node, reconnects>>

\* BlockAdded without its transactions.
OnBareBlockAdded ==
  /\ Receive("bare")
  /\ Send("block")
  /\ UNCHANGED <<requests, history, challenge, flag, workers, chain, node, reconnects>>

\* BlockAdded with them, or GetBlockResponse.
OnBlock ==
  /\ Receive("block")
  /\ ScanAndStart(Head(inbox).tx)
  /\ UNCHANGED <<challenge, flag, workers, chain, node, outbox, reconnects>>

\* A challenge is taken if none is in flight, proofs of model are not yet due, and
\* the model is there.
Takes(m, daa) ==
  m.challenge # 0 /\ challenge = Nothing /\ daa < PomActivation /\ modelReady

OnGetBlockTemplateResponse ==
  /\ Receive("template")
  /\ LET m       == Head(inbox)
         daa     == IF m.daa > lastDaa THEN m.daa ELSE lastDaa
         current == IF Takes(m, daa) THEN [id |-> m.challenge, result |-> "running"]
                                     ELSE challenge
         active  == flag \/ Takes(m, daa)
     IN  /\ lastDaa' = daa
         /\ IF Finished(inference)
            THEN Harvest /\ GetBlockTemplate(current, active) /\ UNCHANGED workers
            ELSE /\ challenge' = current /\ flag' = active
                 /\ IF ~modelReady
                    THEN Suspend /\ UNCHANGED <<requests, history>>
                    ELSE /\ ScanAndStart(m.tx)
                         /\ IF \/ inference' # Nothing \/ challenge' # Nothing
                               \/ ~m.synced /\ ~MineWhenNotSynced
                            THEN Suspend
                            ELSE Resume
                 /\ UNCHANGED outbox
  /\ UNCHANGED <<modelReady, node, reconnects>>

TemplatesUnderWay ==
  Cardinality({k \in DOMAIN outbox : outbox[k] = "template"})
    + Cardinality({k \in DOMAIN inbox : inbox[k].type = "template"})

MutantTick ==
  /\ ~Finished(inference) /\ challenge # Nothing
  /\ TemplatesUnderWay < MaxUnread
  /\ GetBlockTemplate(challenge, flag)
  /\ UNCHANGED <<requests, history, workers, chain, node, inbox, reconnects>>

MutantTickNoPing ==
  /\ Finished(inference) /\ TemplatesUnderWay < MaxUnread
  /\ Harvest
  /\ GetBlockTemplate(challenge, flag)
  /\ UNCHANGED <<workers, chain, node, inbox, reconnects>>

MutantTickNoTemplate ==
  /\ Finished(inference)
  /\ Harvest
  /\ UNCHANGED <<challenge, flag, workers, chain, node, inbox, outbox, reconnects>>

\* The timer of listen: a finished inference is harvested, or else a challenge in
\* flight makes it ask for a template.  MaxUnread bounds the templates it piles up.
Tick ==
  /\ TemplatesUnderWay < MaxUnread
  /\ IF Finished(inference) THEN Harvest
     ELSE challenge # Nothing /\ UNCHANGED <<requests, history>>
  /\ GetBlockTemplate(challenge, flag)
  /\ UNCHANGED <<workers, chain, node, inbox, reconnects>>

HandleMessage ==
  \/ OnGetInfoResponse \/ OnNewBlockTemplate \/ OnBareBlockAdded \/ OnBlock
  \/ OnGetBlockTemplateResponse

-----------------------------------------------------------------------------
(* The tasks, the node and the connection.                                 *)

InferenceEnds ==
  /\ Running(inference)
  /\ \E result \in {"text", "none"} : inference' = [inference EXCEPT !.result = result]
  /\ UNCHANGED <<queue, seen, txidOf, history, challenge, flag, workers, chain,
                 node, outbox, inbox, reconnects>>

ChallengeEnds ==
  /\ Running(challenge)
  /\ \E result \in {"text", "none"} : challenge' = [challenge EXCEPT !.result = result]
  /\ UNCHANGED <<requests, history, flag, workers, chain, node, outbox, inbox, reconnects>>

\* Somebody deletes the files, or their .ok; a task that loads the model gets them back.
FilesChange ==
  /\ modelReady \/ Running(inference) \/ Running(challenge)
  /\ modelReady' = ~modelReady
  /\ UNCHANGED <<requests, history, challenge, flag, workers, lastDaa, node, outbox,
                 inbox, reconnects>>

Deliver(message) == inbox' = Append(inbox, message)

AnswerTemplate ==
  \E t \in Txs \cup {Nothing}, daa \in Scores,
     id \in {0} \cup ({issued + 1} \cap (1..MaxChallenges)) :
    /\ Deliver([type |-> "template", tx |-> t, daa |-> daa, challenge |-> id,
                synced |-> nodeSynced])
    /\ issued' = IF id = 0 THEN issued ELSE id
    /\ UNCHANGED nodeSynced

NodeAnswers ==
  /\ outbox # <<>>
  /\ outbox' = Tail(outbox)
  /\ \/ Head(outbox) = "info" /\ Deliver([type |-> "info"]) /\ UNCHANGED node
     \/ Head(outbox) = "template" /\ AnswerTemplate
     \/ /\ Head(outbox) = "block"
        /\ \E t \in Txs \cup {Nothing} : Deliver([type |-> "block", tx |-> t])
        /\ UNCHANGED node
  /\ UNCHANGED <<requests, history, challenge, flag, workers, chain, reconnects>>

News == [type : {"notify", "bare"}] \cup [type : {"block"}, tx : Txs \cup {Nothing}]

\* A block was found by anybody, or the template has changed.
NodeNotifies ==
  /\ Len(inbox) + Len(outbox) < MaxUnread
  /\ \E m \in News : Deliver(m)
  /\ UNCHANGED <<requests, history, challenge, flag, workers, chain, node, outbox, reconnects>>

\* The node has caught up, and the template has changed.
NodeSyncs ==
  /\ Len(inbox) + Len(outbox) < MaxUnread
  /\ ~nodeSynced /\ nodeSynced' = TRUE
  /\ Deliver([type |-> "notify"])
  /\ UNCHANGED <<requests, history, challenge, flag, workers, chain, issued, outbox,
                 reconnects>>

\* client_main starts over with a new handler and a new MinerManager; tasks
\* that still run outlive them, but nobody waits for them.
Reconnect ==
  /\ reconnects < MaxReconnects
  /\ reconnects' = reconnects + 1
  /\ queue' = <<>> /\ seen' = {}
  /\ txidOf' = [p \in Payloads |-> Nothing]
  /\ inference' = Nothing /\ challenge' = Nothing /\ flag' = FALSE
  /\ answered' = [p \in Payloads |-> 0] /\ tracked' = {}
  /\ job' = FALSE /\ isSynced' = TRUE
  /\ lastDaa' = 0
  /\ outbox' = <<"info">> /\ inbox' = <<>>
  /\ UNCHANGED <<modelReady, node>>

Init ==
  /\ queue = <<>> /\ seen = {}
  /\ txidOf = [p \in Payloads |-> Nothing]
  /\ inference = Nothing /\ challenge = Nothing /\ flag = FALSE
  /\ answered = [p \in Payloads |-> 0] /\ tracked = {}
  /\ job = FALSE /\ isSynced = TRUE
  /\ lastDaa = 0 /\ modelReady = TRUE
  /\ outbox = <<"info">> /\ inbox = <<>>
  /\ issued = 0 /\ nodeSynced \in BOOLEAN
  /\ reconnects = 0

Next ==
  \/ HandleMessage \/ Tick
  \/ InferenceEnds \/ ChallengeEnds \/ FilesChange
  \/ NodeAnswers \/ NodeNotifies \/ NodeSyncs
  \/ Reconnect

\* select! serves messages and the timer, tasks end, the node answers, it
\* catches up with the chain, and whoever mines finds a block.  A node whose
\* only miner is suspended announces nothing.
Fairness ==
  /\ WF_vars(HandleMessage) /\ WF_vars(Tick)
  /\ WF_vars(InferenceEnds) /\ WF_vars(ChallengeEnds)
  /\ WF_vars(NodeAnswers)
  /\ SF_vars(NodeSyncs) /\ WF_vars(job /\ NodeNotifies)

Spec == Init /\ [][Next]_vars /\ Fairness

-----------------------------------------------------------------------------
(* Properties.                                                             *)

Template == [type : {"template"}, tx : Txs \cup {Nothing}, daa : Scores,
             challenge : 0..MaxChallenges, synced : BOOLEAN]

\* Every variable has its type.
TypeOK ==
  /\ queue \in Seq(Payloads) /\ seen \subseteq Payloads
  /\ txidOf \in [Payloads -> Txs \cup {Nothing}]
  /\ inference \in InferenceTask \cup {Nothing}
  /\ challenge \in ChallengeTask \cup {Nothing}
  /\ answered \in [Payloads -> Nat] /\ tracked \subseteq Txs
  /\ {flag, job, isSynced, modelReady, nodeSynced} \subseteq BOOLEAN
  /\ lastDaa \in Scores \cup {0}
  /\ outbox \in Seq({"info", "template", "block"})
  /\ inbox \in Seq(News \cup Template \cup [type : {"info"}])
  /\ issued \in 0..MaxChallenges
  /\ reconnects \in 0..MaxReconnects

\* A request is answered once on a connection, however often blocks and templates show
\* it, before, during and after its inference (ai_seen_prefixes, grpc.rs:46-47, 342-346).
AnsweredOnce == \A p \in Payloads : answered[p] <= 1

\* The reward of an answered request is not forgotten: the escrow of a transaction that
\* carried it has been handed to the watcher, although the scan, the queue and the
\* harvest know it by different names (ai_request_txids, grpc.rs:347-360, 506-512).  Of
\* two transactions with one payload it is the last, and the other's escrow is lost.
RewardTracked ==
  \A p \in Paid : answered[p] > 0 => \E t \in tracked : PayloadOf[t] = p

\* The flag that the hashrate watchdog reads is up exactly while a challenge is in
\* flight, on every path that ends one (grpc.rs:253-283, 582).
ChallengeFlagExact == flag <=> challenge # Nothing

TemplateComing ==
  \/ ~nodeSynced
  \/ \E k \in DOMAIN outbox : outbox[k] \in {"info", "template"}
  \/ \E k \in DOMAIN inbox : inbox[k].type \in {"info", "notify", "template"}

\* Workers without a job are waiting for something: an inference, or a template that is
\* on its way; MinerManager knows that they are (grpc.rs:110-122, 597-632; miner.rs:216-239).
IdleForAReason ==
  /\ ~job => inference # Nothing \/ challenge # Nothing \/ TemplateComing
             \/ ~modelReady
  /\ job => isSynced

\* Suspended miners get a job again, even if the node hears of no block but theirs
\* (grpc.rs:93-96), unless their model is deleted.
MiningResumes == ~job ~> job \/ ~modelReady

\* A challenge taken is reported, even then (grpc.rs:114-119), unless the connection ends.
ChallengeReported ==
  \A id \in 1..MaxChallenges :
    LET inFlight == challenge # Nothing /\ challenge.id = id IN inFlight ~> ~inFlight

\* A queued request does not stay in the queue, unless the connection ends or the model
\* is deleted.
RequestsServed ==
  \A p \in Payloads :
    LET queued == \E k \in DOMAIN queue : queue[k] = p IN queued ~> ~queued \/ ~modelReady
=============================================================================
