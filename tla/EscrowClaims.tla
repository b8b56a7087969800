---------------------------- MODULE EscrowClaims ----------------------------
(***************************************************************************)
(* The escrow watcher at work: KeryxdHandler of src/client/grpc.rs hands   *)
(* it the blocks of the node, submits its claims and the AiResponses over  *)
(* one connection, and routes every SubmitTransactionResponse to it; the   *)
(* node accepts or rejects what is submitted; connections end and a new    *)
(* watcher is loaded from the file.                                        *)
(***************************************************************************)
EXTENDS EscrowWatcher

CONSTANTS
  AiResponse,      \* an AiResponse transaction, among the requests
  MaxReconnects,   \* bound on the number of reconnections
  MaxRejections,   \* bound on the number of temporary rejections by the node
  LastStart        \* bound on the score at which a cooldown or a window may start,
                   \* so that the scores of Blocks reach its end

ASSUME RequestAssumption == AiResponse \notin Outpoint
ASSUME BoundsAssumption == {MaxReconnects, MaxRejections, LastStart} \subseteq Nat

VARIABLES
  requests,     \* submit_transaction requests not yet answered: claims by their
                \* outpoint, and AiResponses
  spent,        \* outpoints the node has accepted a claim for
  refused,      \* outpoints the node has refused for good
  shown,        \* blocks the node has announced
  answered,     \* AiRequests this miner has answered
  reconnects,
  rejections,
  crossed       \* history: outpoints of which a claim was under way together with
                \* another request; only properties read it

allVars == <<vars, requests, spent, refused, shown, answered, reconnects, rejections,
             crossed>>

\* The block that stands for all that follow: it pays somebody else.
Endless(b) == (\A k \in DOMAIN b.outs : b.outs[k] = 0) /\ (\A c \in Blocks : c.daa <= b.daa)

Claims == {k \in DOMAIN requests : requests[k] # AiResponse}

\* BlockAdded or GetBlockResponse: a block is announced once, in any order, but
\* the chain never runs out of blocks.
BlockArrives(b) ==
  /\ b \in shown => Endless(b)
  /\ HandleBlock(b)
  /\ requests' = IF pending' # pending THEN Append(requests, pending') ELSE requests
  /\ crossed' = IF pending' # pending /\ requests # <<>> THEN crossed \cup {pending'} ELSE crossed
  /\ shown' = shown \cup {b}
  /\ UNCHANGED <<spent, refused, answered, reconnects, rejections>>

\* The end of poll_inference: the AiResponse is sent, its escrow is tracked.
AiResponseSubmitted(t) ==
  /\ t \notin answered
  /\ lastDaa <= LastStart
  /\ answered' = answered \cup {t}
  /\ requests' = Append(requests, AiResponse)
  /\ crossed' = crossed \cup ({pending} \ {NoClaim})
  /\ TrackInferenceEscrow(t, lastDaa)
  /\ UNCHANGED <<spent, refused, shown, reconnects, rejections>>

\* The node: a second claim of an output is refused as a double spend, the first
\* one may be accepted, put off, or refused for some other reason.
NodeDecides(request, verdict) ==
  /\ verdict = "accepted" /\ request # AiResponse =>
       request \notin spent
  /\ verdict \in {"orphan", "sequence lock"} =>
       /\ request # AiResponse /\ request \notin spent
       /\ rejections < MaxRejections /\ lastDaa <= LastStart
  /\ rejections' = IF verdict \in {"orphan", "sequence lock"} THEN rejections + 1 ELSE rejections
  /\ spent' = IF request # AiResponse /\ verdict = "accepted"
              THEN spent \cup {request} ELSE spent
  /\ refused' = IF request # AiResponse /\ verdict = "other"
                THEN refused \cup {request} ELSE refused

\* SubmitTransactionResponse: whatever it answers, it goes to a pending claim.
NodeAnswers(verdict) ==
  /\ requests # <<>>
  /\ NodeDecides(Head(requests), verdict)
  /\ requests' = Tail(requests)
  /\ IF pending # NoClaim THEN OnSubmitResponse(verdict) ELSE UNCHANGED vars
  /\ UNCHANGED <<shown, answered, reconnects, crossed>>

\* The connection ends with the handler and its watcher; the node may have
\* accepted a claim whose answer is lost with the connection.
Reconnect ==
  /\ reconnects < MaxReconnects
  /\ reconnects' = reconnects + 1
  /\ Restart
  /\ \E done \in SUBSET {requests[k] : k \in Claims} : spent' = spent \cup done
  /\ requests' = <<>>
  /\ UNCHANGED <<refused, shown, answered, rejections, crossed>>

TimePasses ==
  /\ SaveIntervalElapses
  /\ UNCHANGED <<requests, spent, refused, shown, answered, reconnects, rejections, crossed>>

ClaimsInit ==
  /\ Init
  /\ requests = <<>>
  /\ spent = {} /\ refused = {} /\ shown = {} /\ answered = {}
  /\ reconnects = 0 /\ rejections = 0 /\ crossed = {}

ClaimsNext ==
  \/ \E b \in Blocks : BlockArrives(b)
  \/ \E t \in DOMAIN Reward : AiResponseSubmitted(t)
  \/ \E verdict \in Verdicts : NodeAnswers(verdict)
  \/ Reconnect
  \/ TimePasses

\* Blocks keep coming, whoever they pay, and the node answers every request.
ClaimsFairness ==
  /\ \A b \in Blocks : Endless(b) => WF_allVars(BlockArrives(b))
  /\ WF_allVars(\E verdict \in Verdicts : NodeAnswers(verdict))

ClaimsSpec == ClaimsInit /\ [][ClaimsNext]_allVars /\ ClaimsFairness

-----------------------------------------------------------------------------
(* Properties.                                                             *)

\* An entry is marked claimed only when the node has accepted the claim of that
\* very output: what is wrongly marked is compacted away and never claimed
\* (on_submit_response, escrow.rs:343-358, as called by grpc.rs:652-656).
ClaimedMeansSpent ==
  \A i \in DOMAIN entries : entries[i].claimed => entries[i].outpoint \in spent

\* It takes a claim that met another request on the connection to mark an entry wrongly:
\* rejections, retries, blocks that turn red, a lost answer and the list of an older file
\* never do (escrow.rs:151, 343-411, grpc.rs:521-531, 636-656).
ClaimedUnlessCrossed ==
  \A i \in DOMAIN entries : entries[i].claimed => entries[i].outpoint \in spent \cup crossed

\* The watcher never waits for an answer that cannot come: its pending claim is under way.
\* And a claim that has met no other request is alone and the pending one, so that the next
\* answer is its own (escrow.rs:299-302 against grpc.rs:528-531, 642-645 and 652-656).
AnswerToCome ==
  /\ pending # NoClaim => \E k \in Claims : requests[k] = pending
  /\ \A k \in Claims : requests[k] \notin crossed => requests = <<pending>>

\* No escrow is given up without cause: its claim was accepted, the node refused
\* it for good, its block turned red, the orphan retries are used up, or its claim
\* met another request and may have got that one's answer (escrow.rs:226-243, 360-411).
GivenUpForCause ==
  \A i \in DOMAIN entries :
    entries[i].slashed =>
      \/ entries[i].outpoint \in spent \cup refused \cup crossed
      \/ \E b \in shown : entries[i].block \in b.reds
      \/ entries[i].retries >= MaxOrphanRetries

Tracked(o) == \E i \in DOMAIN entries : entries[i].outpoint = o /\ Open(entries[i])

OurOutputs ==
  UNION {{<<b.txid, k - 1>> : k \in {n \in DOMAIN b.outs : b.outs[n] # 0}} : b \in Blocks}
    \cup {<<t, 1>> : t \in DOMAIN Reward}

\* Every tracked escrow is claimed or given up in the end, however its claim is
\* put off and whatever other escrows wait (find_claim, escrow.rs:297-341).
EscrowResolved == \A o \in OurOutputs : Tracked(o) ~> ~Tracked(o)
=============================================================================
