-------------------------- MODULE GrpcClient_proofs --------------------------
(***************************************************************************)
(* What the client loop keeps, whatever the node sends, whenever tasks     *)
(* end and however often the connection breaks: one answer per request,    *)
(* no forgotten reward, a flag that follows the challenge, and no idle     *)
(* workers without a reason.                                               *)
(***************************************************************************)
EXTENDS GrpcClient, SequenceTheorems, TLAPS

-----------------------------------------------------------------------------
(* The inductive invariant.                                                *)

\* A payload is in one place at most: in the queue, under inference or answered; and
\* wherever it is, it has been seen, so that no scan queues it again.
QueueInv ==
  /\ \A k \in DOMAIN queue : queue[k] \in seen /\ answered[queue[k]] = 0
  /\ \A j, k \in DOMAIN queue : queue[j] = queue[k] => j = k
  /\ inference # Nothing =>
       /\ inference.payload \in seen /\ answered[inference.payload] = 0
       /\ \A k \in DOMAIN queue : queue[k] # inference.payload
  /\ \A p \in Payloads : answered[p] # 0 => p \in seen

\* The id that is kept for a payload is that of a transaction with this payload, and
\* there is one as long as the request waits.
Remembered(p) == p \in Paid => txidOf[p] # Nothing

TxidInv ==
  /\ \A p \in Payloads : txidOf[p] # Nothing => PayloadOf[txidOf[p]] = p
  /\ \A k \in DOMAIN queue : Remembered(queue[k])
  /\ inference # Nothing => Remembered(inference.payload)

RequestInv == QueueInv /\ AnsweredOnce /\ TxidInv /\ RewardTracked

\* A template that says that the node has not caught up is outdated only if the
\* announcement that it has is behind it in the stream.
SyncInv ==
  \A k \in DOMAIN inbox :
    /\ inbox[k].type = "template" /\ ~inbox[k].synced /\ nodeSynced
    => \E j \in DOMAIN inbox : j > k /\ inbox[j].type = "notify"

IInv == TypeOK /\ RequestInv /\ ChallengeFlagExact /\ SyncInv /\ IdleForAReason

\* The types of what a scan and a harvest change.
RequestType ==
  /\ queue \in Seq(Payloads) /\ seen \subseteq Payloads
  /\ txidOf \in [Payloads -> Txs \cup {Nothing}]
  /\ inference \in InferenceTask \cup {Nothing}
  /\ answered \in [Payloads -> Nat] /\ tracked \subseteq Txs

-----------------------------------------------------------------------------
(* Requests.                                                               *)

\* A new task is running and is not None.
LEMMA NewTask ==
  ASSUME NEW p \in Payloads
  PROVE  /\ [payload |-> p, result |-> "running"] \in InferenceTask
         /\ [payload |-> p, result |-> "running"] # Nothing
  BY NothingAssumption DEF InferenceTask, Results

\* A scan queues a payload only if it is nowhere yet.
LEMMA QueueScanned ==
  ASSUME NEW t \in Txs \cup {Nothing}, RequestType, QueueInv
  PROVE  LET q == QueueAfterScan(t)
             all == IF Accepts(t) THEN seen \cup {PayloadOf[t]} ELSE seen
         IN  /\ q \in Seq(Payloads) /\ all \subseteq Payloads
             /\ \A k \in DOMAIN q : q[k] \in all /\ answered[q[k]] = 0
             /\ \A j, k \in DOMAIN q : q[j] = q[k] => j = k
             /\ inference # Nothing =>
                  inference.payload \in all /\ \A k \in DOMAIN q : q[k] # inference.payload
<1> DEFINE all == IF Accepts(t) THEN seen \cup {PayloadOf[t]} ELSE seen
<1>1. Accepts(t) => t \in Txs /\ PayloadOf[t] \in Payloads
  BY RequestsAssumption DEF Accepts
<1>2. queue \in Seq(Payloads) /\ all \subseteq Payloads /\ seen \subseteq all
  BY <1>1 DEF RequestType
<1>3. CASE QueueAfterScan(t) = queue
  BY <1>2, <1>3 DEF QueueInv
<1>4. CASE QueueAfterScan(t) # queue
  <2> DEFINE p == PayloadOf[t]
  <2>1. Accepts(t) /\ p \notin seen /\ QueueAfterScan(t) = Append(queue, p) /\ p \in all
    BY <1>4 DEF QueueAfterScan
  <2>2. p \in Payloads /\ answered[p] = 0
    BY <1>1, <2>1 DEF QueueInv, RequestType
  <2> HIDE DEF p, all
  <2>3. /\ Append(queue, p) \in Seq(Payloads) /\ DOMAIN Append(queue, p) = 1 .. Len(queue) + 1
        /\ DOMAIN queue = 1 .. Len(queue) /\ Len(queue) \in Nat
        /\ \A i \in 1 .. Len(queue) : Append(queue, p)[i] = queue[i]
        /\ Append(queue, p)[Len(queue) + 1] = p
    BY <1>2, <2>2, AppendProperties, LenProperties
  <2>4. \A k \in DOMAIN queue : queue[k] \in seen /\ queue[k] # p
    BY <2>1 DEF QueueInv
  <2> QED
    BY <1>2, <2>1, <2>2, <2>3, <2>4 DEF QueueInv, all
<1> QED
  BY <1>3, <1>4

\* A paid request that a scan queues has left its id.
LEMMA TxidsScanned ==
  ASSUME NEW t \in Txs \cup {Nothing}, RequestType, TxidInv
  PROVE  LET q == QueueAfterScan(t)
             ids == TxidsAfterScan(t)
         IN  /\ ids \in [Payloads -> Txs \cup {Nothing}]
             /\ \A p \in Payloads : ids[p] # Nothing => PayloadOf[ids[p]] = p
             /\ \A p \in Payloads : Remembered(p) => (p \in Paid => ids[p] # Nothing)
             /\ \A k \in DOMAIN q : q[k] \in Paid => ids[q[k]] # Nothing
<1> DEFINE ids == TxidsAfterScan(t)
<1>1. Accepts(t) => t \in Txs /\ t # Nothing /\ PayloadOf[t] \in Payloads
  BY RequestsAssumption DEF Accepts
<1>2. /\ ids \in [Payloads -> Txs \cup {Nothing}]
      /\ \A p \in Payloads : ids[p] # Nothing => PayloadOf[ids[p]] = p
      /\ \A p \in Payloads : Remembered(p) => (p \in Paid => ids[p] # Nothing)
      /\ Accepts(t) /\ PayloadOf[t] \in Paid => ids[PayloadOf[t]] # Nothing
  BY <1>1 DEF TxidsAfterScan, RequestType, TxidInv, Remembered
<1>3. \A k \in DOMAIN QueueAfterScan(t) :
        LET p == QueueAfterScan(t)[k]
        IN  (k \in DOMAIN queue /\ p = queue[k]) \/ (Accepts(t) /\ p = PayloadOf[t])
  <2>1. CASE QueueAfterScan(t) = queue
    BY <2>1
  <2>2. CASE QueueAfterScan(t) # queue
    <3>1. Accepts(t) /\ QueueAfterScan(t) = Append(queue, PayloadOf[t])
      BY <2>2 DEF QueueAfterScan
    <3>2. /\ DOMAIN Append(queue, PayloadOf[t]) = 1 .. Len(queue) + 1
          /\ DOMAIN queue = 1 .. Len(queue) /\ Len(queue) \in Nat
          /\ \A i \in 1 .. Len(queue) : Append(queue, PayloadOf[t])[i] = queue[i]
          /\ Append(queue, PayloadOf[t])[Len(queue) + 1] = PayloadOf[t]
      BY <1>1, <3>1, AppendProperties, LenProperties DEF RequestType
    <3> QED
      BY <3>1, <3>2
  <2> QED
    BY <2>1, <2>2
<1>4. \A k \in DOMAIN queue : queue[k] \in Payloads /\ Remembered(queue[k])
  BY LenProperties DEF RequestType, TxidInv
<1> QED
  BY <1>2, <1>3, <1>4

\* What is left when try_start_inference takes the head of a queue without repetitions.
LEMMA RestOfQueue ==
  ASSUME NEW q \in Seq(Payloads), q # <<>>, \A j, k \in DOMAIN q : q[j] = q[k] => j = k
  PROVE  /\ Head(q) \in Payloads /\ 1 \in DOMAIN q /\ Head(q) = q[1]
         /\ Tail(q) \in Seq(Payloads)
         /\ \A k \in DOMAIN Tail(q) : /\ k + 1 \in DOMAIN q /\ Tail(q)[k] = q[k + 1]
                                      /\ Tail(q)[k] # Head(q)
         /\ \A j, k \in DOMAIN Tail(q) : Tail(q)[j] = Tail(q)[k] => j = k
<1>1. Head(q) \in Payloads /\ Tail(q) \in Seq(Payloads) /\ Len(Tail(q)) = Len(q) - 1
      /\ \A i \in 1 .. Len(Tail(q)) : Tail(q)[i] = q[i + 1]
  BY HeadTailProperties
<1>2. DOMAIN q = 1 .. Len(q) /\ DOMAIN Tail(q) = 1 .. Len(Tail(q)) /\ Len(q) \in Nat /\ Len(q) # 0
  BY <1>1, LenProperties, EmptySeq
<1>3. Head(q) = q[1]
  OBVIOUS
<1> QED
  BY <1>1, <1>2, <1>3

\* A scan keeps what is known of the requests, and an inference that is there stays.
LEMMA ScanKeeps ==
  ASSUME NEW t \in Txs \cup {Nothing}, RequestType, RequestInv, ScanAndStart(t)
  PROVE  RequestType' /\ RequestInv' /\ (inference # Nothing => inference' = inference)
<1> DEFINE q == QueueAfterScan(t)
           all == IF Accepts(t) THEN seen \cup {PayloadOf[t]} ELSE seen
           ids == TxidsAfterScan(t)
<1>1. seen' = all /\ txidOf' = ids /\ StartInference(q) /\ UNCHANGED <<answered, tracked>>
  BY DEF ScanAndStart, history
<1>2. /\ q \in Seq(Payloads) /\ all \subseteq Payloads
      /\ \A k \in DOMAIN q : q[k] \in all /\ answered[q[k]] = 0
      /\ \A j, k \in DOMAIN q : q[j] = q[k] => j = k
      /\ inference # Nothing =>
           inference.payload \in all /\ \A k \in DOMAIN q : q[k] # inference.payload
  BY QueueScanned DEF RequestInv
<1>3. /\ ids \in [Payloads -> Txs \cup {Nothing}]
      /\ \A p \in Payloads : ids[p] # Nothing => PayloadOf[ids[p]] = p
      /\ \A p \in Payloads : Remembered(p) => (p \in Paid => ids[p] # Nothing)
      /\ \A k \in DOMAIN q : q[k] \in Paid => ids[q[k]] # Nothing
  BY TxidsScanned DEF RequestInv
<1>4. inference # Nothing => inference.payload \in Payloads /\ answered[inference.payload] = 0
  BY DEF RequestType, InferenceTask, RequestInv, QueueInv
<1>5. \A p \in Payloads : answered[p] # 0 => p \in all
  BY DEF RequestInv, QueueInv
<1>6. answered' \in [Payloads -> Nat] /\ tracked' \subseteq Txs /\ AnsweredOnce' /\ RewardTracked'
  BY <1>1 DEF RequestType, RequestInv, AnsweredOnce, RewardTracked
<1> HIDE DEF q, all, ids
<1>7. CASE inference # Nothing \/ q = <<>>
  <2>1. queue' = q /\ inference' = inference
    BY <1>1, <1>7 DEF StartInference
  <2>2. QueueInv'
    BY <1>1, <1>2, <1>4, <1>5, <2>1 DEF QueueInv
  <2>3. TxidInv'
    <3>1. inference # Nothing => Remembered(inference.payload)
      BY DEF RequestInv, TxidInv
    <3> QED
      BY <1>1, <1>3, <1>4, <2>1, <3>1 DEF TxidInv, Remembered
  <2> QED
    BY <1>1, <1>2, <1>3, <1>6, <2>1, <2>2, <2>3 DEF RequestType, RequestInv
<1>8. CASE inference = Nothing /\ q # <<>>
  <2> DEFINE p == Head(q)
  <2>1. /\ queue' = Tail(q)
        /\ inference' = IF modelReady THEN [payload |-> p, result |-> "running"] ELSE Nothing
    BY <1>1, <1>8 DEF StartInference
  <2>2. /\ p \in Payloads /\ 1 \in DOMAIN q /\ p = q[1]
        /\ Tail(q) \in Seq(Payloads)
        /\ \A k \in DOMAIN Tail(q) : /\ k + 1 \in DOMAIN q /\ Tail(q)[k] = q[k + 1]
                                     /\ Tail(q)[k] # p
        /\ \A j, k \in DOMAIN Tail(q) : Tail(q)[j] = Tail(q)[k] => j = k
    BY <1>2, <1>8, RestOfQueue
  <2>3. inference' \in InferenceTask \cup {Nothing} /\ (inference' # Nothing => inference'.payload = p)
    BY <2>1, <2>2, NewTask
  <2> HIDE DEF p
  <2>4. QueueInv'
    BY <1>1, <1>2, <1>5, <2>1, <2>2, <2>3 DEF QueueInv
  <2>5. TxidInv'
    BY <1>1, <1>3, <2>1, <2>2, <2>3 DEF TxidInv, Remembered
  <2> QED
    BY <1>1, <1>2, <1>3, <1>6, <1>8, <2>1, <2>2, <2>3, <2>4, <2>5 DEF RequestType, RequestInv
<1> QED
  BY <1>7, <1>8

\* A harvest answers a request that nobody has answered, and its id is still there.
LEMMA HarvestKeeps ==
  ASSUME RequestType, RequestInv, inference # Nothing, Harvest
  PROVE  RequestType' /\ RequestInv'
<1> DEFINE p == inference.payload
<1>1. p \in Payloads /\ p \in seen /\ answered[p] = 0 /\ Remembered(p)
      /\ \A k \in DOMAIN queue : queue[k] # p
  BY DEF RequestType, RequestInv, QueueInv, TxidInv, InferenceTask
<1>2. inference' = Nothing /\ UNCHANGED <<queue, seen>>
  BY DEF Harvest
<1>3. \A k \in DOMAIN queue : queue[k] \in Payloads
  BY LenProperties DEF RequestType
<1>4. CASE UNCHANGED <<answered, tracked, txidOf>>
  BY <1>2, <1>4 DEF RequestType, RequestInv, QueueInv, AnsweredOnce, TxidInv, RewardTracked, Remembered
<1>5. CASE /\ answered' = [answered EXCEPT ![p] = @ + 1]
           /\ tracked' = Tracked(p)
           /\ txidOf' = [txidOf EXCEPT ![p] = Nothing]
  <2>1. /\ answered' \in [Payloads -> Nat] /\ answered'[p] = 1
        /\ \A r \in Payloads \ {p} : answered'[r] = answered[r]
    BY <1>1, <1>5 DEF RequestType
  <2>2. /\ txidOf' \in [Payloads -> Txs \cup {Nothing}] /\ txidOf'[p] = Nothing
        /\ \A r \in Payloads \ {p} : txidOf'[r] = txidOf[r]
    BY <1>1, <1>5 DEF RequestType
  <2>3. /\ tracked \subseteq tracked' /\ tracked' \subseteq Txs
        /\ p \in Paid => \E t \in tracked' : PayloadOf[t] = p
    BY <1>1, <1>5 DEF Tracked, RequestType, RequestInv, TxidInv, Remembered
  <2> HIDE DEF p
  <2>4. RequestType'
    BY <1>2, <2>1, <2>2, <2>3 DEF RequestType
  <2>5. QueueInv'
    BY <1>1, <1>2, <1>3, <2>1 DEF RequestInv, QueueInv
  <2>6. AnsweredOnce'
    BY <2>1 DEF RequestInv, AnsweredOnce
  <2>7. TxidInv'
    BY <1>1, <1>2, <1>3, <2>2 DEF RequestInv, TxidInv, Remembered
  <2>8. RewardTracked'
    BY <1>1, <2>1, <2>3, RequestsAssumption DEF RequestInv, RewardTracked
  <2> QED
    BY <2>4, <2>5, <2>6, <2>7, <2>8 DEF RequestInv
<1> QED
  BY <1>4, <1>5 DEF Harvest, history

\* What leaves the requests alone.
LEMMA RequestsKept ==
  ASSUME RequestType, RequestInv, UNCHANGED <<queue, seen, txidOf, inference, answered, tracked>>
  PROVE  RequestType' /\ RequestInv'
  BY DEF RequestType, RequestInv, QueueInv, AnsweredOnce, TxidInv, RewardTracked, Remembered

\* The task of an inference ends.
LEMMA EndKeeps ==
  ASSUME RequestType, RequestInv, InferenceEnds
  PROVE  RequestType' /\ RequestInv' /\ inference # Nothing /\ inference' # Nothing
<1>1. inference # Nothing /\ inference \in InferenceTask
  BY DEF InferenceEnds, Running, RequestType
<1>2. PICK result \in {"text", "none"} : inference' = [inference EXCEPT !.result = result]
  BY DEF InferenceEnds
<1>3. inference' \in InferenceTask /\ inference'.payload = inference.payload
  BY <1>1, <1>2 DEF InferenceTask, Results
<1>4. inference' # Nothing
  BY <1>3, NothingAssumption
<1>5. UNCHANGED <<queue, seen, txidOf, answered, tracked>>
  BY DEF InferenceEnds, history
<1> QED
  BY <1>1, <1>3, <1>4, <1>5
     DEF RequestType, RequestInv, QueueInv, AnsweredOnce, TxidInv, RewardTracked, Remembered

-----------------------------------------------------------------------------
(* Streams of messages.                                                    *)

Message == News \cup Template \cup [type : {"info"}]
Request == {"info", "template", "block"}

\* A message is sent.
LEMMA Sent ==
  ASSUME NEW S, NEW s \in Seq(S), NEW e \in S
  PROVE  /\ Append(s, e) \in Seq(S)
         /\ \A k \in DOMAIN s : k \in DOMAIN Append(s, e) /\ Append(s, e)[k] = s[k] /\ k < Len(s) + 1
         /\ Len(s) + 1 \in DOMAIN Append(s, e) /\ Append(s, e)[Len(s) + 1] = e
         /\ \A k \in DOMAIN Append(s, e) : k \in DOMAIN s \/ k = Len(s) + 1
<1>1. /\ Append(s, e) \in Seq(S) /\ DOMAIN Append(s, e) = 1 .. Len(s) + 1
      /\ DOMAIN s = 1 .. Len(s) /\ Len(s) \in Nat
      /\ \A i \in 1 .. Len(s) : Append(s, e)[i] = s[i]
      /\ Append(s, e)[Len(s) + 1] = e
  BY AppendProperties, LenProperties
<1> QED
  BY <1>1

\* A message is received.
LEMMA Received ==
  ASSUME NEW S, NEW s \in Seq(S), s # <<>>
  PROVE  /\ Head(s) \in S /\ 1 \in DOMAIN s /\ Head(s) = s[1] /\ Tail(s) \in Seq(S)
         /\ \A k \in DOMAIN Tail(s) : k \in Nat /\ k + 1 \in DOMAIN s /\ Tail(s)[k] = s[k + 1]
         /\ \A k \in DOMAIN s : k = 1 \/ (k \in Nat /\ k - 1 \in DOMAIN Tail(s) /\ Tail(s)[k - 1] = s[k])
<1>1. Head(s) \in S /\ Tail(s) \in Seq(S) /\ Len(Tail(s)) = Len(s) - 1
      /\ \A i \in 1 .. Len(Tail(s)) : Tail(s)[i] = s[i + 1]
  BY HeadTailProperties
<1>2. DOMAIN s = 1 .. Len(s) /\ DOMAIN Tail(s) = 1 .. Len(Tail(s)) /\ Len(s) \in Nat /\ Len(s) # 0
  BY <1>1, LenProperties, EmptySeq
<1>3. Head(s) = s[1]
  OBVIOUS
<1> QED
  BY <1>1, <1>2, <1>3

\* A template comes that came before a message of another kind was received, ...
LEMMA ComingIfReceived ==
  ASSUME TypeOK, inbox # <<>>, inbox' = Tail(inbox), Head(inbox).type \in {"bare", "block"},
         TemplateComing, UNCHANGED nodeSynced,
         \A k \in DOMAIN outbox : k \in DOMAIN outbox' /\ outbox'[k] = outbox[k]
  PROVE  TemplateComing'
<1>1. inbox \in Seq(Message)
  BY DEF TypeOK, Message
<1>2. /\ Head(inbox) = inbox[1]
      /\ \A k \in DOMAIN inbox : k = 1 \/ (k - 1 \in DOMAIN Tail(inbox) /\ Tail(inbox)[k - 1] = inbox[k])
  BY <1>1, Received
<1> QED
  BY <1>2 DEF TemplateComing

\* ... or others were sent, and one that is asked for comes.
LEMMA ComingIfSent ==
  ASSUME \A k \in DOMAIN outbox : k \in DOMAIN outbox' /\ outbox'[k] = outbox[k],
         \A k \in DOMAIN inbox : k \in DOMAIN inbox' /\ inbox'[k] = inbox[k],
         TemplateComing, UNCHANGED nodeSynced
  PROVE  TemplateComing'
  BY DEF TemplateComing

\* Outdated templates stay ahead of the announcement while messages are received ...
LEMMA SyncIfReceived ==
  ASSUME TypeOK, SyncInv, inbox # <<>>, inbox' = Tail(inbox), UNCHANGED nodeSynced
  PROVE  SyncInv'
<1>1. inbox \in Seq(Message)
  BY DEF TypeOK, Message
<1>2. /\ \A k \in DOMAIN Tail(inbox) : k \in Nat /\ k + 1 \in DOMAIN inbox /\ Tail(inbox)[k] = inbox[k + 1]
      /\ \A k \in DOMAIN inbox : k = 1 \/ (k \in Nat /\ k - 1 \in DOMAIN Tail(inbox)
                                             /\ Tail(inbox)[k - 1] = inbox[k])
  BY <1>1, Received
<1> SUFFICES ASSUME NEW k \in DOMAIN inbox',
                    inbox'[k].type = "template", ~inbox'[k].synced, nodeSynced'
             PROVE  \E j \in DOMAIN inbox' : j > k /\ inbox'[j].type = "notify"
  BY DEF SyncInv
<1>3. PICK j \in DOMAIN inbox : j > k + 1 /\ inbox[j].type = "notify"
  BY <1>2 DEF SyncInv
<1>4. j - 1 \in DOMAIN inbox' /\ j - 1 > k /\ inbox'[j - 1] = inbox[j]
  BY <1>2, <1>3
<1> QED
  BY <1>3, <1>4

\* ... and when the node sends what it knows.
LEMMA SyncIfSent ==
  ASSUME TypeOK, SyncInv, NEW m \in Message, Deliver(m),
         m.type = "template" => m.synced = nodeSynced,
         nodeSynced' = nodeSynced \/ m.type = "notify"
  PROVE  SyncInv'
<1>1. inbox \in Seq(Message)
  BY DEF TypeOK, Message
<1>2. /\ \A k \in DOMAIN inbox : k \in DOMAIN inbox' /\ inbox'[k] = inbox[k] /\ k < Len(inbox) + 1
      /\ Len(inbox) + 1 \in DOMAIN inbox' /\ inbox'[Len(inbox) + 1] = m
      /\ \A k \in DOMAIN inbox' : k \in DOMAIN inbox \/ k = Len(inbox) + 1
  BY <1>1, Sent DEF Deliver
<1> SUFFICES ASSUME NEW k \in DOMAIN inbox',
                    inbox'[k].type = "template", ~inbox'[k].synced, nodeSynced'
             PROVE  \E j \in DOMAIN inbox' : j > k /\ inbox'[j].type = "notify"
  BY DEF SyncInv
<1>3. CASE m.type = "notify"
  BY <1>2, <1>3
<1>4. CASE m.type # "notify"
  <2>1. nodeSynced
    BY <1>4
  <2>2. k \in DOMAIN inbox /\ inbox[k] = inbox'[k]
    BY <1>2, <2>1
  <2> QED
    BY <1>2, <2>1, <2>2 DEF SyncInv
<1> QED
  BY <1>3, <1>4

-----------------------------------------------------------------------------
(* Challenges.                                                             *)

\* A template is asked for: a finished challenge goes with its flag.
LEMMA AskingKeeps ==
  ASSUME outbox \in Seq(Request), NEW current \in ChallengeTask \cup {Nothing}, NEW active \in BOOLEAN,
         active <=> current # Nothing, GetBlockTemplate(current, active)
  PROVE  /\ challenge' \in ChallengeTask \cup {Nothing} /\ flag' \in BOOLEAN
         /\ ChallengeFlagExact'
         /\ outbox' \in Seq(Request)
         /\ \A k \in DOMAIN outbox : k \in DOMAIN outbox' /\ outbox'[k] = outbox[k]
         /\ TemplateComing'
<1>1. outbox' = Append(outbox, "template") /\ "template" \in Request
  BY DEF GetBlockTemplate, Send, Request
<1>2. /\ outbox' \in Seq(Request)
      /\ \A k \in DOMAIN outbox : k \in DOMAIN outbox' /\ outbox'[k] = outbox[k]
      /\ Len(outbox) + 1 \in DOMAIN outbox' /\ outbox'[Len(outbox) + 1] = "template"
  BY <1>1, Sent
<1>3. challenge' \in ChallengeTask \cup {Nothing} /\ flag' \in BOOLEAN /\ ChallengeFlagExact'
  BY DEF GetBlockTemplate, Finished, ChallengeFlagExact
<1> QED
  BY <1>2, <1>3 DEF TemplateComing

\* TypeOK is the types of the requests and of everything else.
OtherType ==
  /\ challenge \in ChallengeTask \cup {Nothing}
  /\ flag \in BOOLEAN /\ job \in BOOLEAN /\ isSynced \in BOOLEAN /\ modelReady \in BOOLEAN
  /\ nodeSynced \in BOOLEAN
  /\ lastDaa \in Scores \cup {0}
  /\ outbox \in Seq(Request) /\ inbox \in Seq(Message)
  /\ issued \in 0..MaxChallenges /\ reconnects \in 0..MaxReconnects

LEMMA TypeParts == TypeOK <=> RequestType /\ OtherType
  BY DEF TypeOK, RequestType, OtherType, Request, Message

\* The same of the next state.
LEMMA TypePartsNext == TypeOK' <=> RequestType' /\ OtherType'
  BY DEF TypeOK, RequestType, OtherType, Request, Message

-----------------------------------------------------------------------------
(* One lemma per action.                                                   *)

\* An answer to getInfo, or a new template.
LEMMA AnnouncedIInv ==
  ASSUME IInv, OnGetInfoResponse \/ OnNewBlockTemplate
  PROVE  IInv'
<1>1. /\ inbox # <<>> /\ inbox' = Tail(inbox) /\ GetBlockTemplate(challenge, flag)
      /\ UNCHANGED <<queue, seen, txidOf, inference, answered, tracked, job, isSynced, lastDaa, modelReady,
                     issued, nodeSynced, reconnects>>
  BY DEF OnGetInfoResponse, OnNewBlockTemplate, Receive, requests, history, workers, chain, node
<1>2. RequestType /\ OtherType
  BY TypeParts DEF IInv
<1>3. /\ challenge' \in ChallengeTask \cup {Nothing} /\ flag' \in BOOLEAN
      /\ ChallengeFlagExact' /\ outbox' \in Seq(Request) /\ TemplateComing'
  BY <1>1, <1>2, AskingKeeps DEF IInv, ChallengeFlagExact, OtherType
<1>4. RequestType' /\ RequestInv'
  BY <1>1, <1>2, RequestsKept DEF IInv
<1>5. inbox' \in Seq(Message)
  BY <1>1, <1>2, Received DEF OtherType
<1>6. TypeOK'
  BY <1>1, <1>2, <1>3, <1>4, <1>5, TypePartsNext DEF OtherType
<1>7. SyncInv'
  BY <1>1, SyncIfReceived DEF IInv
<1>8. IdleForAReason'
  BY <1>1, <1>3 DEF IInv, IdleForAReason
<1> QED
  BY <1>3, <1>4, <1>6, <1>7, <1>8 DEF IInv

\* BlockAdded without transactions.
LEMMA BareIInv ==
  ASSUME IInv, OnBareBlockAdded
  PROVE  IInv'
<1>1. /\ inbox # <<>> /\ inbox' = Tail(inbox) /\ Head(inbox).type = "bare" /\ outbox' = Append(outbox, "block")
      /\ UNCHANGED <<queue, seen, txidOf, inference, answered, tracked, challenge, flag, job, isSynced,
                     lastDaa, modelReady, issued, nodeSynced, reconnects>>
  BY DEF OnBareBlockAdded, Receive, Send, requests, history, workers, chain, node
<1>2. RequestType /\ OtherType
  BY TypeParts DEF IInv
<1>3. RequestType' /\ RequestInv'
  BY <1>1, <1>2, RequestsKept DEF IInv
<1>4. /\ outbox' \in Seq(Request)
      /\ \A k \in DOMAIN outbox : k \in DOMAIN outbox' /\ outbox'[k] = outbox[k]
  <2>1. "block" \in Request
    BY DEF Request
  <2> QED
    BY <1>1, <1>2, <2>1, Sent DEF OtherType
<1>5. inbox' \in Seq(Message)
  BY <1>1, <1>2, Received DEF OtherType
<1>6. TypeOK'
  BY <1>1, <1>2, <1>3, <1>4, <1>5, TypePartsNext DEF OtherType
<1>7. SyncInv'
  BY <1>1, SyncIfReceived DEF IInv
<1>8. TemplateComing => TemplateComing'
  BY <1>1, <1>4, ComingIfReceived DEF IInv
<1>9. IdleForAReason' /\ ChallengeFlagExact'
  BY <1>1, <1>8 DEF IInv, IdleForAReason, ChallengeFlagExact
<1> QED
  BY <1>3, <1>6, <1>7, <1>9 DEF IInv

\* A block with its transactions: an inference may start, none goes.
LEMMA BlockIInv ==
  ASSUME IInv, OnBlock
  PROVE  IInv'
<1>1. /\ inbox # <<>> /\ inbox' = Tail(inbox) /\ Head(inbox).type = "block"
      /\ ScanAndStart(Head(inbox).tx)
      /\ UNCHANGED <<challenge, flag, job, isSynced, lastDaa, modelReady, issued, nodeSynced, outbox,
                     reconnects>>
  BY DEF OnBlock, Receive, workers, chain, node
<1>2. RequestType /\ OtherType
  BY TypeParts DEF IInv
<1>3. Head(inbox) \in Message /\ inbox' \in Seq(Message)
  BY <1>1, <1>2, Received DEF OtherType
<1>4. Head(inbox).tx \in Txs \cup {Nothing}
  BY <1>1, <1>3 DEF Message, News, Template
<1>5. RequestType' /\ RequestInv' /\ (inference # Nothing => inference' = inference)
  BY <1>1, <1>2, <1>4, ScanKeeps DEF IInv
<1>6. TypeOK'
  BY <1>1, <1>2, <1>3, <1>5, TypePartsNext DEF OtherType
<1>7. SyncInv'
  BY <1>1, SyncIfReceived DEF IInv
<1>8. TemplateComing => TemplateComing'
  BY <1>1, ComingIfReceived DEF IInv
<1>9. IdleForAReason' /\ ChallengeFlagExact'
  BY <1>1, <1>5, <1>8 DEF IInv, IdleForAReason, ChallengeFlagExact
<1> QED
  BY <1>5, <1>6, <1>7, <1>9 DEF IInv

\* A template that is no news comes only while there is another one to come.
LEMMA OutdatedTemplate ==
  ASSUME TypeOK, SyncInv, inbox # <<>>, Head(inbox).type = "template", ~Head(inbox).synced,
         inbox' = Tail(inbox), UNCHANGED nodeSynced
  PROVE  TemplateComing'
<1>1. inbox \in Seq(Message)
  BY DEF TypeOK, Message
<1>2. /\ 1 \in DOMAIN inbox /\ Head(inbox) = inbox[1]
      /\ \A k \in DOMAIN inbox : k = 1 \/ (k - 1 \in DOMAIN Tail(inbox) /\ Tail(inbox)[k - 1] = inbox[k])
  BY <1>1, Received
<1>3. CASE ~nodeSynced
  BY <1>3 DEF TemplateComing
<1>4. CASE nodeSynced
  <2>1. PICK j \in DOMAIN inbox : j > 1 /\ inbox[j].type = "notify"
    BY <1>2, <1>4 DEF SyncInv
  <2> QED
    BY <1>2, <2>1 DEF TemplateComing
<1> QED
  BY <1>3, <1>4

\* A template: workers get its block, unless there is a reason to suspend them.
LEMMA TemplateIInv ==
  ASSUME IInv, OnGetBlockTemplateResponse
  PROVE  IInv'
<1> DEFINE m       == Head(inbox)
           score   == IF m.daa > lastDaa THEN m.daa ELSE lastDaa
           current == IF Takes(m, score) THEN [id |-> m.challenge, result |-> "running"]
                                         ELSE challenge
           active  == flag \/ Takes(m, score)
<1>1. /\ inbox # <<>> /\ inbox' = Tail(inbox) /\ m.type = "template" /\ lastDaa' = score
      /\ UNCHANGED <<modelReady, issued, nodeSynced, reconnects>>
  BY DEF OnGetBlockTemplateResponse, Receive, node
<1>2. RequestType /\ OtherType
  BY TypeParts DEF IInv
<1>3. m \in Message /\ inbox' \in Seq(Message)
  BY <1>1, <1>2, Received DEF OtherType
<1>4. m \in Template
  BY <1>1, <1>3 DEF Message, News
<1>5. score \in Scores \cup {0}
  BY <1>2, <1>4 DEF Template, OtherType
<1>6. current \in ChallengeTask \cup {Nothing} /\ active \in BOOLEAN /\ (active <=> current # Nothing)
  <2>1. CASE Takes(m, score)
    <3>1. m.challenge \in 1..MaxChallenges
      BY <1>4, <2>1, ScoresAssumption DEF Takes, Template
    <3>2. current \in ChallengeTask
      BY <2>1, <3>1 DEF ChallengeTask, Results
    <3>3. current # Nothing
      BY <3>2, NothingAssumption
    <3>4. active = TRUE
      BY <2>1
    <3> QED
      BY <3>2, <3>3, <3>4
  <2>2. CASE ~Takes(m, score)
    BY <1>2, <2>2 DEF OtherType, IInv, ChallengeFlagExact
  <2> QED
    BY <2>1, <2>2
<1>7. SyncInv'
  BY <1>1, SyncIfReceived DEF IInv
<1> HIDE DEF current, active, score
<1>8. CASE Finished(inference)
  <2>1. Harvest /\ GetBlockTemplate(current, active) /\ UNCHANGED <<job, isSynced>>
    BY <1>8 DEF OnGetBlockTemplateResponse, workers, current, active, score
  <2>2. RequestType' /\ RequestInv'
    BY <1>2, <1>8, <2>1, HarvestKeeps DEF IInv, Finished
  <2>3. /\ challenge' \in ChallengeTask \cup {Nothing} /\ flag' \in BOOLEAN
        /\ ChallengeFlagExact' /\ outbox' \in Seq(Request) /\ TemplateComing'
    BY <1>2, <1>6, <2>1, AskingKeeps DEF OtherType
  <2>4. TypeOK'
    BY <1>1, <1>2, <1>3, <1>5, <2>1, <2>2, <2>3, TypePartsNext DEF OtherType
  <2>5. IdleForAReason'
    BY <2>1, <2>3 DEF IInv, IdleForAReason
  <2> QED
    BY <1>7, <2>2, <2>3, <2>4, <2>5 DEF IInv
<1>9. CASE ~Finished(inference)
  <2>1. /\ challenge' = current /\ flag' = active /\ UNCHANGED outbox
        /\ IF ~modelReady
           THEN Suspend /\ UNCHANGED <<requests, history>>
           ELSE /\ ScanAndStart(m.tx)
                /\ IF \/ inference' # Nothing \/ challenge' # Nothing
                      \/ ~m.synced /\ ~MineWhenNotSynced
                   THEN Suspend
                   ELSE Resume
    BY <1>9 DEF OnGetBlockTemplateResponse, current, active, score
  <2>2. ChallengeFlagExact'
    BY <1>6, <2>1 DEF ChallengeFlagExact
  <2>3. RequestType' /\ RequestInv'
    <3>1. CASE ~modelReady
      BY <1>2, <2>1, <3>1, RequestsKept DEF IInv, requests, history
    <3>2. CASE modelReady
      <4>1. m.tx \in Txs \cup {Nothing}
        BY <1>4 DEF Template
      <4> QED
        BY <1>2, <2>1, <3>2, <4>1, ScanKeeps DEF IInv
    <3> QED
      BY <3>1, <3>2
  <2>4. job' \in BOOLEAN /\ isSynced' \in BOOLEAN /\ (job' => isSynced')
    BY <1>2, <2>1 DEF Suspend, Resume, workers, OtherType, IInv, IdleForAReason
  <2>5. TypeOK'
    BY <1>1, <1>2, <1>3, <1>5, <1>6, <2>1, <2>3, <2>4, TypePartsNext DEF OtherType
  <2>6. ~job' => \/ inference' # Nothing \/ challenge' # Nothing \/ TemplateComing' \/ ~modelReady'
    <3>1. ~m.synced => TemplateComing'
      BY <1>1, OutdatedTemplate DEF IInv
    <3> QED
      BY <1>1, <2>1, <3>1 DEF Resume
  <2> QED
    BY <1>7, <2>2, <2>3, <2>4, <2>5, <2>6 DEF IInv, IdleForAReason
<1> QED
  BY <1>8, <1>9

\* The timer.
LEMMA TickIInv ==
  ASSUME IInv, Tick
  PROVE  IInv'
<1>1. /\ GetBlockTemplate(challenge, flag)
      /\ IF Finished(inference) THEN Harvest ELSE UNCHANGED <<requests, history>>
      /\ UNCHANGED <<job, isSynced, lastDaa, modelReady, issued, nodeSynced, inbox, reconnects>>
  BY DEF Tick, workers, chain, node
<1>2. RequestType /\ OtherType
  BY TypeParts DEF IInv
<1>3. RequestType' /\ RequestInv'
  BY <1>1, <1>2, HarvestKeeps, RequestsKept DEF IInv, Finished, requests, history
<1>4. /\ challenge' \in ChallengeTask \cup {Nothing} /\ flag' \in BOOLEAN
      /\ ChallengeFlagExact' /\ outbox' \in Seq(Request) /\ TemplateComing'
  BY <1>1, <1>2, AskingKeeps DEF IInv, ChallengeFlagExact, OtherType
<1>5. TypeOK'
  BY <1>1, <1>2, <1>3, <1>4, TypePartsNext DEF OtherType
<1>6. SyncInv' /\ IdleForAReason'
  BY <1>1, <1>4 DEF IInv, SyncInv, IdleForAReason
<1> QED
  BY <1>3, <1>4, <1>5, <1>6 DEF IInv

\* What sends the client a message, or none, and leaves its own state alone.
LEMMA NodeKeeps ==
  ASSUME IInv,
         UNCHANGED <<queue, seen, txidOf, inference, answered, tracked, challenge, flag, job,
                     isSynced, lastDaa, modelReady, reconnects>>,
         inbox' \in Seq(Message), outbox' \in Seq(Request), issued' \in 0..MaxChallenges,
         nodeSynced' \in BOOLEAN, SyncInv', TemplateComing => TemplateComing'
  PROVE  IInv'
<1>1. RequestType /\ OtherType
  BY TypeParts DEF IInv
<1>2. RequestType' /\ RequestInv'
  BY <1>1, RequestsKept DEF IInv
<1>3. TypeOK'
  BY <1>1, <1>2, TypePartsNext DEF OtherType
<1>4. ChallengeFlagExact' /\ IdleForAReason'
  BY DEF IInv, ChallengeFlagExact, IdleForAReason
<1> QED
  BY <1>2, <1>3, <1>4 DEF IInv

\* A task of the client ends.
LEMMA TaskIInv ==
  ASSUME IInv, InferenceEnds \/ ChallengeEnds
  PROVE  IInv'
<1>1. RequestType /\ OtherType
  BY TypeParts DEF IInv
<1>2. UNCHANGED <<flag, job, isSynced, lastDaa, modelReady, issued, nodeSynced, outbox, inbox, reconnects>>
  BY DEF InferenceEnds, ChallengeEnds, workers, chain, node
<1>3. RequestType' /\ RequestInv' /\ (inference # Nothing => inference' # Nothing)
  <2>1. CASE InferenceEnds
    BY <1>1, <2>1, EndKeeps DEF IInv
  <2>2. CASE ChallengeEnds
    <3>1. UNCHANGED <<queue, seen, txidOf, inference, answered, tracked>>
      BY <2>2 DEF ChallengeEnds, requests, history
    <3> QED
      BY <1>1, <3>1, RequestsKept DEF IInv
  <2> QED
    BY <2>1, <2>2
<1>4. challenge' \in ChallengeTask \cup {Nothing} /\ (challenge # Nothing <=> challenge' # Nothing)
  <2>1. CASE InferenceEnds
    BY <1>1, <2>1 DEF InferenceEnds, OtherType
  <2>2. CASE ChallengeEnds
    <3>1. challenge # Nothing /\ challenge \in ChallengeTask
      BY <1>1, <2>2 DEF ChallengeEnds, Running, OtherType
    <3>2. PICK result \in {"text", "none"} : challenge' = [challenge EXCEPT !.result = result]
      BY <2>2 DEF ChallengeEnds
    <3>3. challenge' \in ChallengeTask
      BY <3>1, <3>2 DEF ChallengeTask, Results
    <3> QED
      BY <3>1, <3>3, NothingAssumption
  <2> QED
    BY <2>1, <2>2
<1>5. TypeOK'
  BY <1>1, <1>2, <1>3, <1>4, TypePartsNext DEF OtherType
<1>6. SyncInv' /\ (TemplateComing => TemplateComing')
  BY <1>2 DEF IInv, SyncInv, TemplateComing
<1>7. ChallengeFlagExact' /\ IdleForAReason'
  BY <1>2, <1>3, <1>4, <1>6 DEF IInv, ChallengeFlagExact, IdleForAReason
<1> QED
  BY <1>3, <1>5, <1>6, <1>7 DEF IInv

\* The files of the model come only with a task, which is a reason to be idle.
LEMMA FilesIInv ==
  ASSUME IInv, FilesChange
  PROVE  IInv'
<1>1. RequestType /\ OtherType
  BY TypeParts DEF IInv
<1>2. /\ modelReady \/ Running(inference) \/ Running(challenge)
      /\ modelReady' = ~modelReady
      /\ UNCHANGED <<queue, seen, txidOf, inference, answered, tracked, challenge, flag, job, isSynced,
                     lastDaa, issued, nodeSynced, outbox, inbox, reconnects>>
  BY DEF FilesChange, requests, history, workers, node
<1>3. RequestType' /\ RequestInv'
  BY <1>1, <1>2, RequestsKept DEF IInv
<1>4. modelReady' \in BOOLEAN
  BY <1>2
<1>5. TypeOK'
  BY <1>1, <1>2, <1>3, <1>4, TypePartsNext DEF OtherType
<1>6. SyncInv' /\ ChallengeFlagExact'
  BY <1>2 DEF IInv, SyncInv, ChallengeFlagExact
<1>7. IdleForAReason'
  <2>1. ~job' => inference' # Nothing \/ challenge' # Nothing \/ ~modelReady'
                 \/ (modelReady' /\ (Running(inference) \/ Running(challenge)))
    BY <1>1, <1>2 DEF OtherType
  <2> QED
    BY <1>2, <2>1 DEF IInv, IdleForAReason, Running
<1> QED
  BY <1>3, <1>5, <1>6, <1>7 DEF IInv

\* The node answers the oldest request.
LEMMA AnswerIInv ==
  ASSUME IInv, NodeAnswers
  PROVE  IInv'
<1>1. RequestType /\ OtherType
  BY TypeParts DEF IInv
<1>2. /\ outbox # <<>> /\ outbox' = Tail(outbox)
      /\ UNCHANGED <<queue, seen, txidOf, inference, answered, tracked, challenge, flag, job,
                     isSynced, lastDaa, modelReady, nodeSynced, reconnects>>
  BY DEF NodeAnswers, AnswerTemplate, requests, history, workers, chain, node
<1>3. /\ Head(outbox) = outbox[1] /\ outbox' \in Seq(Request)
      /\ \A k \in DOMAIN outbox : k = 1 \/ (k - 1 \in DOMAIN outbox' /\ outbox'[k - 1] = outbox[k])
  BY <1>1, <1>2, Received DEF OtherType
<1>4. PICK m \in Message : /\ Deliver(m) /\ issued' \in 0..MaxChallenges
                           /\ m.type = "template" => m.synced = nodeSynced
                           /\ Head(outbox) \in {"info", "template"} => m.type = Head(outbox)
  <2>1. CASE Head(outbox) = "info" /\ Deliver([type |-> "info"]) /\ UNCHANGED node
    BY <1>1, <2>1 DEF Message, node, OtherType
  <2>2. CASE Head(outbox) = "template" /\ AnswerTemplate
    <3>1. PICK t \in Txs \cup {Nothing}, daa \in Scores,
               id \in {0} \cup ({issued + 1} \cap (1..MaxChallenges)) :
            /\ Deliver([type |-> "template", tx |-> t, daa |-> daa, challenge |-> id,
                        synced |-> nodeSynced])
            /\ issued' = IF id = 0 THEN issued ELSE id
      BY <2>2 DEF AnswerTemplate
    <3>2. id \in 0..MaxChallenges /\ issued' \in 0..MaxChallenges
      BY <1>1, <3>1, ScoresAssumption DEF OtherType
    <3>3. [type |-> "template", tx |-> t, daa |-> daa, challenge |-> id, synced |-> nodeSynced]
            \in Message
      BY <1>1, <3>2 DEF Message, Template, OtherType
    <3> QED
      BY <2>2, <3>1, <3>2, <3>3
  <2>3. CASE /\ Head(outbox) = "block" /\ UNCHANGED node
             /\ \E t \in Txs \cup {Nothing} : Deliver([type |-> "block", tx |-> t])
    <3>1. PICK t \in Txs \cup {Nothing} : Deliver([type |-> "block", tx |-> t])
      BY <2>3
    <3>2. [type |-> "block", tx |-> t] \in Message
      BY DEF Message, News
    <3> QED
      BY <1>1, <2>3, <3>1, <3>2 DEF node, OtherType
  <2> QED
    BY <2>1, <2>2, <2>3 DEF NodeAnswers
<1>5. /\ inbox' \in Seq(Message)
      /\ \A k \in DOMAIN inbox : k \in DOMAIN inbox' /\ inbox'[k] = inbox[k]
      /\ Len(inbox) + 1 \in DOMAIN inbox' /\ inbox'[Len(inbox) + 1] = m
  BY <1>1, <1>4, Sent DEF Deliver, OtherType
<1>6. SyncInv'
  BY <1>1, <1>2, <1>4, SyncIfSent DEF IInv, OtherType
<1>7. TemplateComing => TemplateComing'
  BY <1>2, <1>3, <1>4, <1>5 DEF TemplateComing
<1> QED
  BY <1>1, <1>2, <1>3, <1>4, <1>5, <1>6, <1>7, NodeKeeps DEF OtherType

\* The node announces a block or a template.
LEMMA NewsIInv ==
  ASSUME IInv, NodeNotifies \/ NodeSyncs
  PROVE  IInv'
<1>1. RequestType /\ OtherType
  BY TypeParts DEF IInv
<1>2. UNCHANGED <<queue, seen, txidOf, inference, answered, tracked, challenge, flag, job,
                  isSynced, lastDaa, modelReady, issued, outbox, reconnects>>
  BY DEF NodeNotifies, NodeSyncs, requests, history, workers, chain, node
<1>3. PICK m \in Message : /\ Deliver(m) /\ m.type # "template" /\ nodeSynced' \in BOOLEAN
                           /\ (nodeSynced' = nodeSynced) \/ m.type = "notify"
  <2>1. CASE NodeNotifies
    <3>1. PICK m \in News : Deliver(m)
      BY <2>1 DEF NodeNotifies
    <3>2. m \in Message /\ m.type # "template"
      BY DEF Message, News
    <3>3. nodeSynced' = nodeSynced
      BY <2>1 DEF NodeNotifies, node
    <3> QED
      BY <1>1, <3>1, <3>2, <3>3 DEF OtherType
  <2>2. CASE NodeSyncs
    <3>1. [type |-> "notify"] \in Message
      BY DEF Message, News
    <3>2. Deliver([type |-> "notify"]) /\ nodeSynced' = TRUE
      BY <2>2 DEF NodeSyncs
    <3> QED
      BY <3>1, <3>2
  <2> QED
    BY <2>1, <2>2
<1>4. /\ inbox' \in Seq(Message)
      /\ \A k \in DOMAIN inbox : k \in DOMAIN inbox' /\ inbox'[k] = inbox[k]
      /\ Len(inbox) + 1 \in DOMAIN inbox' /\ inbox'[Len(inbox) + 1] = m
  BY <1>1, <1>3, Sent DEF Deliver, OtherType
<1>5. SyncInv'
  BY <1>3, SyncIfSent DEF IInv
<1>6. TemplateComing => TemplateComing'
  <2>1. CASE m.type = "notify"
    BY <1>4, <2>1 DEF TemplateComing
  <2>2. CASE nodeSynced' = nodeSynced
    BY <1>2, <1>4, <2>2 DEF TemplateComing
  <2> QED
    BY <1>3, <2>1, <2>2
<1> QED
  BY <1>1, <1>2, <1>3, <1>4, <1>5, <1>6, NodeKeeps DEF OtherType

\* The first request of a connection.
LEMMA FirstRequest ==
  <<"info">> \in Seq(Request) /\ 1 \in DOMAIN <<"info">> /\ <<"info">>[1] = "info"
<1>1. "info" \in Request
  BY DEF Request
<1>2. <<"info">> = Append(<< >>, "info") /\ << >> \in Seq(Request)
  OBVIOUS
<1> QED
  BY <1>1, <1>2, Sent, LenProperties, EmptySeq

\* A new connection knows nothing; its first request brings a template.
LEMMA FreshIInv ==
  ASSUME queue = <<>>, seen = {}, txidOf = [p \in Payloads |-> Nothing],
         inference = Nothing, challenge = Nothing, flag = FALSE,
         answered = [p \in Payloads |-> 0], tracked = {}, job = FALSE, isSynced = TRUE,
         lastDaa = 0, outbox = <<"info">>, inbox = <<>>, modelReady \in BOOLEAN,
         nodeSynced \in BOOLEAN, issued \in 0..MaxChallenges, reconnects \in 0..MaxReconnects
  PROVE  IInv
<1>1. queue \in Seq(Payloads) /\ DOMAIN queue = {} /\ inbox \in Seq(Message) /\ DOMAIN inbox = {}
  BY EmptySeq
<1>2. outbox \in Seq(Request) /\ 1 \in DOMAIN outbox /\ outbox[1] = "info"
  BY FirstRequest
<1>3. RequestType /\ OtherType
  BY <1>1, <1>2 DEF RequestType, OtherType
<1>4. RequestInv
  BY <1>1, RequestsAssumption DEF RequestInv, QueueInv, AnsweredOnce, TxidInv, RewardTracked
<1>5. ChallengeFlagExact /\ SyncInv
  BY <1>1 DEF ChallengeFlagExact, SyncInv
<1>6. IdleForAReason
  BY <1>2 DEF IdleForAReason, TemplateComing
<1> QED
  BY <1>3, <1>4, <1>5, <1>6, TypeParts DEF IInv

LEMMA InitIInv == Init => IInv
<1> SUFFICES ASSUME Init PROVE IInv
  OBVIOUS
<1>1. modelReady \in BOOLEAN /\ issued \in 0..MaxChallenges /\ reconnects \in 0..MaxReconnects
  BY ScoresAssumption DEF Init
<1> QED
  BY <1>1, FreshIInv DEF Init

\* FreshIInv of the next state.
LEMMA ReconnectIInv ==
  ASSUME IInv, Reconnect
  PROVE  IInv'
<1>1. RequestType /\ OtherType
  BY TypeParts DEF IInv
<1>2. /\ queue' = <<>> /\ seen' = {} /\ txidOf' = [p \in Payloads |-> Nothing]
      /\ inference' = Nothing /\ challenge' = Nothing /\ flag' = FALSE
      /\ answered' = [p \in Payloads |-> 0] /\ tracked' = {} /\ job' = FALSE /\ isSynced' = TRUE
      /\ lastDaa' = 0 /\ outbox' = <<"info">> /\ inbox' = <<>>
      /\ UNCHANGED <<modelReady, issued, nodeSynced>>
      /\ reconnects' \in 0..MaxReconnects
  BY <1>1, ScoresAssumption DEF Reconnect, node, OtherType
<1>3. queue' \in Seq(Payloads) /\ DOMAIN queue' = {} /\ inbox' \in Seq(Message) /\ DOMAIN inbox' = {}
  BY <1>2, EmptySeq
<1>4. outbox' \in Seq(Request) /\ 1 \in DOMAIN outbox' /\ outbox'[1] = "info"
  BY <1>2, FirstRequest
<1>5. RequestType' /\ OtherType'
  BY <1>1, <1>2, <1>3, <1>4 DEF RequestType, OtherType
<1>6. RequestInv'
  BY <1>2, <1>3, RequestsAssumption DEF RequestInv, QueueInv, AnsweredOnce, TxidInv, RewardTracked
<1>7. ChallengeFlagExact' /\ SyncInv'
  BY <1>2, <1>3 DEF ChallengeFlagExact, SyncInv
<1>8. IdleForAReason'
  BY <1>2, <1>4 DEF IdleForAReason, TemplateComing
<1> QED
  BY <1>5, <1>6, <1>7, <1>8, TypePartsNext DEF IInv

LEMMA StepIInv == IInv /\ [Next]_vars => IInv'
<1> SUFFICES ASSUME IInv, [Next]_vars PROVE IInv'
  OBVIOUS
<1>1. CASE HandleMessage
  BY <1>1, AnnouncedIInv, BareIInv, BlockIInv, TemplateIInv DEF HandleMessage
<1>2. CASE Tick
  BY <1>2, TickIInv
<1>3. CASE InferenceEnds \/ ChallengeEnds
  BY <1>3, TaskIInv
<1>4. CASE FilesChange
  BY <1>4, FilesIInv
<1>5. CASE NodeAnswers
  BY <1>5, AnswerIInv
<1>6. CASE NodeNotifies \/ NodeSyncs
  BY <1>6, NewsIInv
<1>7. CASE Reconnect
  BY <1>7, ReconnectIInv
<1>8. CASE UNCHANGED vars
  <2>1. UNCHANGED <<queue, seen, txidOf, inference, answered, tracked, challenge, flag, job, isSynced,
                    lastDaa, modelReady, issued, nodeSynced, outbox, inbox, reconnects>>
    BY <1>8 DEF vars, requests, history, workers, chain, node
  <2>2. RequestType /\ OtherType
    BY TypeParts DEF IInv
  <2>3. inbox' \in Seq(Message) /\ outbox' \in Seq(Request) /\ issued' \in 0..MaxChallenges
        /\ nodeSynced' \in BOOLEAN
    BY <2>1, <2>2 DEF OtherType
  <2>4. SyncInv' /\ (TemplateComing => TemplateComing')
    BY <2>1 DEF IInv, SyncInv, TemplateComing
  <2> QED
    BY <2>1, <2>3, <2>4, NodeKeeps
<1> QED
  BY <1>1, <1>2, <1>3, <1>4, <1>5, <1>6, <1>7, <1>8 DEF Next

-----------------------------------------------------------------------------
(* What the runs check, for every set of transactions and payloads, every  *)
(* node, and every bound.                                                  *)

\* The inductive invariant holds in every reachable state.
THEOREM ClientInvariant == Spec => []IInv
  BY InitIInv, StepIInv, PTL DEF Spec

\* Every variable has its type.
THEOREM ClientTypeCorrect == Spec => []TypeOK
<1>1. IInv => TypeOK
  BY DEF IInv
<1> QED
  BY <1>1, ClientInvariant, PTL

\* poll_inference never answers a request a second time on one connection: a payload is
\* queued, under inference or answered, and scan_txs_for_ai_requests knows it in each case.
THEOREM RequestsAnsweredOnce == Spec => []AnsweredOnce
<1>1. IInv => AnsweredOnce
  BY DEF IInv, RequestInv
<1> QED
  BY <1>1, ClientInvariant, PTL

\* The escrow of an answered and paid request was handed to the watcher: its id is
\* remembered from the first scan to the harvest.
THEOREM RewardsTracked == Spec => []RewardTracked
<1>1. IInv => RewardTracked
  BY DEF IInv, RequestInv
<1> QED
  BY <1>1, ClientInvariant, PTL

\* opoi_challenge_active is up exactly while a challenge is in flight.
THEOREM FlagFollowsChallenge == Spec => []ChallengeFlagExact
<1>1. IInv => ChallengeFlagExact
  BY DEF IInv
<1> QED
  BY <1>1, ClientInvariant, PTL

\* Workers without a job wait for an inference, for a challenge, for a template that is
\* on its way, or for a model that was deleted: they are never left alone.
THEOREM IdleWorkersHaveReason == Spec => []IdleForAReason
<1>1. IInv => IdleForAReason
  BY DEF IInv
<1> QED
  BY <1>1, ClientInvariant, PTL
=============================================================================
