------------------------ MODULE StratumClient_proofs ------------------------
(***************************************************************************)
(* What a pool cannot upset, however many jobs and shares there are and    *)
(* whatever it sends: shares keep their ids, CIDs their jobs, and the      *)
(* flags follow the inference.                                             *)
(***************************************************************************)
EXTENDS StratumClient, Powers_proofs, TLAPS

-----------------------------------------------------------------------------
(* The inductive invariant.                                                *)

Holding == {"insert", "look", "send"}

\* Ids are used once per connection: that of a share under way is not among those sent,
\* and both are below the next one.
IdInv ==
  /\ link = "up" => lastId >= 2
  /\ \A s \in sent : s.id < lastId
  /\ submitter.at \in Holding =>
       /\ submitter.id < lastId
       /\ submitter.id \in DOMAIN pending /\ pending[submitter.id] = submitter.job
       /\ \A s \in sent : s.id # submitter.id

\* The CID that is about to be sent.
CidInv ==
  submitter.at = "send" => submitter.cid \in {None, TaskOf[submitter.job]}

IInv == TypeOK /\ IdInv /\ SharesAccounted /\ CidInv /\ CidBelongsToJob /\ FlagsExact

-----------------------------------------------------------------------------
(* Functions with one entry less.                                          *)

\* What Without returns.
LEMMA WithoutEntry ==
  ASSUME NEW f, NEW x
  PROVE  /\ DOMAIN Without(f, x) = DOMAIN f \ {x}
         /\ \A y \in DOMAIN f \ {x} : Without(f, x)[y] = f[y]
  BY DEF Without

-----------------------------------------------------------------------------
(* Steps that all invariants see in the same way.                          *)

\* A new connection, or none, is in the invariant but for what it keeps.
LEMMA FreshIInv ==
  ASSUME TypeOK, FreshConnection, link' \in {"down", "up"}, exits' \in 0 .. MaxExits,
         ctr' \in 0 .. CtrRange - 1, miningDev' \in BOOLEAN, ready' \in BOOLEAN,
         lastId' \in 0 .. MaxId, link' = "up" => lastId' >= 2,
         DOMAIN pending' \subseteq 2 .. MaxId - 1, pending' \in [DOMAIN pending' -> Jobs]
  PROVE  IInv'
<1>1. TypeOK'
  BY DEF TypeOK, FreshConnection, Idle
<1>2. submitter'.at = "idle" /\ sent' = {} /\ run' = None /\ inFlight' = FALSE /\ quiet' = FALSE
      /\ inProgress' = {}
  BY DEF FreshConnection, Idle
<1>3. IdInv' /\ SharesAccounted' /\ CidInv' /\ CidBelongsToJob'
  BY <1>2 DEF IdInv, SharesAccounted, CidInv, CidBelongsToJob, Holding
<1>4. FlagsExact'
  BY <1>2 DEF FlagsExact
<1> QED
  BY <1>1, <1>3, <1>4 DEF IInv

\* The end of a connection.
LEMMA LostIInv ==
  ASSUME TypeOK, Lost
  PROVE  IInv'
<1>1. FreshConnection /\ link' = "down" /\ UNCHANGED <<exits, ctr, miningDev, ready, lastId, pending>>
  BY DEF Lost
<1> QED
  BY <1>1, FreshIInv DEF TypeOK

\* The end of the process.
LEMMA ExitIInv ==
  ASSUME TypeOK, Exit
  PROVE  IInv'
<1>1. FreshConnection /\ link' = "down" /\ UNCHANGED <<miningDev, ready, lastId>>
  BY DEF Exit
<1>2. exits' \in 0 .. MaxExits /\ ctr' \in 0 .. CtrRange - 1
  BY CountersAssumption DEF Exit, TypeOK
<1>3. DOMAIN pending' = {} /\ pending' \in [DOMAIN pending' -> Jobs]
  BY DEF Exit, NoShares
<1> QED
  BY <1>1, <1>2, <1>3, FreshIInv DEF TypeOK

\* A connection.
LEMMA ConnectIInv ==
  ASSUME TypeOK, Connect
  PROVE  IInv'
<1>1. FreshConnection /\ link' = "up" /\ lastId' = 2 /\ UNCHANGED <<exits, ctr, ready, pending>>
  BY DEF Connect
<1>2. miningDev' \in BOOLEAN
  BY DEF Connect, AuthorisedForDevfund
<1>3. lastId' \in 0 .. MaxId
  BY <1>1, CountersAssumption
<1> QED
  BY <1>1, <1>2, <1>3, FreshIInv DEF TypeOK

\* The initial states.
LEMMA InitIInv == Init => IInv
<1> SUFFICES ASSUME Init PROVE IInv
  OBVIOUS
<1>1. TypeOK
  <2>1. ctr \in 0 .. CtrRange - 1 /\ exits \in 0 .. MaxExits /\ lastId \in 0 .. MaxId
    BY CountersAssumption DEF Init
  <2>2. DOMAIN pending = {} /\ pending \in [DOMAIN pending -> Jobs]
    BY DEF Init, NoShares
  <2>3. inFlight \in BOOLEAN /\ quiet \in BOOLEAN /\ logger \in BOOLEAN /\ miningDev \in BOOLEAN
        /\ ready \in BOOLEAN
    BY DEF Init
  <2> QED
    BY <2>1, <2>2, <2>3 DEF Init, TypeOK, Idle
<1>2. submitter.at = "idle" /\ sent = {} /\ run = None /\ inFlight = FALSE /\ quiet = FALSE
      /\ inProgress = {} /\ link = "down"
  BY DEF Init, Idle
<1>3. IdInv /\ SharesAccounted /\ CidInv /\ CidBelongsToJob
  BY <1>2 DEF IdInv, SharesAccounted, CidInv, CidBelongsToJob, Holding
<1>4. FlagsExact
  BY <1>2 DEF FlagsExact
<1> QED
  BY <1>1, <1>3, <1>4 DEF IInv

\* What a step that leaves the shares alone keeps.
LEMMA SharesKept ==
  ASSUME IInv, UNCHANGED <<link, lastId, submitter, pending, sent>>
  PROVE  IdInv' /\ SharesAccounted' /\ CidInv' /\ CidBelongsToJob'
  BY DEF IInv, IdInv, SharesAccounted, CidInv, CidBelongsToJob, Holding

\* What a step that leaves the inference alone keeps.
LEMMA FlagsKept ==
  ASSUME IInv, UNCHANGED <<inProgress, inFlight, quiet, run>>
  PROVE  FlagsExact'
<1>1. FlagsExact
  BY DEF IInv
<1> QED
  BY <1>1 DEF FlagsExact

-----------------------------------------------------------------------------
(* Lines of the pool.                                                      *)

\* An inference starts.
LEMMA StartKeepsFlags ==
  ASSUME NEW t \in Tasks \cup {None}, IInv, ~inFlight, StartRun([task |-> t, at |-> "infer"]),
         inProgress' = inProgress \cup ({t} \ {None})
  PROVE  FlagsExact' /\ run' \in Run /\ inFlight' \in BOOLEAN /\ quiet' \in BOOLEAN
<1> DEFINE r == [task |-> t, at |-> "infer"]
<1>1. r \in Run /\ r # None /\ r.at = "infer" /\ r.task = t
  BY NoneAssumption DEF Run
<1>2. run' = r /\ inFlight' = TRUE /\ quiet' = TRUE
  BY DEF StartRun
<1>3. run = None
  BY Zenon DEF IInv, FlagsExact
<1>4. inProgress = {}
  BY <1>3 DEF IInv, FlagsExact
<1>5. inProgress' = {run'.task} \ {None}
  BY <1>1, <1>2, <1>4
<1> HIDE DEF r
<1>6. run' # None /\ run'.at = "infer"
  BY <1>1, <1>2
<1>7. FlagsExact'
  BY <1>2, <1>5, <1>6 DEF FlagsExact
<1> QED
  BY <1>1, <1>2, <1>7

\* A job.
LEMMA NotifyIInv ==
  ASSUME IInv, NEW j \in Jobs, HandleNotify(j)
  PROVE  IInv'
<1> DEFINE t == TaskOf[j]
           parsed == t # None /\ t \notin Malformed
<1>1. UNCHANGED <<link, exits, miningDev, ready, lastId, channel, submitter, lock, pending, sent, logger>>
  BY DEF HandleNotify, shares
<1>2. ctr' \in 0 .. CtrRange - 1
  <2>1. ctr' = (ctr + 1) % CtrRange
    BY DEF HandleNotify, CountTemplate
  <2>2. ctr \in Nat /\ CtrRange \in Nat \ {0}
    BY CountersAssumption DEF IInv, TypeOK
  <2> QED
    BY <2>1, <2>2
<1>3. TypeOK
  BY DEF IInv
<1>4. CASE ready /\ parsed /\ Inferable(t)
  <2>1. StartRun([task |-> t, at |-> "infer"]) /\ slot' = j /\ inProgress' = inProgress \cup {t}
        /\ results' = results
    BY <1>4 DEF HandleNotify
  <2>2. t \in Tasks /\ t # None /\ ~inFlight
    BY <1>4, JobsAssumption DEF Inferable
  <2>3. {t} \ {None} = {t}
    BY <2>2
  <2>4. FlagsExact' /\ run' \in Run /\ inFlight' \in BOOLEAN /\ quiet' \in BOOLEAN
    BY <2>1, <2>2, <2>3, StartKeepsFlags
  <2>5. work' = None
    BY <2>1 DEF StartRun
  <2>6. TypeOK'
    BY <1>1, <1>2, <1>3, <2>1, <2>2, <2>4, <2>5 DEF TypeOK
  <2> QED
    BY <1>1, <2>4, <2>6, SharesKept DEF IInv
<1>5. CASE ~(ready /\ parsed /\ Inferable(t))
  <2>1. UNCHANGED <<inProgress, inFlight, quiet, run, results>>
        /\ slot' \in {slot, j, None} /\ work' \in {None, j}
    BY <1>5 DEF HandleNotify, inference
  <2>2. TypeOK'
    BY <1>1, <1>2, <1>3, <2>1 DEF TypeOK
  <2> QED
    BY <1>1, <2>1, <2>2, SharesKept, FlagsKept DEF IInv
<1> QED
  BY <1>4, <1>5

\* A challenge.
LEMMA ChallengeIInv ==
  ASSUME IInv, NEW valid \in BOOLEAN, HandleChallenge(valid)
  PROVE  IInv'
<1>1. UNCHANGED <<link, exits, ctr, miningDev, ready, lastId, channel, submitter, lock, pending,
                  sent, logger, slot, results, inProgress>>
  BY DEF HandleChallenge, connection, shares
<1>2. CASE valid /\ ready
  <2>1. StartRun([task |-> None, at |-> "infer"]) /\ ~inFlight
    BY <1>2 DEF HandleChallenge
  <2>2. FlagsExact' /\ run' \in Run /\ inFlight' \in BOOLEAN /\ quiet' \in BOOLEAN
    BY <1>1, <2>1, StartKeepsFlags
  <2>3. TypeOK'
    BY <1>1, <2>1, <2>2 DEF IInv, TypeOK, StartRun
  <2> QED
    BY <1>1, <2>2, <2>3, SharesKept DEF IInv
<1>3. CASE ~(valid /\ ready)
  <2>1. UNCHANGED <<inFlight, quiet, run, work>>
    BY <1>3 DEF HandleChallenge
  <2>2. TypeOK'
    BY <1>1, <2>1 DEF IInv, TypeOK
  <2> QED
    BY <1>1, <2>1, <2>2, SharesKept, FlagsKept DEF IInv
<1> QED
  BY <1>2, <1>3

\* An answer: it takes one id from both sides, and no share under way has it.
LEMMA AnswerIInv ==
  ASSUME IInv, NEW id \in 1 .. MaxId, NEW kind, HandleAnswer(id, kind)
  PROVE  IInv'
<1>1. CASE Exit
  BY <1>1, ExitIInv DEF IInv
<1>2. CASE ~Exit
  <2>1. /\ lock' = "handler"
        /\ pending' = Without(pending, id)
        /\ sent' = {s \in sent : s.id # id}
        /\ id = 1 \/ \E s \in sent : s.id = id
        /\ UNCHANGED <<link, exits, ctr, miningDev, ready, slot, results, inProgress, inFlight,
                       quiet, run, work, logger, lastId, channel, submitter>>
    BY <1>2 DEF HandleAnswer, connection, inference
  <2>2. DOMAIN pending' = DOMAIN pending \ {id} /\ \A y \in DOMAIN pending' : pending'[y] = pending[y]
    BY <2>1, WithoutEntry
  <2>3. TypeOK'
    <3>1. DOMAIN pending' \subseteq 2 .. MaxId - 1 /\ pending' \in [DOMAIN pending' -> Jobs]
      BY <2>1, <2>2 DEF Without, IInv, TypeOK
    <3> QED
      BY <2>1, <3>1 DEF IInv, TypeOK
  <2>4. submitter.at \in Holding => submitter.id # id
    <3>1. submitter.at \in Holding => submitter.id \in 2 .. MaxId - 1
      BY DEF IInv, TypeOK, Holding
    <3> QED
      BY <2>1, <3>1 DEF IInv, IdInv
  <2>5. IdInv'
    BY <2>1, <2>2, <2>4 DEF IInv, IdInv, Holding
  <2>6. SharesAccounted'
    BY <2>1, <2>2 DEF IInv, SharesAccounted
  <2>7. CidInv' /\ CidBelongsToJob'
    BY <2>1 DEF IInv, CidInv, CidBelongsToJob
  <2> QED
    BY <2>1, <2>3, <2>5, <2>6, <2>7, FlagsKept DEF IInv
<1> QED
  BY <1>1, <1>2

\* A difficulty.
LEMMA DifficultyIInv ==
  ASSUME IInv, NEW d \in Difficulties, SetDifficulty(d)
  PROVE  IInv'
<1>1. CASE TargetPanics(d)
  <2>1. ~TargetTooBig(d)
    <3>1. Start(d) # 3
      BY <1>1 DEF TargetPanics
    <3> QED
      BY <3>1, Zenon DEF TargetTooBig
  <2>2. Exit
    BY <1>1, <2>1, Zenon DEF SetDifficulty
  <2> QED
    BY <2>2, ExitIInv DEF IInv
<1>2. CASE ~TargetPanics(d) /\ TargetTooBig(d)
  BY <1>2, LostIInv DEF SetDifficulty, IInv
<1>3. CASE ~TargetPanics(d) /\ ~TargetTooBig(d)
  <2>1. UNCHANGED <<link, exits, ctr, miningDev, ready, slot, results, inProgress, inFlight, quiet, run,
                    lastId, channel, submitter, lock, pending, sent, work, logger>>
    BY <1>3 DEF SetDifficulty, inference, shares
  <2>2. TypeOK'
    BY <2>1 DEF IInv, TypeOK
  <2> QED
    BY <2>1, <2>2, SharesKept, FlagsKept DEF IInv
<1> QED
  BY <1>1, <1>2, <1>3

\* What a step keeps that changes nothing which the invariant speaks of.
LEMMA AllKept ==
  ASSUME IInv,
         UNCHANGED <<link, exits, ctr, miningDev, slot, results, inProgress, inFlight, quiet, run,
                     lastId, submitter, pending, sent>>,
         ready' \in BOOLEAN, logger' \in BOOLEAN, work' \in Jobs \cup {None},
         channel' \in Jobs \cup {None}, lock' \in {"free", "handler", "submitter", "logger"}
  PROVE  IInv'
<1>1. TypeOK'
  BY DEF IInv, TypeOK
<1> QED
  BY <1>1, SharesKept, FlagsKept DEF IInv

\* Every line of the pool.
LEMMA PoolIInv == IInv /\ Pool => IInv'
<1> SUFFICES ASSUME IInv, Pool PROVE IInv'
  OBVIOUS
<1>1. ASSUME NEW j \in Jobs, HandleNotify(j) PROVE IInv'
  BY <1>1, NotifyIInv
<1>2. ASSUME NEW valid \in BOOLEAN, HandleChallenge(valid) PROVE IInv'
  BY <1>2, ChallengeIInv
<1>3. ASSUME NEW id \in 1 .. MaxId, NEW kind, HandleAnswer(id, kind) PROVE IInv'
  BY <1>3, AnswerIInv
<1>4. ASSUME NEW d \in Difficulties, SetDifficulty(d) PROVE IInv'
  BY <1>4, DifficultyIInv
<1>5. ASSUME NEW x \in Extranonces, SetExtranonce(x) PROVE IInv'
  <2>1. UNCHANGED <<link, exits, ctr, miningDev, ready, slot, results, inProgress, inFlight, quiet, run,
                    lastId, channel, submitter, lock, pending, sent, work, logger>>
    BY <1>5 DEF SetExtranonce, inference, shares
  <2> QED
    BY <2>1, AllKept DEF IInv, TypeOK
<1>6. ASSUME ConnectionEnds PROVE IInv'
  BY <1>6, LostIInv DEF ConnectionEnds, IInv
<1> QED
  BY <1>1, <1>2, <1>3, <1>4, <1>5, <1>6 DEF Pool

-----------------------------------------------------------------------------
(* The submitting task.                                                    *)

\* A share gets an id that nobody has; whatever an earlier connection left under it goes.
LEMMA TakeIInv ==
  ASSUME IInv, TakeShare
  PROVE  IInv'
<1>1. /\ link = "up" /\ channel \in Jobs /\ submitter.at = "idle" /\ lastId < MaxId
      /\ lastId' = lastId + 1 /\ channel' = None
      /\ UNCHANGED <<link, exits, ctr, miningDev, ready, slot, results, inProgress, inFlight, quiet,
                     run, work, logger, sent>>
  BY DEF IInv, TypeOK, TakeShare, connection, inference
<1>2. lastId \in 2 .. MaxId - 1 /\ lastId' \in 0 .. MaxId /\ lastId' >= 2
  BY <1>1, CountersAssumption DEF IInv, TypeOK, IdInv
<1>3. \A s \in sent : s.id \in 2 .. MaxId - 1 /\ s.id < lastId
  BY DEF IInv, TypeOK, IdInv, Share
<1>4. CASE lock # "free"
  <2>1. submitter' = [at |-> "dead"] /\ UNCHANGED <<lock, pending>>
    BY <1>4 DEF TakeShare
  <2>2. TypeOK'
    BY <1>1, <1>2, <2>1 DEF IInv, TypeOK
  <2>3. IdInv' /\ CidInv'
    BY <1>1, <1>2, <1>3, <2>1 DEF IdInv, CidInv, Holding
  <2>4. SharesAccounted' /\ CidBelongsToJob'
    BY <1>1, <2>1 DEF IInv, SharesAccounted, CidBelongsToJob
  <2> QED
    BY <1>1, <2>2, <2>3, <2>4, FlagsKept DEF IInv
<1>5. CASE lock = "free"
  <2>1. /\ submitter' = [at |-> "insert", id |-> lastId, job |-> channel]
        /\ lock' = "submitter" /\ pending' = With(pending, lastId, channel)
    BY <1>5 DEF TakeShare
  <2>2. DOMAIN pending' = DOMAIN pending \cup {lastId} /\ pending'[lastId] = channel
        /\ \A y \in DOMAIN pending \ {lastId} : pending'[y] = pending[y]
    <3> DEFINE after == With(pending, lastId, channel)
    <3>1. /\ DOMAIN after = DOMAIN pending \cup {lastId}
          /\ after[lastId] = channel
          /\ \A y \in DOMAIN pending \ {lastId} : after[y] = pending[y]
      BY DEF With
    <3>2. pending' = after
      BY <2>1
    <3> HIDE DEF after
    <3> QED
      BY <3>1, <3>2
  <2>3. TypeOK'
    <3>1. DOMAIN pending' \subseteq 2 .. MaxId - 1 /\ pending' \in [DOMAIN pending' -> Jobs]
      BY <1>1, <1>2, <2>1, <2>2 DEF With, IInv, TypeOK
    <3> QED
      BY <1>1, <1>2, <2>1, <3>1 DEF IInv, TypeOK
  <2>4. IdInv' /\ CidInv'
    <3>1. submitter'.at = "insert" /\ submitter'.id = lastId /\ submitter'.job = channel
      BY <2>1
    <3>2. \A s \in sent : s.id < lastId' /\ s.id # lastId
      BY <1>1, <1>2, <1>3
    <3> QED
      BY <1>1, <1>2, <2>2, <3>1, <3>2 DEF IdInv, CidInv, Holding
  <2>5. SharesAccounted'
    <3>1. \A s \in sent : s.id \in DOMAIN pending \ {lastId}
      BY <1>2, <1>3 DEF IInv, SharesAccounted
    <3> QED
      BY <1>1, <2>2, <3>1 DEF IInv, SharesAccounted
  <2>6. CidBelongsToJob'
    BY <1>1 DEF IInv, CidBelongsToJob
  <2> QED
    BY <1>1, <2>3, <2>4, <2>5, <2>6, FlagsKept DEF IInv
<1> QED
  BY <1>4, <1>5

\* The share that the task has in its hands.
LEMMA HeldType ==
  ASSUME IInv, submitter.at \in Holding
  PROVE  submitter.id \in 2 .. MaxId - 1 /\ submitter.job \in Jobs
  BY DEF IInv, TypeOK, Holding

\* The mutex is given back.
LEMMA InsertedIInv ==
  ASSUME IInv, FinishInsert
  PROVE  IInv'
<1>1. submitter.at = "insert" /\ submitter \in [at : {"insert", "look"}, id : 2 .. MaxId - 1, job : Jobs]
  BY DEF IInv, TypeOK, FinishInsert
<1>2. /\ submitter' = [submitter EXCEPT !.at = "look"] /\ lock' = "free"
      /\ UNCHANGED <<link, exits, ctr, miningDev, ready, slot, results, inProgress, inFlight, quiet,
                     run, work, logger, lastId, channel, pending, sent>>
  BY DEF FinishInsert, connection, inference
<1>3. submitter' \in [at : {"insert", "look"}, id : 2 .. MaxId - 1, job : Jobs]
      /\ submitter'.at = "look" /\ submitter'.id = submitter.id /\ submitter'.job = submitter.job
  BY <1>1, <1>2
<1>4. TypeOK'
  BY <1>2, <1>3 DEF IInv, TypeOK
<1>5. IdInv' /\ CidInv'
  BY <1>1, <1>2, <1>3 DEF IInv, IdInv, CidInv, Holding
<1>6. SharesAccounted' /\ CidBelongsToJob'
  BY <1>2 DEF IInv, SharesAccounted, CidBelongsToJob
<1> QED
  BY <1>2, <1>4, <1>5, <1>6, FlagsKept DEF IInv

\* The CID is read for the job of the share.
LEMMA LookIInv ==
  ASSUME IInv, LookUpCid
  PROVE  IInv'
<1> DEFINE c == CidFor(submitter.job)
<1>1. submitter.at = "look" /\ submitter.id \in 2 .. MaxId - 1 /\ submitter.job \in Jobs
  BY HeldType DEF LookUpCid, Holding
<1>2. /\ submitter' = [at |-> "send", id |-> submitter.id, job |-> submitter.job, cid |-> c]
      /\ UNCHANGED <<link, exits, ctr, miningDev, ready, slot, results, inProgress, inFlight, quiet,
                     run, work, logger, lastId, channel, lock, pending, sent>>
  BY DEF LookUpCid, connection, inference
<1>3. c \in Tasks \cup {None} /\ c \in {None, TaskOf[submitter.job]}
  BY <1>1, JobsAssumption DEF CidFor
<1> HIDE DEF c
<1>4. submitter'.at = "send" /\ submitter'.id = submitter.id /\ submitter'.job = submitter.job
      /\ submitter'.cid = c
  BY <1>2
<1>5. TypeOK'
  BY <1>1, <1>2, <1>3 DEF IInv, TypeOK
<1>6. IdInv' /\ CidInv'
  BY <1>1, <1>2, <1>3, <1>4 DEF IInv, IdInv, CidInv, Holding
<1>7. SharesAccounted' /\ CidBelongsToJob'
  BY <1>2 DEF IInv, SharesAccounted, CidBelongsToJob
<1> QED
  BY <1>2, <1>5, <1>6, <1>7, FlagsKept DEF IInv

\* The share goes out, with the entry that was made for it.
LEMMA SendIInv ==
  ASSUME IInv, SendShare
  PROVE  IInv'
<1> DEFINE share == [id |-> submitter.id, job |-> submitter.job, cid |-> submitter.cid]
<1>1. submitter.at = "send" /\ share \in Share
  BY DEF IInv, TypeOK, SendShare, Share
<1>2. /\ sent' = sent \cup {share} /\ submitter' = Idle
      /\ UNCHANGED <<link, exits, ctr, miningDev, ready, slot, results, inProgress, inFlight, quiet,
                     run, work, logger, lastId, channel, lock, pending>>
  BY DEF SendShare, connection, inference
<1>3. /\ share.id < lastId /\ share.id \in DOMAIN pending /\ pending[share.id] = share.job
      /\ share.cid \in {None, TaskOf[share.job]}
  BY <1>1 DEF IInv, IdInv, CidInv, Holding
<1> HIDE DEF share
<1>4. submitter'.at = "idle"
  BY <1>2 DEF Idle
<1>5. TypeOK'
  BY <1>1, <1>2 DEF IInv, TypeOK, Idle
<1>6. IdInv' /\ CidInv'
  BY <1>2, <1>3, <1>4 DEF IInv, IdInv, CidInv, Holding
<1>7. SharesAccounted' /\ CidBelongsToJob'
  BY <1>2, <1>3 DEF IInv, SharesAccounted, CidBelongsToJob
<1> QED
  BY <1>2, <1>5, <1>6, <1>7, FlagsKept DEF IInv

-----------------------------------------------------------------------------
(* The inference thread.                                                   *)

\* What a step of the inference thread leaves alone.
LEMMA ThreadIInv ==
  ASSUME IInv, UNCHANGED <<connection, shares, work, logger, slot>>,
         FlagsExact', results' \subseteq Tasks, inProgress' \subseteq Tasks,
         inFlight' \in BOOLEAN, quiet' \in BOOLEAN, run' \in {None} \cup Run
  PROVE  IInv'
<1>1. UNCHANGED <<link, exits, ctr, miningDev, ready, lastId, channel, submitter, lock, pending,
                  sent, work, logger, slot>>
  BY DEF connection, shares
<1>2. TypeOK'
  BY <1>1 DEF IInv, TypeOK
<1> QED
  BY <1>1, <1>2, SharesKept DEF IInv

\* Inference and upload are over.
LEMMA EndsIInv ==
  ASSUME IInv, NEW ok \in BOOLEAN, InferenceEnds(ok)
  PROVE  IInv'
<1>1. run \in Run /\ run # None /\ run.at = "infer"
  BY DEF IInv, TypeOK, InferenceEnds
<1>2. /\ run' = [run EXCEPT !.at = "done"] /\ inProgress' = inProgress \ {run.task}
      /\ UNCHANGED <<connection, shares, work, logger, slot, inFlight, quiet>>
  BY DEF InferenceEnds
<1>3. run' \in Run /\ run' # None /\ run'.at = "done"
  BY <1>1, <1>2, NoneAssumption DEF Run
<1>4. inProgress' = {}
  <2>1. inProgress = {run.task} \ {None}
    BY <1>1 DEF IInv, FlagsExact
  <2> QED
    BY <1>2, <2>1
<1>5. inFlight' = TRUE /\ quiet' = TRUE
  <2>1. inFlight = TRUE /\ quiet = TRUE
    BY <1>1 DEF IInv, FlagsExact
  <2> QED
    BY <1>2, <2>1
<1>6. FlagsExact'
  BY <1>3, <1>4, <1>5 DEF FlagsExact
<1>7. results' \subseteq Tasks
  <2>1. results \subseteq Tasks /\ run.task \in Tasks \cup {None}
    BY <1>1 DEF IInv, TypeOK, Run
  <2> QED
    BY <2>1 DEF InferenceEnds
<1> QED
  BY <1>2, <1>3, <1>4, <1>5, <1>6, <1>7, ThreadIInv

\* Mining may be watched again.
LEMMA QuietIInv ==
  ASSUME IInv, ClearQuiet
  PROVE  IInv'
<1>1. run \in Run /\ run # None /\ run.at = "done"
  BY DEF IInv, TypeOK, ClearQuiet
<1>2. /\ run' = [run EXCEPT !.at = "quiet"] /\ quiet' = FALSE
      /\ UNCHANGED <<connection, shares, work, logger, slot, results, inProgress, inFlight>>
  BY DEF ClearQuiet
<1>3. run' \in Run /\ run' # None /\ run'.at = "quiet"
  BY <1>1, <1>2, NoneAssumption DEF Run
<1>4. inProgress' = {} /\ inFlight' = TRUE
  <2>1. inProgress = {} /\ inFlight = TRUE
    BY <1>1 DEF IInv, FlagsExact
  <2> QED
    BY <1>2, <2>1
<1>5. FlagsExact'
  BY <1>2, <1>3, <1>4 DEF FlagsExact
<1>6. results' \subseteq Tasks
  BY <1>2 DEF IInv, TypeOK
<1> QED
  BY <1>2, <1>3, <1>4, <1>5, <1>6, ThreadIInv

\* The next inference may start.
LEMMA InFlightIInv ==
  ASSUME IInv, ClearInFlight
  PROVE  IInv'
<1>1. run # None /\ run.at = "quiet"
  BY DEF ClearInFlight
<1>2. /\ run' = None /\ inFlight' = FALSE
      /\ UNCHANGED <<connection, shares, work, logger, slot, results, inProgress, quiet>>
  BY DEF ClearInFlight
<1>3. inProgress' = {} /\ quiet' = FALSE
  <2>1. inProgress = {} /\ quiet = FALSE
    BY <1>1 DEF IInv, FlagsExact
  <2> QED
    BY <1>2, <2>1
<1>4. FlagsExact'
  BY <1>2, <1>3 DEF FlagsExact
<1>5. results' \subseteq Tasks
  BY <1>2 DEF IInv, TypeOK
<1> QED
  BY <1>2, <1>3, <1>4, <1>5, ThreadIInv

-----------------------------------------------------------------------------
(* Every step, and the theorems.                                           *)

LEMMA StepIInv == IInv /\ [Next]_vars => IInv'
<1> SUFFICES ASSUME IInv, [Next]_vars PROVE IInv'
  OBVIOUS
<1> USE DEF IInv
<1>1. CASE Pool
  BY <1>1, PoolIInv
<1>2. CASE Connect
  BY <1>2, ConnectIInv
<1>3. CASE ListenReturns
  BY <1>3, LostIInv DEF ListenReturns
<1>4. CASE FinishAnswer
  <2>1. UNCHANGED <<link, exits, ctr, miningDev, ready, slot, results, inProgress, inFlight, quiet, run,
                    lastId, channel, submitter, pending, sent, work, logger>> /\ lock' = "free"
    BY <1>4 DEF FinishAnswer, connection, inference
  <2> QED
    BY <2>1, AllKept DEF TypeOK
<1>5. CASE Submitter
  BY <1>5, TakeIInv, InsertedIInv, LookIInv, SendIInv DEF Submitter
<1>6. CASE Logger
  <2>1. UNCHANGED <<link, exits, ctr, miningDev, ready, slot, results, inProgress, inFlight, quiet, run,
                    lastId, channel, submitter, pending, sent, work>>
        /\ lock' \in {lock, "logger", "free"} /\ logger' \in {logger, FALSE}
    BY <1>6 DEF Logger, LogTick, LogDone, connection, inference
  <2> QED
    BY <2>1, AllKept DEF TypeOK
<1>7. CASE Inference
  BY <1>7, EndsIInv, QuietIInv, InFlightIInv DEF Inference
<1>8. CASE FindShare
  <2>1. UNCHANGED <<link, exits, ctr, miningDev, ready, slot, results, inProgress, inFlight, quiet, run,
                    lastId, submitter, lock, pending, sent, work, logger>> /\ channel' = work
    BY <1>8 DEF FindShare, connection, inference
  <2> QED
    BY <2>1, AllKept DEF TypeOK
<1>9. CASE FilesChange
  <2>1. UNCHANGED <<link, exits, ctr, miningDev, slot, results, inProgress, inFlight, quiet, run,
                    lastId, channel, submitter, lock, pending, sent, work, logger>> /\ ready' = ~ready
    BY <1>9 DEF FilesChange, inference, shares
  <2>2. ready' \in BOOLEAN
    BY <2>1
  <2> QED
    BY <2>1, <2>2, AllKept DEF TypeOK
<1>10. CASE UNCHANGED vars
  <2>1. UNCHANGED <<link, exits, ctr, miningDev, ready, slot, results, inProgress, inFlight, quiet, run,
                    lastId, channel, submitter, lock, pending, sent, work, logger>>
    BY <1>10 DEF vars, connection, inference, shares
  <2> QED
    BY <2>1, AllKept DEF TypeOK
<1> QED
  BY <1>1, <1>2, <1>3, <1>4, <1>5, <1>6, <1>7, <1>8, <1>9, <1>10 DEF Next, Handler

\* The inductive invariant holds of every behaviour, with the fairness or without.
THEOREM StratumInvariant == Spec => []IInv
  BY InitIInv, StepIInv, PTL DEF Spec

\* Every variable keeps its type: ids never pass their bound, the devfund counter its
\* range, and the map of pending shares (stratum.rs:318) has none but shares in it.
THEOREM StratumTypeCorrect == Spec => []TypeOK
<1>1. IInv => TypeOK
  BY DEF IInv
<1> QED
  BY <1>1, StratumInvariant, PTL

\* Whatever a pool answers to a share that it was sent finds the share as pending, across
\* any number of connections (stratum.rs:384, 534): its rejection never panics.
THEOREM AnswersFindShares == Spec => []SharesAccounted
<1>1. IInv => SharesAccounted
  BY DEF IInv
<1> QED
  BY <1>1, StratumInvariant, PTL

\* No share goes out with the CID of another job's task (stratum.rs:323-335), however
\* jobs, results and shares interleave.
THEOREM CidsBelong == Spec => []CidBelongsToJob
<1>1. IInv => CidBelongsToJob
  BY DEF IInv
<1> QED
  BY <1>1, StratumInvariant, PTL

\* challenge_in_flight, opoi_challenge_flag and in_progress are set exactly while the
\* inference they stand for runs (stratum.rs:621-642, 718-746).
THEOREM FlagsFollowInference == Spec => []FlagsExact
<1>1. IInv => FlagsExact
  BY DEF IInv
<1> QED
  BY <1>1, StratumInvariant, PTL

-----------------------------------------------------------------------------
(* What the pool assigns.                                                  *)

\* Where the target of a difficulty lies.
LEMMA Places ==
  ASSUME NEW d \in Difficulties, ~TargetPanics(d)
  PROVE  /\ Product(d) \in Nat /\ Product(d) < WordSize
         /\ Start(d) \in 0 .. 3 /\ Remainder(d) \in 0 .. WordBits - 1
         /\ Position(d) = Start(d) * WordBits + Remainder(d)
<1>1. WordBits \in Nat \ {0} /\ BaseMantissa \in Nat /\ BaseExponent \in Nat
      /\ d.mantissa \in Nat /\ d.exponent \in Int
  BY WordsAssumption
<1>2. Product(d) \in Nat
  BY <1>1 DEF Product
<1>3. Position(d) \in Int
  BY <1>1 DEF Position
<1>4. /\ Position(d) = WordBits * Start(d) + Remainder(d)
      /\ Remainder(d) \in 0 .. WordBits - 1 /\ Start(d) \in Int
  BY <1>1, <1>3, Division DEF Start, Remainder
<1>5. Start(d) \in 0 .. 3
  BY DEF TargetPanics
<1>6. WordBits * Start(d) = Start(d) * WordBits
  BY <1>1, <1>4
<1> QED
  BY <1>2, <1>4, <1>5, <1>6, ProductAssumption

\* set_difficulty: whichever words the target spans.
LEMMA TargetsExact ==
  ASSUME NEW d \in Difficulties, ~TargetPanics(d), ~TargetTooBig(d)
  PROVE  TargetExact(d, TargetWords(d))
<1> DEFINE p == Product(d)
           s == Start(d)
           e == Remainder(d)
           words == TargetWords(d)
<1>1. SUFFICES ASSUME ~WholeWord(d) PROVE Number(words) = p * Power[Position(d)]
  BY DEF TargetExact
<1>2. p \in Nat /\ p < WordSize /\ s \in 0 .. 3 /\ e \in 0 .. WordBits - 1
      /\ Position(d) = s * WordBits + e /\ WordBits \in Nat \ {0}
  BY Places, WordsAssumption
<1>3. /\ Power[e] \in Nat \ {0} /\ WordSize \in Nat \ {0} /\ WordSize = Power[WordBits]
      /\ Power[s * WordBits] \in Nat /\ s * WordBits \in Nat /\ e \in Nat
  <2>1. e \in Nat /\ s * WordBits \in Nat
    BY <1>2
  <2> QED
    BY <1>2, <2>1, PowerRecursion DEF WordSize
<1>4. Power[Position(d)] = Power[s * WordBits] * Power[e]
  BY <1>2, <1>3, PowerSum
<1>5. e % WordBits = e
  BY <1>2
<1>6. words[s] = (p * Power[e]) % WordSize
  BY <1>2, <1>5 DEF TargetWords, ShiftLeft
<1>7. \A i \in 0 .. 3 : i # s /\ i # s + 1 => words[i] = 0
  BY DEF TargetWords
<1>8. /\ Power[0 * WordBits] = 1 /\ Power[1 * WordBits] = WordSize
      /\ Power[2 * WordBits] = WordSize * WordSize
      /\ Power[3 * WordBits] = WordSize * (WordSize * WordSize)
  <2>1. 2 * WordBits \in Nat /\ 2 * WordBits = WordBits + WordBits
        /\ 3 * WordBits = WordBits + 2 * WordBits /\ 0 * WordBits = 0 /\ 1 * WordBits = WordBits
    BY <1>2
  <2>2. Power[2 * WordBits] = WordSize * WordSize
    BY <1>2, <1>3, <2>1, PowerSum
  <2>3. Power[3 * WordBits] = WordSize * (WordSize * WordSize)
    BY <1>2, <1>3, <2>1, <2>2, PowerSum
  <2> QED
    BY <1>3, <2>1, <2>2, <2>3, PowerRecursion
<1>9. Number(words) = words[0] + words[1] * WordSize + words[2] * (WordSize * WordSize)
                        + words[3] * (WordSize * (WordSize * WordSize))
  BY <1>3, <1>8 DEF Number
<1> HIDE DEF words, p, s, e
<1>10. CASE s = 3
  <2>1. p * Power[e] \in Nat /\ p * Power[e] < WordSize
    <3>1. ~(p * Power[e] >= WordSize)
      BY <1>10 DEF TargetTooBig, s, p, e
    <3>2. p * Power[e] \in Nat
      BY <1>2, <1>3
    <3> QED
      BY <1>3, <3>1, <3>2
  <2>2. words[3] = p * Power[e]
    BY <1>3, <1>6, <1>10, <2>1
  <2>3. words[0] = 0 /\ words[1] = 0 /\ words[2] = 0
    BY <1>7, <1>10
  <2>4. Number(words) = words[3] * (WordSize * (WordSize * WordSize))
    BY <1>3, <1>9, <2>1, <2>2, <2>3
  <2>5. Power[Position(d)] = (WordSize * (WordSize * WordSize)) * Power[e]
    BY <1>4, <1>8, <1>10
  <2> QED
    BY <1>2, <1>3, <2>2, <2>4, <2>5
<1>11. CASE s # 3
  <2>1. s \in 0 .. 2 /\ e # 0
    BY <1>1, <1>2, <1>11 DEF WholeWord, s, e
  <2> DEFINE b == Power[WordBits - e]
  <2>2. WordBits - e \in Nat /\ WordBits - e < WordBits /\ e + (WordBits - e) = WordBits
    BY <1>2, <2>1
  <2>3. b \in Nat \ {0} /\ Power[e] * b = WordSize
    BY <1>3, <2>2, PowerRecursion, PowerSum
  <2>4. (WordBits - e) % WordBits = WordBits - e
    BY <1>2, <2>2
  <2>5. words[s + 1] = p \div b
    BY <2>1, <2>4 DEF words, TargetWords, ShiftRight, s, p, e
  <2> HIDE DEF b
  <2>6. words[s] + words[s + 1] * WordSize = p * Power[e]
    <3>1. ((p * Power[e]) % (Power[e] * b)) + (p \div b) * (Power[e] * b) = p * Power[e]
      BY <1>2, <1>3, <2>3, Halves
    <3> QED
      BY <1>6, <2>3, <2>5, <3>1
  <2>7. words[s] \in Nat /\ words[s + 1] \in Nat
    <3>1. p * Power[e] \in Nat
      BY <1>2, <1>3
    <3> QED
      BY <1>2, <1>3, <1>6, <2>3, <2>5, <3>1
  <2>8. CASE s = 0
    <3>1. Number(words) = words[0] + words[1] * WordSize
      BY <1>3, <1>7, <1>9, <2>7, <2>8
    <3> QED
      BY <1>2, <1>3, <1>4, <1>8, <2>6, <2>8, <3>1
  <2>9. CASE s = 1
    <3>1. Number(words) = words[1] * WordSize + words[2] * (WordSize * WordSize)
      BY <1>3, <1>7, <1>9, <2>7, <2>9
    <3>2. Number(words) = (words[1] + words[2] * WordSize) * WordSize
      BY <1>3, <2>7, <2>9, <3>1
    <3> QED
      BY <1>2, <1>3, <1>4, <1>8, <2>6, <2>9, <3>2
  <2>10. CASE s = 2
    <3>1. Number(words) = words[2] * (WordSize * WordSize)
                            + words[3] * (WordSize * (WordSize * WordSize))
      BY <1>3, <1>7, <1>9, <2>7, <2>10
    <3>2. Number(words) = (words[2] + words[3] * WordSize) * (WordSize * WordSize)
      BY <1>3, <2>7, <2>10, <3>1
    <3> QED
      BY <1>2, <1>3, <1>4, <1>8, <2>6, <2>10, <3>2
  <2> QED
    BY <2>1, <2>8, <2>9, <2>10
<1> QED
  BY <1>10, <1>11 DEF p

\* set_extranonce: the fixed part and the mask.
LEMMA RangesExact ==
  ASSUME NEW x \in Extranonces
  PROVE  RangeExact(x, NonceFixed(x), NonceMask(x))
<1> DEFINE n == NonceBits(x)
<1>1. SUFFICES ASSUME ~FullWidth(x)
               PROVE  /\ Fits(x) => NonceFixed(x) = x.value * Power[n]
                      /\ NonceMask(x) = Power[n] - 1
  BY DEF RangeExact
<1>2. n \in Nat /\ WordBits \in Nat \ {0} /\ n < WordBits /\ x.value \in Nat
  <2>1. x.size \in Nat /\ x.value \in Nat /\ ByteBits \in Nat /\ WordBits \in Nat \ {0}
    BY WordsAssumption
  <2> QED
    BY <1>1, <2>1 DEF FullWidth, NonceBits
<1>3. n % WordBits = n /\ Power[n] \in Nat \ {0} /\ WordSize \in Nat /\ Power[n] < WordSize
  <2>1. n % WordBits = n
    BY <1>2
  <2>2. Power[n] \in Nat \ {0} /\ WordSize \in Nat
    BY <1>2, PowerRecursion DEF WordSize
  <2>3. 2 * Power[n] <= WordSize
    BY <1>2, PowerGrows DEF WordSize
  <2> QED
    BY <2>1, <2>2, <2>3
<1> HIDE DEF n
<1>4. Fits(x) => NonceFixed(x) = x.value * Power[n]
  <2>1. x.value * Power[n] \in Nat
    BY <1>2, <1>3
  <2> QED
    BY <1>3, <2>1 DEF Fits, NonceFixed, ShiftLeft, n
<1>5. ShiftLeft(1, n) = Power[n]
  BY <1>3 DEF ShiftLeft
<1>6. NonceMask(x) = Power[n] - 1
  <2>1. Power[n] - 1 \in Nat /\ Power[n] - 1 < WordSize
    BY <1>3
  <2> QED
    BY <1>3, <1>5, <2>1 DEF NonceMask, n
<1> QED
  BY <1>4, <1>6

-----------------------------------------------------------------------------
(* The numbers the pool assigned are kept as they were computed.           *)

\* What SetDifficulty and SetExtranonce leave behind.
TargetSetting(d) == [asked |-> d, words |-> TargetWords(d)]
RangeSetting(x) == [asked |-> x, fixed |-> NonceFixed(x), mask |-> NonceMask(x)]

Representable == {d \in Difficulties : ~TargetPanics(d) /\ ~TargetTooBig(d)}

SettingKept ==
  \/ setting = None
  \/ \E d \in Representable : setting = TargetSetting(d)
  \/ \E x \in Extranonces : setting = RangeSetting(x)

LEMMA SettingStep == SettingKept /\ [Next]_vars => SettingKept'
<1> SUFFICES ASSUME SettingKept, [Next]_vars PROVE SettingKept'
  OBVIOUS
<1>1. ASSUME setting' = None PROVE SettingKept'
  BY <1>1 DEF SettingKept
<1>2. ASSUME UNCHANGED setting PROVE SettingKept'
  BY <1>2 DEF SettingKept
<1>3. CASE Pool
  <2>1. CASE \E j \in Jobs : HandleNotify(j)
    BY <1>1, <2>1 DEF HandleNotify
  <2>2. CASE \E valid \in BOOLEAN : HandleChallenge(valid)
    BY <1>2, <2>2 DEF HandleChallenge, connection
  <2>3. CASE \E id \in 1 .. MaxId, kind \in {"accepted", "rejected"} : HandleAnswer(id, kind)
    BY <1>1, <1>2, <2>3 DEF HandleAnswer, Exit, FreshConnection, connection
  <2>4. CASE \E d \in Difficulties : SetDifficulty(d)
    <3>1. PICK d \in Difficulties : SetDifficulty(d)
      BY <2>4
    <3>2. CASE TargetPanics(d) \/ TargetTooBig(d)
      BY <1>1, <3>1, <3>2 DEF SetDifficulty, Exit, Lost, FreshConnection
    <3>3. CASE ~TargetPanics(d) /\ ~TargetTooBig(d)
      <4>1. setting' = TargetSetting(d) /\ d \in Representable
        BY <3>1, <3>3 DEF SetDifficulty, TargetSetting, Representable
      <4> QED
        BY <4>1 DEF SettingKept
    <3> QED
      BY <3>2, <3>3
  <2>5. CASE \E x \in Extranonces : SetExtranonce(x)
    <3>1. PICK x \in Extranonces : setting' = RangeSetting(x)
      BY <2>5 DEF SetExtranonce, RangeSetting
    <3> QED
      BY <3>1 DEF SettingKept
  <2>6. CASE ConnectionEnds
    BY <1>1, <2>6 DEF ConnectionEnds, Lost, FreshConnection
  <2> QED
    BY <1>3, <2>1, <2>2, <2>3, <2>4, <2>5, <2>6 DEF Pool
<1>4. CASE Handler
  BY <1>1, <1>2, <1>4
     DEF Handler, Connect, ListenReturns, Lost, FreshConnection, FinishAnswer, connection
<1>5. CASE Submitter
  BY <1>2, <1>5 DEF Submitter, TakeShare, FinishInsert, LookUpCid, SendShare, connection
<1>6. CASE Logger
  BY <1>2, <1>6 DEF Logger, LogTick, LogDone, connection
<1>7. CASE Inference
  BY <1>2, <1>7 DEF Inference, InferenceEnds, ClearQuiet, ClearInFlight, connection
<1>8. CASE FindShare
  BY <1>2, <1>8 DEF FindShare, connection
<1>9. CASE FilesChange
  BY <1>2, <1>9 DEF FilesChange
<1>10. CASE UNCHANGED vars
  BY <1>2, <1>10 DEF vars, connection
<1> QED
  BY <1>3, <1>4, <1>5, <1>6, <1>7, <1>8, <1>9, <1>10 DEF Next

\* What was kept is exact.
LEMMA KeptIsExact == SettingKept => SettingsExact
<1> SUFFICES ASSUME SettingKept, setting # None PROVE SettingsExact
  BY DEF SettingsExact
<1>1. \A d \in Difficulties, x \in Extranonces : d # x
  <2> SUFFICES ASSUME NEW d \in Difficulties, NEW x \in Extranonces, d = x PROVE FALSE
    OBVIOUS
  <2>1. d \in [mantissa : Nat, exponent : Int] /\ x \in [value : Nat, size : Nat]
    BY WordsAssumption
  <2>2. "size" \in DOMAIN x /\ "size" \notin DOMAIN d
    BY <2>1
  <2> QED
    BY <2>2
<1>2. CASE \E d \in Representable : setting = TargetSetting(d)
  <2>1. PICK d \in Representable : setting = TargetSetting(d)
    BY <1>2
  <2>2. d \in Difficulties /\ TargetExact(d, TargetWords(d))
    BY TargetsExact DEF Representable
  <2>3. setting.asked = d /\ setting.words = TargetWords(d)
    BY <2>1 DEF TargetSetting
  <2> QED
    BY <1>1, <2>2, <2>3 DEF SettingsExact
<1>3. CASE \E x \in Extranonces : setting = RangeSetting(x)
  <2>1. PICK x \in Extranonces : setting = RangeSetting(x)
    BY <1>3
  <2>2. RangeExact(x, NonceFixed(x), NonceMask(x))
    BY RangesExact
  <2>3. setting.asked = x /\ setting.fixed = NonceFixed(x) /\ setting.mask = NonceMask(x)
    BY <2>1 DEF RangeSetting
  <2> QED
    BY <1>1, <2>2, <2>3 DEF SettingsExact
<1> QED
  BY <1>2, <1>3 DEF SettingKept

\* Whatever words a target spans and whatever the width of a word is, the target and the
\* nonce range of the next jobs are those of the difficulty and the extranonce that the
\* pool assigned last (stratum.rs:573-588, 596-598).
THEOREM SettingsArriveExact == Spec => []SettingsExact
<1>1. Init => SettingKept
  BY DEF Init, SettingKept
<1>2. Spec => []SettingKept
  BY <1>1, SettingStep, PTL DEF Spec
<1> QED
  BY <1>2, KeptIsExact, PTL
=============================================================================
