------------------------- MODULE MinerWorkers_proofs -------------------------
(***************************************************************************)
(* The workers and their manager, for any number of threads, any commands  *)
(* and every interleaving: a worker works on what it was told last, and    *)
(* the manager knows what the workers will find in the channel.            *)
(***************************************************************************)
EXTENDS MinerWorkers, FiniteSetTheorems, SequenceTheorems, TLAPS

-----------------------------------------------------------------------------
(* The inductive invariant.                                                *)

Commands == Jobs \cup {None, CloseCommand}

\* A worker with a job has been told something.
Told == \A w \in Workers : state[w] # 0 => seen[w] # 0

\* There is always room for the command that ends.
Room == manager \in {"open", "closing"} => published <= MaxCommands

IInv == TypeOK /\ WorksOnLastCommand /\ Told /\ Room

\* The types of what a step of a worker changes.
ThreadType ==
  /\ calling \in [Workers -> {"absent", "no", "wait", "poll"}]
  /\ pc \in [Workers -> {"top", "found", "poll", "exit", "dead"}]
  /\ nonceOf \in [Workers -> 0..published]
  /\ nonce \in [Workers -> 0..(PollEvery - 1)]
  /\ outgoing \in {0, 1} /\ forwarding \in BOOLEAN

\* What a worker may work on, of rank s, if the last command it has seen is of rank n.
Fits(w, s, n) ==
  s # 0 => /\ commands[s] \in Jobs /\ n # 0
           /\ s = n \/ (w \in GpuWorkers /\ commands[n] = None)

\* Told and WorksOnLastCommand, worker by worker.
LEMMA FitsAll ==
  ASSUME IInv, NEW w \in Workers
  PROVE  Fits(w, state[w], seen[w]) /\ state[w] \in 0..published /\ seen[w] \in 0..published
  BY DEF IInv, TypeOK, WorksOnLastCommand, Told, Fits, JobOf

-----------------------------------------------------------------------------
(* Steps of a worker.                                                      *)

\* What a step of a worker has to show: its job fits.
LEMMA WorkerKeeps ==
  ASSUME IInv, NEW w \in Workers, NEW s \in 0..published, NEW n \in 0..published, Fits(w, s, n),
         state' = [state EXCEPT ![w] = s], seen' = [seen EXCEPT ![w] = n],
         ThreadType',
         UNCHANGED <<published, open, commands, slow, connected, manager, handles, isSynced>>
  PROVE  IInv'
<1>1. /\ state' \in [Workers -> 0..published] /\ seen' \in [Workers -> 0..published]
      /\ \A v \in Workers : Fits(v, state'[v], seen'[v])
  <2>1. state \in [Workers -> 0..published] /\ seen \in [Workers -> 0..published]
    BY DEF IInv, TypeOK
  <2>2. \A v \in Workers : Fits(v, state[v], seen[v])
    BY FitsAll
  <2> QED
    BY <2>1, <2>2
<1>2. TypeOK'
  BY <1>1 DEF IInv, TypeOK, ThreadType, JobOf, Fits
<1>3. WorksOnLastCommand' /\ Told' /\ Room'
  BY <1>1 DEF IInv, WorksOnLastCommand, Told, Room, Fits
<1> QED
  BY <1>2, <1>3 DEF IInv

\* What leaves job and news alone.
LEMMA SameJob ==
  ASSUME IInv, ThreadType',
         UNCHANGED <<published, open, seen, commands, state, slow, connected, manager, handles,
                     isSynced>>
  PROVE  IInv'
  BY DEF IInv, TypeOK, ThreadType, WorksOnLastCommand, Told, Room, JobOf

\* A worker asks the channel.
LEMMA Asks ==
  ASSUME IInv, NEW w \in Workers, Channel!Call(w)
  PROVE  /\ calling' \in [Workers -> {"absent", "no", "wait", "poll"}]
         /\ UNCHANGED <<published, open, seen>>
  BY DEF IInv, TypeOK, Channel!Call

\* A worker goes on.
LEMMA GoesOn ==
  ASSUME IInv, NEW w \in Workers, NEW from, NEW to \in {"top", "found", "poll", "exit", "dead"},
         Goes(w, from, to)
  PROVE  pc' \in [Workers -> {"top", "found", "poll", "exit", "dead"}]
  BY DEF IInv, TypeOK, Goes

\* The thread moves on within its types, and has taken nothing from the channel.
GoodStep ==
  /\ nonce' \in [Workers -> 0..(PollEvery - 1)]
  /\ pc' \in [Workers -> {"top", "found", "poll", "exit", "dead"}]
  /\ calling' \in [Workers -> {"absent", "no", "wait", "poll"}]
  /\ UNCHANGED <<published, open, seen>>

\* The next nonce of a CPU.
LEMMA NonceKept ==
  ASSUME IInv, NEW w \in Workers, NEW from, NextNonce(w, from)
  PROVE  GoodStep
<1> DEFINE n == (nonce[w] + 1) % PollEvery
<1>1. n \in 0..(PollEvery - 1)
  <2>1. nonce[w] + 1 \in Int /\ PollEvery \in Nat \ {0}
    BY BoundsAssumption DEF IInv, TypeOK
  <2> QED
    BY <2>1
<1>2. nonce' = [nonce EXCEPT ![w] = n]
  BY DEF NextNonce
<1>3. \/ AskForNews(w, from)
      \/ Goes(w, from, "top") /\ UNCHANGED channel
  BY DEF NextNonce
<1> HIDE DEF n
<1>4. nonce' \in [Workers -> 0..(PollEvery - 1)]
  BY <1>1, <1>2 DEF IInv, TypeOK
<1>5. CASE AskForNews(w, from)
  BY <1>4, <1>5, Asks, GoesOn DEF AskForNews, GoodStep
<1>6. CASE Goes(w, from, "top") /\ UNCHANGED channel
  BY <1>4, <1>6, GoesOn DEF GoodStep, channel, IInv, TypeOK
<1> QED
  BY <1>3, <1>5, <1>6

LEMMA ThreadTyped == IInv => ThreadType
  BY DEF IInv, TypeOK, ThreadType

\* Without a job a worker waits; what it gets, if it is a job, is its job.
LEMMA WaitIInv ==
  ASSUME IInv, NEW w \in Workers, Wait(w) \/ WaitReturns(w)
  PROVE  IInv'
<1>1. CASE Wait(w)
  <2>1. /\ calling' \in [Workers -> {"absent", "no", "wait", "poll"}]
        /\ UNCHANGED <<published, open, seen>>
    BY <1>1, Asks DEF Wait
  <2>2. UNCHANGED <<commands, pc, state, nonceOf, nonce, slow, outgoing, forwarding, connected,
                    manager, handles, isSynced>>
    BY <1>1 DEF Wait, thread, sending, managing
  <2>3. ThreadType'
    BY <2>1, <2>2, ThreadTyped DEF ThreadType
  <2> QED
    BY <2>1, <2>2, <2>3, SameJob
<1>2. CASE WaitReturns(w)
  <2> DEFINE command == commands[published]
             s == IF command \in Jobs THEN published ELSE 0
  <2>1. /\ Channel!Deliver(w)
        /\ state' = [state EXCEPT ![w] = s]
        /\ nonceOf' \in {nonceOf, [nonceOf EXCEPT ![w] = published]}
        /\ Goes(w, "top", IF command = CloseCommand THEN "exit" ELSE "top")
        /\ UNCHANGED <<commands, nonce, slow, outgoing, forwarding, connected, manager, handles,
                       isSynced>>
    BY <1>2 DEF WaitReturns, sending, managing
  <2>2. /\ seen' = [seen EXCEPT ![w] = published] /\ calling' = [calling EXCEPT ![w] = "no"]
        /\ UNCHANGED <<published, open>>
    BY <2>1 DEF Channel!Deliver
  <2>3. published \in Nat \ {0}
    BY BoundsAssumption DEF IInv, TypeOK
  <2>4. Fits(w, s, published) /\ s \in 0..published /\ published \in 0..published
    BY <2>3 DEF Fits
  <2>5. pc' \in [Workers -> {"top", "found", "poll", "exit", "dead"}]
    BY <2>1, GoesOn
  <2> HIDE DEF s, command
  <2>6. ThreadType'
    BY <2>1, <2>2, <2>3, <2>5, ThreadTyped DEF ThreadType
  <2> QED
    BY <2>1, <2>2, <2>4, <2>6, WorkerKeeps
<1> QED
  BY <1>1, <1>2

\* A poll: nothing new, or a newer command, of which a GPU may ignore a suspension.
LEMMA PollIInv ==
  ASSUME IInv, NEW w \in Workers, PollReturns(w)
  PROVE  IInv'
<1>1. /\ \/ Channel!Unchanged(w) /\ Goes(w, "poll", "top") /\ UNCHANGED state
         \/ /\ Channel!Deliver(w)
            /\ state' = [state EXCEPT ![w] = StateAfterPoll(w)]
            /\ Goes(w, "poll", IF commands[published] = CloseCommand THEN "exit" ELSE "top")
      /\ UNCHANGED <<commands, nonceOf, nonce, slow, outgoing, forwarding, connected, manager,
                     handles, isSynced>>
  BY DEF PollReturns, sending, managing
<1>2. pc' \in [Workers -> {"top", "found", "poll", "exit", "dead"}]
  BY <1>1, GoesOn
<1>3. calling' = [calling EXCEPT ![w] = "no"] /\ UNCHANGED <<published, open>>
  BY <1>1 DEF Channel!Unchanged, Channel!Deliver
<1>4. ThreadType'
  BY <1>1, <1>2, <1>3, ThreadTyped DEF ThreadType
<1>5. CASE Channel!Unchanged(w) /\ UNCHANGED state
  BY <1>1, <1>3, <1>4, <1>5, SameJob DEF Channel!Unchanged
<1>6. CASE Channel!Deliver(w) /\ state' = [state EXCEPT ![w] = StateAfterPoll(w)]
  <2> DEFINE s == StateAfterPoll(w)
  <2>1. seen' = [seen EXCEPT ![w] = published]
    BY <1>6 DEF Channel!Deliver
  <2>2. published \in Nat \ {0} /\ Fits(w, state[w], seen[w]) /\ state[w] \in 0..published
    BY BoundsAssumption, FitsAll DEF IInv, TypeOK
  <2>3. Fits(w, s, published) /\ s \in 0..published /\ published \in 0..published
    BY <2>2 DEF Fits, StateAfterPoll, OnPom
  <2> HIDE DEF s
  <2> QED
    BY <1>1, <1>3, <1>4, <1>6, <2>1, <2>3, WorkerKeeps DEF s
<1> QED
  BY <1>1, <1>5, <1>6

\* A thread ends: it has no job any more.
LEMMA ExitIInv ==
  ASSUME IInv, NEW w \in Workers, Exit(w)
  PROVE  IInv'
<1>1. /\ calling' = [calling EXCEPT ![w] = "absent"] /\ state' = [state EXCEPT ![w] = 0]
      /\ Goes(w, "exit", "dead")
      /\ UNCHANGED <<published, open, seen, commands, nonceOf, nonce, slow, outgoing, forwarding,
                     connected, manager, handles, isSynced>>
  BY DEF Exit, Channel!Leave, sending, managing
<1>2. ThreadType'
  BY <1>1, GoesOn, ThreadTyped DEF ThreadType
<1>3. seen' = [seen EXCEPT ![w] = seen[w]] /\ seen[w] \in 0..published
  BY <1>1 DEF IInv, TypeOK
<1>4. Fits(w, 0, seen[w]) /\ 0 \in 0..published
  BY DEF Fits, IInv, TypeOK
<1> QED
  BY <1>1, <1>2, <1>3, <1>4, WorkerKeeps

\* A block is sent: the job may end, nothing is asked or only asked.
LEMMA SubmitIInv ==
  ASSUME IInv, NEW w \in Workers, CpuSubmits(w) \/ GpuSubmits(w)
  PROVE  IInv'
<1>1. /\ outgoing' \in {0, 1}
      /\ state' \in {state, [state EXCEPT ![w] = 0]}
      /\ UNCHANGED <<commands, nonceOf, slow, forwarding, connected, manager, handles, isSynced>>
  BY DEF CpuSubmits, GpuSubmits, Submit, managing, IInv, TypeOK
<1>2. GoodStep
  <2>1. CASE CpuSubmits(w)
    BY <2>1, NonceKept DEF CpuSubmits
  <2>2. CASE GpuSubmits(w)
    BY <2>2, GoesOn DEF GoodStep, GpuSubmits, channel, IInv, TypeOK
  <2> QED
    BY <2>1, <2>2
<1>3. ThreadType'
  BY <1>1, <1>2, ThreadTyped DEF ThreadType, GoodStep
<1>4. CASE state' = state
  BY <1>1, <1>2, <1>3, <1>4, SameJob DEF GoodStep
<1>5. CASE state' = [state EXCEPT ![w] = 0]
  <2>1. seen' = [seen EXCEPT ![w] = seen[w]] /\ seen[w] \in 0..published
    BY <1>2 DEF GoodStep, IInv, TypeOK
  <2>2. Fits(w, 0, seen[w]) /\ 0 \in 0..published
    BY DEF Fits, IInv, TypeOK
  <2> QED
    BY <1>1, <1>2, <1>3, <1>5, <2>1, <2>2, WorkerKeeps DEF GoodStep
<1> QED
  BY <1>1, <1>4, <1>5

\* A batch or a nonce is tried.
LEMMA TryIInv ==
  ASSUME IInv, NEW w \in Workers, CpuTries(w) \/ GpuWalks(w) \/ GpuHashes(w)
  PROVE  IInv'
<1>1. UNCHANGED <<commands, state, nonceOf, slow, outgoing, forwarding, connected, manager, handles,
                  isSynced>>
  BY DEF CpuTries, GpuWalks, GpuHashes, sending, managing
<1>2. GoodStep
  <2>1. CASE NextNonce(w, "top")
    BY <2>1, NonceKept
  <2>2. CASE AskForNews(w, "top") /\ UNCHANGED nonce
    BY <2>2, Asks, GoesOn DEF GoodStep, AskForNews, IInv, TypeOK
  <2>3. ASSUME NEW to \in {"found", "exit"}, Goes(w, "top", to), UNCHANGED <<channel, nonce>>
        PROVE  GoodStep
    BY <2>3, GoesOn DEF GoodStep, channel, IInv, TypeOK
  <2>4. \/ NextNonce(w, "top")
        \/ AskForNews(w, "top") /\ UNCHANGED nonce
        \/ \E to \in {"found", "exit"} : Goes(w, "top", to) /\ UNCHANGED <<channel, nonce>>
    BY DEF CpuTries, GpuWalks, GpuHashes
  <2> QED
    BY <2>1, <2>2, <2>3, <2>4
<1>3. ThreadType'
  BY <1>1, <1>2, ThreadTyped DEF ThreadType, GoodStep
<1> QED
  BY <1>1, <1>2, <1>3, SameJob DEF GoodStep

-----------------------------------------------------------------------------
(* Steps of the manager and of the connection.                             *)

\* What leaves threads and channel alone.
LEMMA ManagerKeeps ==
  ASSUME IInv,
         UNCHANGED <<published, open, seen, calling, commands, pc, state, nonceOf, nonce, slow>>,
         outgoing' \in {0, 1}, forwarding' \in BOOLEAN, connected' \in BOOLEAN,
         manager' \in {"open", "closing", "joining", "closed", "aborted"},
         handles' \in Seq(Workers), isSynced' \in BOOLEAN,
         manager' \in {"open", "closing"} => manager \in {"open", "closing"},
         manager' = "open" /\ ~isSynced' => manager = "open" /\ ~isSynced
  PROVE  IInv'
<1>1. TypeOK'
  BY DEF IInv, TypeOK, JobOf
<1>2. WorksOnLastCommand' /\ Told' /\ Room'
  BY DEF IInv, WorksOnLastCommand, Told, Room
<1> QED
  BY <1>1, <1>2 DEF IInv

\* A command is sent: those before keep their ranks.
LEMMA SendKeeps ==
  ASSUME IInv, NEW command \in Commands, Send(command),
         UNCHANGED <<pc, state, nonceOf, nonce, slow, outgoing, forwarding, connected, handles>>,
         published <= MaxCommands,
         manager' \in {"open", "closing", "joining"}, isSynced' \in BOOLEAN,
         manager' \in {"open", "closing"} => published < MaxCommands,
         manager' = "open" /\ ~isSynced' => command = None
  PROVE  IInv'
<1>1. /\ published' = published + 1 /\ UNCHANGED <<open, seen, calling>>
      /\ commands' = Append(commands, command)
  BY DEF Send, Channel!Publish
<1>2. published \in Nat \ {0} /\ MaxCommands \in Nat
  BY BoundsAssumption DEF IInv, TypeOK
<1>3. /\ commands' \in Seq(Commands) /\ Len(commands') = published + 1
      /\ \A i \in 1..published : commands'[i] = commands[i]
      /\ commands'[published + 1] = command
  BY <1>1, AppendProperties DEF IInv, TypeOK, Commands
<1>4. \A w \in Workers : /\ state[w] \in 0..published /\ state[w] \in 0..(published + 1)
                         /\ seen[w] \in 0..published /\ seen[w] \in 0..(published + 1)
                         /\ nonceOf[w] \in 0..(published + 1)
  BY <1>2 DEF IInv, TypeOK
<1>5. \A w \in Workers : state[w] # 0 => /\ state[w] \in 1..published /\ seen[w] \in 1..published
                                         /\ commands'[state[w]] = commands[state[w]]
                                         /\ commands'[seen[w]] = commands[seen[w]]
  BY <1>2, <1>3, <1>4 DEF IInv, Told
<1>6. /\ published' \in 1..(MaxCommands + 1)
      /\ seen' \in [Workers -> 0..published']
      /\ state' \in [Workers -> 0..published'] /\ nonceOf' \in [Workers -> 0..published']
  BY <1>1, <1>2, <1>4 DEF IInv, TypeOK
<1>7. TypeOK'
  BY <1>1, <1>3, <1>5, <1>6 DEF IInv, TypeOK, JobOf, Commands
<1>8. WorksOnLastCommand' /\ Told' /\ Room'
  BY <1>1, <1>2, <1>3, <1>5 DEF IInv, WorksOnLastCommand, Told, Room
<1> QED
  BY <1>7, <1>8 DEF IInv

\* A job or a suspension: without a worker that is left, the connection ends.
LEMMA SendOrFailIInv ==
  ASSUME IInv, NEW command \in Commands, SendOrFail(command), manager = "open",
         isSynced' \in BOOLEAN, ~isSynced' => command = None,
         UNCHANGED <<thread, slow, sending, handles>>
  PROVE  IInv'
<1>1. UNCHANGED <<pc, state, nonceOf, nonce, slow, outgoing, forwarding, connected, handles>>
  BY DEF thread, sending
<1>2. CASE WorkersLive
  <2>1. published < MaxCommands /\ Send(command) /\ UNCHANGED manager
    BY <1>2 DEF SendOrFail
  <2>2. published \in Nat /\ MaxCommands \in Nat
    BY BoundsAssumption DEF IInv, TypeOK
  <2> QED
    BY <1>1, <2>1, <2>2, SendKeeps
<1>3. CASE ~WorkersLive
  <2>1. manager' = "closing" /\ UNCHANGED <<published, open, seen, calling, commands>>
    BY <1>3 DEF SendOrFail, channel
  <2> QED
    BY <1>1, <2>1, ManagerKeeps DEF IInv, TypeOK
<1> QED
  BY <1>2, <1>3

\* process_block of either kind.
LEMMA CommandIInv ==
  ASSUME IInv, Suspend \/ \E job \in Jobs : ProcessBlock(job)
  PROVE  IInv'
<1>1. CASE Suspend
  BY <1>1, SendOrFailIInv DEF Suspend, Commands
<1>2. ASSUME NEW job \in Jobs, ProcessBlock(job)
      PROVE  IInv'
  BY <1>2, SendOrFailIInv DEF ProcessBlock, Commands
<1> QED
  BY <1>1, <1>2

\* drop, to the last thread.
LEMMA DropIInv ==
  ASSUME IInv, CloseWorkers \/ JoinWorker
  PROVE  IInv'
<1>1. CASE CloseWorkers
  <2>1. /\ manager = "closing" /\ manager' = "joining"
        /\ IF WorkersLive THEN Send(CloseCommand) ELSE UNCHANGED <<channel, commands>>
        /\ UNCHANGED <<pc, state, nonceOf, nonce, slow, outgoing, forwarding, connected, handles,
                       isSynced>>
    BY <1>1 DEF CloseWorkers, thread, sending
  <2>2. published <= MaxCommands
    BY <2>1 DEF IInv, Room
  <2>3. CASE Send(CloseCommand)
    BY <2>1, <2>2, <2>3, SendKeeps DEF IInv, TypeOK, Commands
  <2>4. CASE UNCHANGED <<channel, commands>>
    BY <2>1, <2>4, ManagerKeeps DEF channel, IInv, TypeOK
  <2> QED
    BY <2>1, <2>3, <2>4
<1>2. CASE JoinWorker
  <2>1. /\ manager = "joining" /\ manager' \in {"joining", "closed"}
        /\ handles' \in {handles, Front(handles)}
        /\ UNCHANGED <<published, open, seen, calling, commands, pc, state, nonceOf, nonce, slow,
                       outgoing, forwarding, connected, isSynced>>
    BY <1>2 DEF JoinWorker, channel, thread, sending
  <2>2. Front(handles) \in Seq(Workers)
    <3>1. handles \in Seq(Workers)
      BY DEF IInv, TypeOK
    <3>2. Len(handles) \in Nat /\ \A i \in 1..(Len(handles) - 1) : handles[i] \in Workers
      BY <3>1, LenProperties
    <3>3. 1 \in Int /\ Len(handles) - 1 \in Int
      BY <3>2
    <3> QED
      BY <3>2, <3>3, SubSeqProperties DEF Front
  <2>3. handles' \in Seq(Workers)
    BY <2>1, <2>2 DEF IInv, TypeOK
  <2> QED
    BY <2>1, <2>3, ManagerKeeps DEF IInv, TypeOK
<1> QED
  BY <1>1, <1>2

\* The stream, the task that empties the channel, and a template that is refused.
LEMMA ConnectionIInv ==
  ASSUME IInv, Forward \/ ConnectionEnds \/ BadTemplate
  PROVE  IInv'
<1>1. /\ UNCHANGED <<published, open, seen, calling, commands, pc, state, nonceOf, nonce, slow, handles>>
      /\ outgoing' \in {0, 1} /\ forwarding' \in BOOLEAN /\ connected' \in BOOLEAN
      /\ isSynced' \in BOOLEAN
  BY DEF Forward, ConnectionEnds, BadTemplate, channel, thread, sending, managing, IInv, TypeOK
<1>2. \/ UNCHANGED <<manager, isSynced>>
      \/ manager = "open" /\ manager' = "closing"
  BY DEF Forward, ConnectionEnds, BadTemplate, managing
<1> QED
  BY <1>1, <1>2, ManagerKeeps DEF IInv, TypeOK

\* A worker is shot.
LEMMA FreezeIInv ==
  ASSUME IInv, NEW w \in Workers, Freeze(w)
  PROVE  IInv'
<1>1. UNCHANGED <<published, open, seen, calling, commands, state, nonceOf, nonce, slow, outgoing,
                  forwarding, connected, handles, isSynced>>
  BY DEF Freeze, channel, sending
<1>2. CASE manager' = "aborted" /\ UNCHANGED pc
  BY <1>1, <1>2, ManagerKeeps DEF IInv, TypeOK
<1>3. CASE pc' = [pc EXCEPT ![w] = "dead"] /\ UNCHANGED manager
  <2>1. ThreadType'
    BY <1>1, <1>3 DEF ThreadType, IInv, TypeOK
  <2> QED
    BY <1>1, <1>3, <2>1, SameJob
<1> QED
  BY <1>2, <1>3 DEF Freeze

-----------------------------------------------------------------------------
\* The threads of a team in some order.
LEMMA Handles == \A team \in Teams : SetToSeq(team) \in Seq(Workers)
<1> TAKE team \in Teams
<1> DEFINE n == Cardinality(team)
<1>1. team \subseteq Workers /\ IsFiniteSet(team)
  BY WorkersAssumption, FS_Subset
<1>2. n \in Nat /\ ExistsBijection(1..n, team)
  BY <1>1, FS_CardinalityType
<1>3. \E f \in [1..n -> team] : IsInjective(f)
  BY <1>2 DEF ExistsBijection, Bijection, Injection
<1>4. SetToSeq(team) \in [1..n -> team]
  BY <1>3 DEF SetToSeq
<1> QED
  BY <1>1, <1>2, <1>4

LEMMA InitIInv == Init => IInv
<1> SUFFICES ASSUME Init PROVE IInv
  OBVIOUS
<1>1. PICK team \in Teams :
        /\ calling = [w \in Workers |-> IF w \in team THEN "no" ELSE "absent"]
        /\ pc = [w \in Workers |-> IF w \in team THEN "top" ELSE "dead"]
        /\ handles = SetToSeq(team)
  BY DEF Init
<1>2. handles \in Seq(Workers)
  BY <1>1, Handles
<1>3. 1 <= MaxCommands /\ MaxCommands \in Nat /\ 0 \in 0..(PollEvery - 1)
  BY BoundsAssumption
<1>4. commands \in Seq(Commands) /\ Len(commands) = 1 /\ commands[1] = None
  BY DEF Init, Commands
<1>5. TypeOK
  BY <1>1, <1>2, <1>3, <1>4 DEF Init, TypeOK, Commands
<1>6. WorksOnLastCommand /\ Told /\ Room
  BY <1>3 DEF Init, WorksOnLastCommand, Told, Room
<1> QED
  BY <1>5, <1>6 DEF IInv

LEMMA StepIInv == IInv /\ [Next]_vars => IInv'
<1> SUFFICES ASSUME IInv, [Next]_vars PROVE IInv'
  OBVIOUS
<1>1. ASSUME NEW w \in Workers, WorkerStep(w) PROVE IInv'
  BY <1>1, WaitIInv, PollIInv, ExitIInv, TryIInv, SubmitIInv DEF WorkerStep
<1>2. ASSUME NEW w \in Workers, Freeze(w) PROVE IInv'
  BY <1>2, FreezeIInv
<1>3. CASE Forward \/ ConnectionEnds \/ BadTemplate
  BY <1>3, ConnectionIInv
<1>4. CASE Suspend \/ \E job \in Jobs : ProcessBlock(job)
  BY <1>4, CommandIInv
<1>5. CASE CloseWorkers \/ JoinWorker
  BY <1>5, DropIInv
<1>6. CASE UNCHANGED vars
  BY <1>6, SameJob, ThreadTyped DEF vars, channel, thread, sending, managing, ThreadType
<1> QED
  BY <1>1, <1>2, <1>3, <1>4, <1>5, <1>6 DEF Next, Ended

-----------------------------------------------------------------------------
(* What the runs check, for every instance.                                *)

\* The inductive invariant holds in every reachable state.
THEOREM MinerInvariant == Spec => []IInv
  BY InitIInv, StepIInv, PTL DEF Spec

\* Every variable has its type, and what is worked on is a job that was sent.
THEOREM MinerTypeCorrect == Spec => []TypeOK
<1>1. IInv => TypeOK
  BY DEF IInv
<1> QED
  BY <1>1, MinerInvariant, PTL

\* A worker works on the last command it has taken from the channel, only a GPU may have
\* ignored a suspension; and process_block(None) sends nothing only if a suspension is what
\* the workers will find.
THEOREM WorkersWorkOnLastCommand == Spec => []WorksOnLastCommand
<1>1. IInv => WorksOnLastCommand
  BY DEF IInv
<1> QED
  BY <1>1, MinerInvariant, PTL

-----------------------------------------------------------------------------
(* The channel, and the end of the threads.                                *)

\* Manager and workers use the watch channel by its operations alone, as the register that
\* WatchChannel implements: the manager publishes, a worker calls, is answered with the
\* latest value or with none if it has that, and leaves when its thread ends.
THEOREM ChannelUsedAsRegister == Spec => [][Channel!Next]_channel
<1>1. ASSUME IInv, [Next]_vars PROVE [Channel!Next]_channel
  <2>1. ASSUME NEW w \in Workers, WorkerStep(w) PROVE [Channel!Next]_channel
    <3>1. \/ Channel!Call(w) \/ Channel!Deliver(w) \/ Channel!Unchanged(w) \/ Channel!Leave(w)
          \/ UNCHANGED channel
      BY <2>1
      DEF WorkerStep, Wait, WaitReturns, PollReturns, Exit, CpuTries, CpuSubmits, NextNonce,
          AskForNews, GpuWalks, GpuHashes, GpuSubmits
    <3> QED
      BY <3>1 DEF Channel!Next, Channel!Return
  <2>2. CASE (\E job \in Jobs : ProcessBlock(job)) \/ Suspend \/ CloseWorkers
    <3>1. Channel!Publish \/ UNCHANGED channel
      BY <2>2 DEF ProcessBlock, Suspend, SendOrFail, CloseWorkers, Send
    <3> QED
      BY <3>1 DEF Channel!Next
  <2>3. CASE Forward \/ ConnectionEnds \/ BadTemplate \/ JoinWorker \/ \E w \in Workers : Freeze(w)
    BY <2>3 DEF Forward, ConnectionEnds, BadTemplate, JoinWorker, Freeze
  <2>4. CASE UNCHANGED vars
    BY <2>4 DEF vars
  <2> QED
    BY <1>1, <2>1, <2>2, <2>3, <2>4 DEF Next, Ended
<1> QED
  BY <1>1, MinerInvariant, PTL DEF Spec

\* A thread that is alive is still to be joined.
Unjoined ==
  /\ \A w \in Workers : Alive(w) => \E k \in DOMAIN handles : handles[k] = w
  /\ manager = "closed" => handles = <<>>

\* Every thread of the team has a handle.
LEMMA HandlesOfAll ==
  ASSUME NEW team \in Teams, NEW w \in team
  PROVE  \E k \in DOMAIN SetToSeq(team) : SetToSeq(team)[k] = w
<1> DEFINE n == Cardinality(team)
           f == SetToSeq(team)
<1>1. IsFiniteSet(team)
  BY WorkersAssumption, FS_Subset
<1>2. n \in Nat /\ ExistsBijection(1..n, team)
  BY <1>1, FS_CardinalityType
<1>3. \E g \in [1..n -> team] : IsInjective(g)
  BY <1>2 DEF ExistsBijection, Bijection, Injection
<1>4. f \in [1..n -> team] /\ IsInjective(f)
  BY <1>3 DEF SetToSeq
<1> HIDE DEF f
<1>5. f \in Injection(1..n, team)
  BY <1>4 DEF Injection
<1>6. IsFiniteSet(1..n) /\ Cardinality(1..n) = n
  BY <1>2, FS_Interval
<1>7. f \in Surjection(1..n, team)
  BY <1>1, <1>5, <1>6, FS_Injection
<1> QED
  BY <1>4, <1>7 DEF Surjection, f

\* Nobody comes back to life, and nobody but JoinWorker drops a handle.
LEMMA OthersLeaveHandles ==
  ASSUME IInv, Unjoined, UNCHANGED handles, manager' = "closed" => manager = "closed",
         \A w \in Workers : Alive(w)' => Alive(w)
  PROVE  Unjoined'
  BY DEF Unjoined

LEMMA StepUnjoined == IInv /\ Unjoined /\ [Next]_vars => Unjoined'
<1> SUFFICES ASSUME IInv, Unjoined, [Next]_vars PROVE Unjoined'
  OBVIOUS
<1>1. pc \in [Workers -> {"top", "found", "poll", "exit", "dead"}] /\ handles \in Seq(Workers)
  BY DEF IInv, TypeOK
<1>2. ASSUME NEW w \in Workers, WorkerStep(w) PROVE Unjoined'
  <2>1. UNCHANGED <<manager, handles>>
    BY <1>2
    DEF WorkerStep, Wait, WaitReturns, PollReturns, Exit, Submit, CpuTries, CpuSubmits,
        GpuWalks, GpuHashes, GpuSubmits, managing
  <2>2. \/ UNCHANGED pc
        \/ \E from \in {"top", "found", "poll", "exit"}, to \in {"top", "found", "poll", "exit", "dead"} :
             Goes(w, from, to)
    BY <1>2
    DEF WorkerStep, Wait, WaitReturns, PollReturns, Exit, CpuTries, CpuSubmits, NextNonce,
        AskForNews, GpuWalks, GpuHashes, GpuSubmits, thread
  <2>3. \A v \in Workers : Alive(v)' => Alive(v)
    BY <1>1, <2>2 DEF Goes, Alive
  <2> QED
    BY <2>1, <2>3, OthersLeaveHandles
<1>3. CASE JoinWorker
  <2>1. CASE handles = <<>>
    BY <1>3, <2>1 DEF JoinWorker, Unjoined, Alive, thread
  <2>2. CASE handles # <<>>
    <3>1. /\ manager = "joining" /\ UNCHANGED <<manager, pc>>
          /\ pc[Last(handles)] = "dead" /\ handles' = Front(handles)
      BY <1>3, <2>2 DEF JoinWorker, thread
    <3>2. Len(handles) \in Nat \ {0} /\ DOMAIN handles = 1..Len(handles)
      BY <1>1, <2>2, LenProperties, EmptySeq
    <3>3. /\ DOMAIN Front(handles) = 1..(Len(handles) - 1)
          /\ \A k \in 1..(Len(handles) - 1) : Front(handles)[k] = handles[k]
      BY <1>1, <2>2, <3>2 DEF Front
    <3>4. ASSUME NEW w \in Workers, Alive(w)
          PROVE  \E k \in DOMAIN Front(handles) : Front(handles)[k] = w
      <4>1. PICK k \in DOMAIN handles : handles[k] = w
        BY <3>4 DEF Unjoined
      <4>2. k # Len(handles)
        BY <3>1, <3>4, <4>1 DEF Last, Alive
      <4> QED
        BY <3>2, <3>3, <4>1, <4>2
    <3> QED
      BY <3>1, <3>4 DEF Unjoined, Alive
  <2> QED
    BY <2>1, <2>2
<1>4. ASSUME NEW w \in Workers, Freeze(w) PROVE Unjoined'
  <2>1. UNCHANGED handles /\ (manager' = "closed" => manager = "closed")
    BY <1>4 DEF Freeze
  <2>2. \A v \in Workers : Alive(v)' => Alive(v)
    BY <1>1, <1>4 DEF Freeze, Alive
  <2> QED
    BY <2>1, <2>2, OthersLeaveHandles
<1>5. CASE \/ Forward \/ ConnectionEnds \/ BadTemplate \/ Suspend \/ CloseWorkers
           \/ \E job \in Jobs : ProcessBlock(job)
  <2>1. UNCHANGED <<handles, pc>> /\ (manager' = "closed" => manager = "closed")
    BY <1>5
    DEF Forward, ConnectionEnds, BadTemplate, Suspend, CloseWorkers, ProcessBlock, SendOrFail,
        thread, managing
  <2> QED
    BY <2>1, OthersLeaveHandles DEF Alive
<1>6. CASE UNCHANGED vars
  BY <1>6, OthersLeaveHandles DEF vars, thread, managing, Alive
<1> QED
  BY <1>2, <1>3, <1>4, <1>5, <1>6 DEF Next, Ended

\* When a manager is gone none of its threads is left, whatever they were doing and
\* whichever of them was shot: the next manager never mines beside an old worker.
AllJoined == manager = "closed" => \A w \in Workers : ~Alive(w)

THEOREM ThreadsJoined == Spec => []AllJoined
<1>1. Init => Unjoined
  <2> SUFFICES ASSUME Init PROVE Unjoined
    OBVIOUS
  <2>1. PICK team \in Teams :
          /\ pc = [w \in Workers |-> IF w \in team THEN "top" ELSE "dead"]
          /\ handles = SetToSeq(team)
    BY DEF Init
  <2>2. \A w \in Workers : Alive(w) => w \in team
    BY <2>1 DEF Alive
  <2> QED
    BY <2>1, <2>2, HandlesOfAll DEF Unjoined, Init
<1>2. Unjoined => AllJoined
  BY DEF Unjoined, AllJoined
<1> QED
  BY <1>1, <1>2, MinerInvariant, StepUnjoined, PTL DEF Spec
=============================================================================
