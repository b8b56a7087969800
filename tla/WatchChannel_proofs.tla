------------------------ MODULE WatchChannel_proofs ------------------------
(***************************************************************************)
(* What holds of the watch channel for every set of receivers and any      *)
(* number of sends: its counters, its locks and its wake-ups, and that its *)
(* steps are steps of the register of module LatestValue.                  *)
(***************************************************************************)
EXTENDS WatchChannel, FiniteSetTheorems, TLAPS

-----------------------------------------------------------------------------
(* The inductive invariant, one part per shared location.                  *)

LiveReceivers == {r \in Receivers : Live(r)}

\* The receiver count is the number of live handles.
CountInv == receiversCount = Cardinality(LiveReceivers)

\* The value is one ahead of the id exactly while the sender holds the RwLock,
\* and the sender keeps its obligation to notify after it is dropped.
SenderInv ==
  /\ value = (IF spc = "publish" THEN id + 1 ELSE id)
  /\ spc = "replace" => value <= MaxSends
  /\ valueLocked <=> spc = "publish"
  /\ senderAlive => spc # "dropped"
  /\ ~senderAlive => spc \in {"wake", "notify", "dropped"}

\* What a receiver has recorded and returned never runs ahead of the id.
ObservedInv ==
  \A r \in Receivers :
    /\ lastObserved[r] <= id
    /\ delivered[r] <= id
    /\ rpc[r] # "clone" => delivered[r] >= lastObserved[r]

\* Where r can be on each of the two paths through get_changed_internal.
PathInv ==
  \A r \in Receivers :
    /\ rpc[r] \in {"checkAlive", "loadId"} => path[r] # "woken"
    /\ rpc[r] \in {"lock", "enterWait", "parked"} => path[r] # "poll"
    /\ rpc[r] \in {"recheckAlive", "reloadId"} => path[r] = "woken"

\* r is between a lock or a wake-up and the drop of the guard.
Holding(r) ==
  \/ rpc[r] \in {"enterWait", "recheckAlive", "reloadId"}
  \/ rpc[r] \in {"checkAlive", "loadId", "clone"} /\ path[r] \in {"locked", "woken"}

MutexInv ==
  /\ mutex = Sender <=> spc = "notify"
  /\ \A r \in Receivers : mutex = r <=> Holding(r)

\* The double check under the mutex: whoever is about to park or has parked has
\* seen the latest id of a living sender, or the sender has yet to notify.
ParkInv ==
  \A r \in Receivers :
    /\ r \in waiters =>
         /\ rpc[r] = "parked"
         /\ lastObserved[r] # id \/ ~senderAlive => spc \in {"wake", "notify"}
    /\ rpc[r] = "enterWait" =>
         (lastObserved[r] # id \/ ~senderAlive => spc = "wake")
    /\ rpc[r] = "loadId" /\ path[r] = "locked" => (~senderAlive => spc = "wake")

IInv ==
  /\ TypeOK /\ CountInv /\ SenderInv /\ ObservedInv /\ PathInv /\ MutexInv /\ ParkInv
-----------------------------------------------------------------------------
\* The sender's two writes and its exit keep value, id and lock together
\* (watch.rs:41-51, 87-107).
LEMMA SenderStep ==
  ASSUME TypeOK, SenderInv, [Next]_vars
  PROVE  SenderInv'
<1> USE DEF TypeOK, SenderInv, SenderPC
<1>1. CASE SendBegin
  BY <1>1 DEF SendBegin
<1>2. CASE ReplaceValue
  BY <1>2 DEF ReplaceValue
<1>3. CASE IncrementId
  BY <1>3 DEF IncrementId
<1>4. CASE LockToWake
  BY <1>4 DEF LockToWake
<1>5. CASE NotifyAll
  BY <1>5 DEF NotifyAll
<1>6. CASE DropSender
  BY <1>6 DEF DropSender
<1>7. ASSUME NEW r \in Receivers,
             \/ GetChanged(r) \/ WaitForChange(r) \/ CheckAlive(r) \/ LoadIdUnchanged(r)
               \/ LoadIdChanged(r) \/ CloneValue(r) \/ LockToWait(r) \/ EnterWait(r) \/
               SpuriousWakeup(r) \/ Reacquire(r) \/ RecheckAlive(r) \/ ReloadId(r) \/
               DropReceiver(r)
      PROVE  SenderInv'
  BY <1>7 DEF GetChanged, WaitForChange, CheckAlive, LoadIdUnchanged, LoadIdChanged,
    CloneValue, LockToWait, EnterWait, SpuriousWakeup, Reacquire, RecheckAlive,
    ReloadId, DropReceiver, Goto, Return, shared
<1>8. ASSUME NEW r \in Receivers, NEW q \in Receivers, CloneReceiver(r, q)
      PROVE  SenderInv'
  BY <1>8 DEF CloneReceiver, Goto
<1>9. CASE UNCHANGED vars
  BY <1>9 DEF vars
<1> QED
  BY <1>1, <1>2, <1>3, <1>4, <1>5, <1>6, <1>7, <1>8, <1>9 DEF Next, SenderInCall,
    ReceiverInCall, Terminated

\* A receiver records an id before it reads the value, never the other way round
\* (watch.rs:121-131, 144-149).
LEMMA ObservedStep ==
  ASSUME TypeOK, SenderInv, ObservedInv, [Next]_vars
  PROVE  ObservedInv'
<1> USE DEF TypeOK, SenderInv, ObservedInv, SenderPC, ReceiverPC
<1>1. CASE ReplaceValue
  BY <1>1 DEF ReplaceValue
<1>2. CASE IncrementId
  BY <1>2 DEF IncrementId
<1>3. CASE SendBegin \/ LockToWake \/ NotifyAll \/ DropSender
  BY <1>3 DEF SendBegin, LockToWake, NotifyAll, DropSender
<1>4. ASSUME NEW r \in Receivers, LoadIdUnchanged(r) PROVE ObservedInv'
  BY <1>4 DEF LoadIdUnchanged, Goto, Return, shared
<1>5. ASSUME NEW r \in Receivers, LoadIdChanged(r) PROVE ObservedInv'
  BY <1>5 DEF LoadIdChanged, Goto, Return, shared
<1>6. ASSUME NEW r \in Receivers, CloneValue(r) PROVE ObservedInv'
  BY <1>6 DEF CloneValue, Goto, Return, shared
<1>7. ASSUME NEW r \in Receivers, ReloadId(r) PROVE ObservedInv'
  BY <1>7 DEF ReloadId, Goto, Return, shared
<1>8. ASSUME NEW r \in Receivers,
             \/ GetChanged(r) \/ WaitForChange(r) \/ CheckAlive(r) \/ LockToWait(r) \/
               EnterWait(r) \/ SpuriousWakeup(r) \/ Reacquire(r) \/ RecheckAlive(r) \/
               DropReceiver(r)
      PROVE  ObservedInv'
  BY <1>8 DEF GetChanged, WaitForChange, CheckAlive, LockToWait, EnterWait,
    SpuriousWakeup, Reacquire, RecheckAlive, DropReceiver, Goto, Return, shared
<1>9. ASSUME NEW r \in Receivers, NEW q \in Receivers, CloneReceiver(r, q)
      PROVE  ObservedInv'
  BY <1>9 DEF CloneReceiver, Goto
<1>10. CASE UNCHANGED vars
  BY <1>10 DEF vars
<1> QED
  BY <1>1, <1>2, <1>3, <1>4, <1>5, <1>6, <1>7, <1>8, <1>9, <1>10 DEF Next, SenderInCall,
    ReceiverInCall, Terminated

\* The second run of get_changed_internal is the one under the mutex
\* (watch.rs:133-150).
LEMMA PathStep ==
  ASSUME TypeOK, PathInv, [Next]_vars
  PROVE  PathInv'
<1> USE DEF TypeOK, PathInv, ReceiverPC, Paths
<1>1. CASE SendBegin \/ ReplaceValue \/ IncrementId \/ LockToWake \/ NotifyAll \/
  DropSender
  BY <1>1 DEF SendBegin, ReplaceValue, IncrementId, LockToWake, NotifyAll, DropSender
<1>2. ASSUME NEW r \in Receivers, CheckAlive(r) PROVE PathInv'
  BY <1>2 DEF CheckAlive, Goto, Return, shared
<1>3. ASSUME NEW r \in Receivers, LoadIdUnchanged(r) PROVE PathInv'
  BY <1>3 DEF LoadIdUnchanged, Goto, Return, shared
<1>4. ASSUME NEW r \in Receivers, LockToWait(r) PROVE PathInv'
  BY <1>4 DEF LockToWait, Goto, Return, shared
<1>5. ASSUME NEW r \in Receivers, Reacquire(r) PROVE PathInv'
  BY <1>5 DEF Reacquire, Goto, Return, shared
<1>6. ASSUME NEW r \in Receivers, RecheckAlive(r) PROVE PathInv'
  BY <1>6 DEF RecheckAlive, Goto, Return, shared
<1>7. ASSUME NEW r \in Receivers,
             \/ GetChanged(r) \/ WaitForChange(r) \/ LoadIdChanged(r) \/ CloneValue(r)
               \/ EnterWait(r) \/ SpuriousWakeup(r) \/ ReloadId(r) \/ DropReceiver(r)
      PROVE  PathInv'
  BY <1>7 DEF GetChanged, WaitForChange, LoadIdChanged, CloneValue, EnterWait,
    SpuriousWakeup, ReloadId, DropReceiver, Goto, Return, shared
<1>8. ASSUME NEW r \in Receivers, NEW q \in Receivers, CloneReceiver(r, q)
      PROVE  PathInv'
  BY <1>8 DEF CloneReceiver, Goto
<1>9. CASE UNCHANGED vars
  BY <1>9 DEF vars
<1> QED
  BY <1>1, <1>2, <1>3, <1>4, <1>5, <1>6, <1>7, <1>8, <1>9 DEF Next, SenderInCall,
    ReceiverInCall, Terminated

\* The guard of wait_for_change is held by whoever the program counters say
\* (watch.rs:61-65, 133-150).
LEMMA MutexStep ==
  ASSUME TypeOK, PathInv, MutexInv, [Next]_vars
  PROVE  MutexInv'
<1> USE HoldersAssumption
        DEF TypeOK, PathInv, MutexInv, Holding,
             SenderPC, ReceiverPC, Paths
<1>1. CASE LockToWake
  BY <1>1 DEF LockToWake
<1>2. CASE NotifyAll
  BY <1>2 DEF NotifyAll
<1>3. CASE SendBegin \/ ReplaceValue \/ IncrementId \/ DropSender
  BY <1>3 DEF SendBegin, ReplaceValue, IncrementId, DropSender
<1>4. ASSUME NEW r \in Receivers, CheckAlive(r) PROVE MutexInv'
  BY <1>4 DEF CheckAlive, Goto, Return, shared
<1>5. ASSUME NEW r \in Receivers, LoadIdUnchanged(r) PROVE MutexInv'
  BY <1>5 DEF LoadIdUnchanged, Goto, Return, shared
<1>6. ASSUME NEW r \in Receivers, LoadIdChanged(r) PROVE MutexInv'
  BY <1>6 DEF LoadIdChanged, Goto, Return, shared
<1>7. ASSUME NEW r \in Receivers, CloneValue(r) PROVE MutexInv'
  BY <1>7 DEF CloneValue, Goto, Return, shared
<1>8. ASSUME NEW r \in Receivers, LockToWait(r) PROVE MutexInv'
  BY <1>8 DEF LockToWait, Goto, Return, shared
<1>9. ASSUME NEW r \in Receivers, EnterWait(r) PROVE MutexInv'
  BY <1>9 DEF EnterWait, Goto, Return, shared
<1>10. ASSUME NEW r \in Receivers, Reacquire(r) PROVE MutexInv'
  BY <1>10 DEF Reacquire, Goto, Return, shared
<1>11. ASSUME NEW r \in Receivers, RecheckAlive(r) PROVE MutexInv'
  BY <1>11 DEF RecheckAlive, Goto, Return, shared
<1>12. ASSUME NEW r \in Receivers, ReloadId(r) PROVE MutexInv'
  BY <1>12 DEF ReloadId, Goto, Return, shared
<1>13. ASSUME NEW r \in Receivers,
             \/ GetChanged(r) \/ WaitForChange(r) \/ SpuriousWakeup(r) \/
               DropReceiver(r)
      PROVE  MutexInv'
  BY <1>13 DEF GetChanged, WaitForChange, SpuriousWakeup, DropReceiver, Goto, Return,
    shared
<1>14. ASSUME NEW r \in Receivers, NEW q \in Receivers, CloneReceiver(r, q)
      PROVE  MutexInv'
  BY <1>14 DEF CloneReceiver, Goto
<1>15. CASE UNCHANGED vars
  BY <1>15 DEF vars
<1> QED
  BY <1>1, <1>2, <1>3, <1>4, <1>5, <1>6, <1>7, <1>8, <1>9, <1>10, <1>11, <1>12, <1>13,
    <1>14, <1>15 DEF Next, SenderInCall, ReceiverInCall, Terminated

\* Nobody parks without a notification to come (watch.rs:137-143 against 61-65).
LEMMA ParkStep ==
  ASSUME TypeOK, SenderInv, PathInv, MutexInv, ParkInv, [Next]_vars
  PROVE  ParkInv'
<1> USE HoldersAssumption
        DEF TypeOK, SenderInv, PathInv, MutexInv, ParkInv,
             Holding, SenderPC, ReceiverPC, Paths
<1>1. CASE IncrementId
  BY <1>1 DEF IncrementId
<1>2. CASE LockToWake
  BY <1>2 DEF LockToWake
<1>3. CASE NotifyAll
  BY <1>3 DEF NotifyAll
<1>4. CASE DropSender
  BY <1>4 DEF DropSender
<1>5. CASE SendBegin \/ ReplaceValue
  BY <1>5 DEF SendBegin, ReplaceValue
<1>6. ASSUME NEW r \in Receivers, CheckAlive(r) PROVE ParkInv'
  BY <1>6 DEF CheckAlive, Goto, Return, shared
<1>7. ASSUME NEW r \in Receivers, LoadIdUnchanged(r) PROVE ParkInv'
  BY <1>7 DEF LoadIdUnchanged, Goto, Return, shared
<1>8. ASSUME NEW r \in Receivers, LoadIdChanged(r) PROVE ParkInv'
  BY <1>8 DEF LoadIdChanged, Goto, Return, shared
<1>9. ASSUME NEW r \in Receivers, LockToWait(r) PROVE ParkInv'
  BY <1>9 DEF LockToWait, Goto, Return, shared
<1>10. ASSUME NEW r \in Receivers, EnterWait(r) PROVE ParkInv'
  BY <1>10 DEF EnterWait, Goto, Return, shared
<1>11. ASSUME NEW r \in Receivers, SpuriousWakeup(r) PROVE ParkInv'
  BY <1>11 DEF SpuriousWakeup, Goto, Return, shared
<1>12. ASSUME NEW r \in Receivers,
             \/ GetChanged(r) \/ WaitForChange(r) \/ CloneValue(r) \/ Reacquire(r) \/
               RecheckAlive(r) \/ ReloadId(r) \/ DropReceiver(r)
      PROVE  ParkInv'
  BY <1>12 DEF GetChanged, WaitForChange, CloneValue, Reacquire, RecheckAlive, ReloadId,
    DropReceiver, Goto, Return, shared
<1>13. ASSUME NEW r \in Receivers, NEW q \in Receivers, CloneReceiver(r, q)
      PROVE  ParkInv'
  BY <1>13 DEF CloneReceiver, Goto
<1>14. CASE UNCHANGED vars
  BY <1>14 DEF vars
<1> QED
  BY <1>1, <1>2, <1>3, <1>4, <1>5, <1>6, <1>7, <1>8, <1>9, <1>10, <1>11, <1>12, <1>13,
    <1>14 DEF Next, SenderInCall, ReceiverInCall, Terminated

-----------------------------------------------------------------------------
(* The counter of receivers and the types.                                 *)

LEMMA LiveFinite == IsFiniteSet(LiveReceivers)
BY ReceiversAssumption, FS_Subset DEF LiveReceivers

LEMMA CountIsNat == ASSUME CountInv' PROVE receiversCount' \in Nat
<1>1. IsFiniteSet(LiveReceivers')
  BY ReceiversAssumption, FS_Subset DEF LiveReceivers
<1> QED  BY <1>1, FS_CardinalityType DEF CountInv

\* Clone and Drop are the only steps that change the set of live receivers, and
\* they count it right (watch.rs:153-164).
LEMMA CountStep ==
  ASSUME TypeOK, CountInv, [Next]_vars
  PROVE  CountInv'
<1> USE DEF CountInv
<1>1. SUFFICES ASSUME LiveReceivers' # LiveReceivers \/ receiversCount' # receiversCount
               PROVE  CountInv'
  OBVIOUS
<1>2. ASSUME NEW r \in Receivers, DropReceiver(r) PROVE CountInv'
  <2>1. LiveReceivers' = LiveReceivers \ {r} /\ r \in LiveReceivers
    BY <1>2 DEF DropReceiver, Goto, LiveReceivers, Live, TypeOK
  <2>2. Cardinality(LiveReceivers') = Cardinality(LiveReceivers) - 1
    BY <2>1, LiveFinite, FS_RemoveElement
  <2> QED  BY <1>2, <2>2 DEF DropReceiver
<1>3. ASSUME NEW r \in Receivers, NEW q \in Receivers, CloneReceiver(r, q)
      PROVE  CountInv'
  <2>1. LiveReceivers' = LiveReceivers \cup {q} /\ q \notin LiveReceivers
    BY <1>3 DEF CloneReceiver, Goto, LiveReceivers, Live, TypeOK
  <2>2. Cardinality(LiveReceivers') = Cardinality(LiveReceivers) + 1
    BY <2>1, LiveFinite, FS_AddElement
  <2> QED  BY <1>3, <2>2 DEF CloneReceiver
<1>4. ASSUME NEW r \in Receivers, ReceiverInCall(r) PROVE CountInv'
  <2>1. PICK pc \in ReceiverPC \ {"unborn", "gone"} : rpc' = [rpc EXCEPT ![r] = pc]
    BY <1>4 DEF ReceiverInCall, CheckAlive, LoadIdUnchanged, LoadIdChanged, CloneValue,
         LockToWait, EnterWait, Reacquire, RecheckAlive, ReloadId, Goto, Return, ReceiverPC
  <2>2. Live(r)
    BY <1>4 DEF ReceiverInCall, CheckAlive, LoadIdUnchanged, LoadIdChanged, CloneValue,
         LockToWait, EnterWait, Reacquire, RecheckAlive, ReloadId, Live
  <2>3. LiveReceivers' = LiveReceivers
    BY <2>1, <2>2 DEF LiveReceivers, Live, TypeOK
  <2>4. receiversCount' = receiversCount
    BY <1>4 DEF ReceiverInCall, CheckAlive, LoadIdUnchanged, LoadIdChanged, CloneValue,
         LockToWait, EnterWait, Reacquire, RecheckAlive, ReloadId, shared
  <2> QED  BY <1>1, <2>3, <2>4
<1>5. ASSUME NEW r \in Receivers, GetChanged(r) \/ WaitForChange(r) PROVE CountInv'
  <2>1. LiveReceivers' = LiveReceivers /\ receiversCount' = receiversCount
    BY <1>5 DEF GetChanged, WaitForChange, Goto, LiveReceivers, Live, TypeOK, shared
  <2> QED  BY <1>1, <2>1
<1>6. CASE \/ SendBegin \/ SenderInCall \/ DropSender \/ UNCHANGED vars
           \/ \E r \in Receivers : SpuriousWakeup(r)
  <2>1. rpc' = rpc /\ receiversCount' = receiversCount
    BY <1>6 DEF SendBegin, SenderInCall, ReplaceValue, IncrementId, LockToWake,
         NotifyAll, DropSender, SpuriousWakeup, vars
  <2> QED  BY <1>1, <2>1 DEF LiveReceivers, Live
<1> QED
  BY <1>2, <1>3, <1>4, <1>5, <1>6 DEF Next, Terminated

\* Every step keeps the types; the numbers stay within the bounds because of
\* SenderInv and CountInv.
LEMMA TypeStep ==
  ASSUME TypeOK, SenderInv, receiversCount' \in Nat, [Next]_vars
  PROVE  TypeOK'
<1> USE MaxSendsAssumption, SpuriousAssumption
        DEF TypeOK, SenderInv, SenderPC, ReceiverPC, Paths
<1>1. CASE ReplaceValue
  BY <1>1 DEF ReplaceValue
<1>2. CASE IncrementId
  BY <1>2 DEF IncrementId
<1>3. CASE SendBegin \/ LockToWake \/ NotifyAll \/ DropSender
  BY <1>3 DEF SendBegin, LockToWake, NotifyAll, DropSender
<1>4. ASSUME NEW r \in Receivers,
             \/ GetChanged(r) \/ WaitForChange(r) \/ CheckAlive(r) \/ LoadIdUnchanged(r)
               \/ LoadIdChanged(r) \/ CloneValue(r) \/ LockToWait(r) \/ EnterWait(r) \/
               SpuriousWakeup(r) \/ Reacquire(r) \/ RecheckAlive(r) \/ ReloadId(r) \/
               DropReceiver(r)
      PROVE  TypeOK'
  BY <1>4 DEF GetChanged, WaitForChange, CheckAlive, LoadIdUnchanged, LoadIdChanged,
    CloneValue, LockToWait, EnterWait, SpuriousWakeup, Reacquire, RecheckAlive,
    ReloadId, DropReceiver, Goto, Return, shared
<1>5. ASSUME NEW r \in Receivers, NEW q \in Receivers, CloneReceiver(r, q)
      PROVE  TypeOK'
  BY <1>5 DEF CloneReceiver, Goto
<1>6. CASE UNCHANGED vars
  BY <1>6 DEF vars
<1> QED
  BY <1>1, <1>2, <1>3, <1>4, <1>5, <1>6 DEF Next, SenderInCall, ReceiverInCall,
    Terminated

-----------------------------------------------------------------------------
(* The theorems.                                                           *)

LEMMA InitInv == ASSUME Init PROVE IInv
<1>1. PICK first \in Receivers :
        rpc = [r \in Receivers |-> IF r = first THEN "idle" ELSE "unborn"]
  BY DEF Init
<1>2. TypeOK
  <2>1. rpc \in [Receivers -> ReceiverPC] /\ path \in [Receivers -> Paths]
    BY <1>1 DEF Init, ReceiverPC, Paths
  <2>2. /\ lastObserved \in [Receivers -> 0..(MaxSends + 1)]
        /\ delivered \in [Receivers -> 0..(MaxSends + 1)]
    BY MaxSendsAssumption DEF Init
  <2>3. value \in 1..(MaxSends + 1) /\ id \in 1..(MaxSends + 1) /\ spurious \in 0..MaxSpurious
    BY MaxSendsAssumption, SpuriousAssumption DEF Init
  <2>4. /\ valueLocked \in BOOLEAN /\ senderAlive \in BOOLEAN /\ spc \in SenderPC
        /\ mutex \in Receivers \cup {Sender, NoOne} /\ waiters \subseteq Receivers
        /\ receiversCount \in Nat
    BY DEF Init, SenderPC
  <2> QED  BY <2>1, <2>2, <2>3, <2>4 DEF TypeOK
<1>3. CountInv
  <2>1. LiveReceivers = {first}
    BY <1>1 DEF LiveReceivers, Live
  <2> QED  BY <2>1, FS_Singleton DEF CountInv, Init
<1>4. SenderInv /\ ObservedInv /\ PathInv /\ ParkInv
  BY <1>1 DEF Init, SenderInv, ObservedInv, PathInv, ParkInv
<1>5. MutexInv
  BY <1>1, HoldersAssumption DEF Init, MutexInv, Holding
<1> QED  BY <1>2, <1>3, <1>4, <1>5 DEF IInv

LEMMA StepInv == ASSUME IInv, [Next]_vars PROVE IInv'
BY CountStep, CountIsNat, TypeStep, SenderStep, ObservedStep, PathStep, MutexStep, ParkStep DEF IInv

\* IInv holds in every reachable state.
THEOREM Invariance == Spec => []IInv
BY InitInv, StepInv, PTL DEF Spec

\* Every variable keeps its type, and the receiver count never wraps below 0.
THEOREM TypeCorrect == Spec => []TypeOK
<1>1. IInv => TypeOK
  BY DEF IInv
<1> QED  BY <1>1, Invariance, PTL

\* No receiver sleeps through a send or through the drop of the sender: whatever a
\* parked receiver has not seen is still to be notified (watch.rs:61-65, 133-143).
THEOREM WakeupsNeverLost == Spec => []NoLostWakeup
<1>1. IInv => NoLostWakeup
  BY DEF IInv, ParkInv, NoLostWakeup, TypeOK
<1> QED  BY <1>1, Invariance, PTL

\* The value a receiver returned is never older than the id it recorded
\* (watch.rs:41-51, 121-131).
THEOREM NeverBehind == Spec => []NeverBehindObservedId
<1>1. IInv => NeverBehindObservedId
  BY DEF IInv, ObservedInv, NeverBehindObservedId
<1> QED  BY <1>1, Invariance, PTL

-----------------------------------------------------------------------------
(* Refinement.                                                             *)

LEMMA RegisterInit == ASSUME Init PROVE Register!Init
<1>1. PICK first \in Receivers :
        rpc = [r \in Receivers |-> IF r = first THEN "idle" ELSE "unborn"]
  BY DEF Init
<1>2. [r \in Receivers |-> Calling(r)]
        = [r \in Receivers |-> IF r = first THEN "no" ELSE "absent"]
  BY <1>1 DEF Calling, Live
<1> QED  BY <1>2 DEF Init, Register!Init

\* Steps inside a call that do not return leave the register alone.
LEMMA InsideCall ==
  ASSUME NEW r \in Receivers, NEW pc \in ReceiverPC \ {"unborn", "idle", "gone"},
         TypeOK, Live(r), rpc[r] # "idle", Goto(r, pc),
         path' = path \/ \E p \in Paths \ {"poll"} :
                            path[r] # "poll" /\ path' = [path EXCEPT ![r] = p]
  PROVE  [q \in Receivers |-> Calling(q)]' = [q \in Receivers |-> Calling(q)]
BY DEF TypeOK, Goto, Calling, Live, ReceiverPC, Paths

\* A step that returns to the caller ends the call of the register.
LEMMA CallReturns ==
  ASSUME NEW r \in Receivers, TypeOK, Live(r), rpc[r] # "idle",
         Goto(r, "idle"), path' = path
  PROVE  /\ [q \in Receivers |-> Calling(q)]'
              = [[q \in Receivers |-> Calling(q)] EXCEPT ![r] = "no"]
         /\ Calling(r) \in {"poll", "wait"}
         /\ path[r] = "poll" => Calling(r) = "poll"
BY DEF TypeOK, Goto, Calling, Live, ReceiverPC, Paths

\* Each step of the channel is a step of the register or none at all: the value
\* becomes visible with the id, and a call returns what was the latest value.
LEMMA RegisterStep ==
  ASSUME IInv, [Next]_vars
  PROVE  [Register!Next]_(Register!vars)
<1> USE DEF IInv, TypeOK
<1>1. CASE SendBegin \/ ReplaceValue \/ LockToWake \/ NotifyAll \/ UNCHANGED vars
           \/ \E r \in Receivers : SpuriousWakeup(r)
  BY <1>1 DEF SendBegin, ReplaceValue, LockToWake, NotifyAll, SpuriousWakeup, vars,
       Register!vars, Calling, Live
<1>2. CASE IncrementId
  BY <1>2 DEF IncrementId, SenderInv, Register!Next, Register!Publish, Calling, Live
<1>3. CASE DropSender
  BY <1>3 DEF DropSender, Register!Next, Register!Close, Calling, Live
<1>4. ASSUME NEW r \in Receivers, GetChanged(r) \/ WaitForChange(r)
      PROVE  Register!Next
  <2>1. \E c \in {"poll", "wait"} :
          [q \in Receivers |-> Calling(q)]'
            = [[q \in Receivers |-> Calling(q)] EXCEPT ![r] = c]
    <3>1. CASE GetChanged(r)
      BY <3>1 DEF GetChanged, Goto, Calling, Live, ReceiverPC, Paths
    <3>2. CASE WaitForChange(r)
      BY <3>2 DEF WaitForChange, Goto, Calling, Live, ReceiverPC, Paths
    <3> QED  BY <1>4, <3>1, <3>2
  <2>2. Calling(r) = "no"
    BY <1>4 DEF GetChanged, WaitForChange, Calling, Live
  <2>3. UNCHANGED <<id, senderAlive, delivered>>
    BY <1>4 DEF GetChanged, WaitForChange, shared
  <2> QED  BY <2>1, <2>2, <2>3 DEF Register!Next, Register!Call
<1>5. ASSUME NEW r \in Receivers,
             \/ (CheckAlive(r) \/ RecheckAlive(r)) /\ senderAlive
             \/ LoadIdUnchanged(r) /\ path[r] # "poll"
             \/ LoadIdChanged(r) \/ LockToWait(r) \/ EnterWait(r)
             \/ Reacquire(r) \/ ReloadId(r)
      PROVE  UNCHANGED Register!vars
  <2>1. PICK pc \in ReceiverPC \ {"unborn", "idle", "gone"} : Goto(r, pc)
    BY <1>5 DEF CheckAlive, RecheckAlive, LoadIdUnchanged, LoadIdChanged, LockToWait,
         EnterWait, Reacquire, ReloadId, Goto, ReceiverPC
  <2>2. Live(r) /\ rpc[r] # "idle"
    BY <1>5 DEF CheckAlive, RecheckAlive, LoadIdUnchanged, LoadIdChanged, LockToWait,
         EnterWait, Reacquire, ReloadId, Live
  <2>3. path' = path \/ \E p \in Paths \ {"poll"} :
                           path[r] # "poll" /\ path' = [path EXCEPT ![r] = p]
    BY <1>5 DEF CheckAlive, RecheckAlive, LoadIdUnchanged, LoadIdChanged, LockToWait,
         EnterWait, Reacquire, ReloadId, PathInv, Paths
  <2>4. UNCHANGED <<id, senderAlive, delivered>>
    BY <1>5 DEF CheckAlive, RecheckAlive, LoadIdUnchanged, LoadIdChanged, LockToWait,
         EnterWait, Reacquire, ReloadId, shared
  <2>5. [q \in Receivers |-> Calling(q)]' = [q \in Receivers |-> Calling(q)]
    BY <2>1, <2>2, <2>3, InsideCall
  <2> QED  BY <2>4, <2>5 DEF Register!vars
<1>6. ASSUME NEW r \in Receivers,
             \/ (CheckAlive(r) \/ RecheckAlive(r)) /\ ~senderAlive
             \/ LoadIdUnchanged(r) /\ path[r] = "poll"
             \/ CloneValue(r)
      PROVE  Register!Next
  <2>1. /\ Goto(r, "idle") /\ path' = path /\ UNCHANGED <<id, senderAlive>>
        /\ Live(r) /\ rpc[r] # "idle"
    BY <1>6 DEF CheckAlive, RecheckAlive, LoadIdUnchanged, CloneValue, Return, Goto,
         Live, shared
  <2>2. /\ [q \in Receivers |-> Calling(q)]'
              = [[q \in Receivers |-> Calling(q)] EXCEPT ![r] = "no"]
        /\ Calling(r) \in {"poll", "wait"}
        /\ path[r] = "poll" => Calling(r) = "poll"
    BY <2>1, CallReturns
  <2>3. \/ ~senderAlive /\ delivered' = delivered
        \/ path[r] = "poll" /\ delivered[r] = id /\ delivered' = delivered
        \/ delivered' = [delivered EXCEPT ![r] = id]
    BY <1>6 DEF CheckAlive, RecheckAlive, LoadIdUnchanged, CloneValue, ObservedInv,
         SenderInv
  <2> QED
    BY <2>1, <2>2, <2>3 DEF Register!Next, Register!Return, Register!Deliver,
         Register!Unchanged, Register!Closed
<1>7. ASSUME NEW r \in Receivers, DropReceiver(r) PROVE Register!Next
  <2>1. /\ [q \in Receivers |-> Calling(q)]'
              = [[q \in Receivers |-> Calling(q)] EXCEPT ![r] = "absent"]
        /\ Calling(r) = "no"
    BY <1>7 DEF DropReceiver, Goto, Calling, Live, ReceiverPC
  <2> QED  BY <1>7, <2>1 DEF DropReceiver, Register!Next, Register!Leave
<1>8. ASSUME NEW r \in Receivers, NEW q \in Receivers, CloneReceiver(r, q)
      PROVE  Register!Next
  <2>1. /\ [s \in Receivers |-> Calling(s)]'
              = [[s \in Receivers |-> Calling(s)] EXCEPT ![q] = "no"]
        /\ Calling(q) = "absent"
    BY <1>8 DEF CloneReceiver, Goto, Calling, Live, ReceiverPC
  <2> QED  BY <1>8, <2>1 DEF CloneReceiver, Register!Next, Register!Join
<1> QED
  BY <1>1, <1>2, <1>3, <1>4, <1>5, <1>6, <1>7, <1>8
     DEF Next, SenderInCall, ReceiverInCall, Terminated

\* The channel implements the register of LatestValue, for any number of receivers
\* and sends: what a call returns is the latest value, and a poll that returns
\* nothing has nothing to return.
THEOREM ImplementsSafety == Spec => Register!Safety
BY RegisterInit, RegisterStep, Invariance, PTL DEF Spec, Register!Safety
=============================================================================
