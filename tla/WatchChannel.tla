---------------------------- MODULE WatchChannel ----------------------------
(***************************************************************************)
(* The channel of src/watch.rs that carries jobs from the network client   *)
(* to the mining threads: a value behind an RwLock, an atomic id counting  *)
(* the replacements, a mutex and a condition variable for the receivers    *)
(* that block.  One step here is one access to a shared location.          *)
(*                                                                         *)
(* A value is represented by the id it belongs to: channel() stores 1, and *)
(* the k-th send stores k + 1.                                             *)
(***************************************************************************)
EXTENDS Integers, FiniteSets

CONSTANTS
  Receivers,        \* receiver handles, the original one and its clones
  Sender,           \* the sender, as a holder of the mutex
  NoOne,            \* nobody holds the mutex
  MaxSends,         \* bound on the number of sends
  MaxSpurious       \* bound on spurious wake-ups: 0 for parking_lot, the default
                    \* build, whose Condvar has none

ASSUME ReceiversAssumption == Receivers # {} /\ IsFiniteSet(Receivers)
ASSUME HoldersAssumption == Sender \notin Receivers /\ NoOne \notin Receivers \cup {Sender}
ASSUME MaxSendsAssumption == MaxSends \in Nat
ASSUME SpuriousAssumption == MaxSpurious \in Nat

VARIABLES
  value,            \* contents of the RwLock
  valueLocked,      \* the sender holds the RwLock for writing
  id,               \* Shared::id
  mutex,            \* holder of Shared::wait_for_change
  waiters,          \* receivers parked on Shared::notify_change
  receiversCount,   \* Shared::receivers_count
  senderAlive,      \* Shared::sender_alive
  spc,              \* where the sender is
  rpc,              \* where each receiver is
  path,             \* which call of get_changed_internal or wake-up it is in
  lastObserved,     \* Receiver::last_observed
  delivered,        \* the last value returned to each receiver, 0 if none
  spurious          \* spurious wake-ups so far

shared == <<value, valueLocked, id, receiversCount, senderAlive, spc, spurious>>
vars == <<value, valueLocked, id, mutex, waiters, receiversCount, senderAlive,
          spc, rpc, path, lastObserved, delivered, spurious>>

SenderPC == {"idle", "replace", "publish", "wake", "notify", "dropped"}
ReceiverPC == {"unborn", "idle", "checkAlive", "loadId", "clone", "lock",
               "enterWait", "parked", "recheckAlive", "reloadId", "gone"}
Paths == {"poll", "fast", "locked", "woken"}

Live(r) == rpc[r] \notin {"unborn", "gone"}

-----------------------------------------------------------------------------
(* channel(): one receiver, which has observed nothing, not even the init. *)

Init ==
  /\ value = 1
  /\ valueLocked = FALSE
  /\ id = 1
  /\ mutex = NoOne
  /\ waiters = {}
  /\ receiversCount = 1
  /\ senderAlive = TRUE
  /\ spc = "idle"
  /\ \E first \in Receivers :
       rpc = [r \in Receivers |-> IF r = first THEN "idle" ELSE "unborn"]
  /\ path = [r \in Receivers |-> "poll"]
  /\ lastObserved = [r \in Receivers |-> 0]
  /\ delivered = [r \in Receivers |-> 0]
  /\ spurious = 0

-----------------------------------------------------------------------------
(* The sender.                                                             *)

MutantSendBumpsIdFirst ==
  /\ spc = "idle" /\ senderAlive
  /\ receiversCount # 0
  /\ value <= MaxSends
  /\ spc' = "replace"
  /\ id' = id + 1
  /\ UNCHANGED <<value, valueLocked, mutex, waiters, receiversCount, senderAlive,
                 rpc, path, lastObserved, delivered, spurious>>

\* send() with no receiver left returns ChannelClosed and changes nothing.
SendBegin ==
  /\ spc = "idle" /\ senderAlive
  /\ receiversCount # 0
  /\ value <= MaxSends
  /\ spc' = "replace"
  /\ UNCHANGED <<value, valueLocked, id, mutex, waiters, receiversCount, senderAlive,
                 rpc, path, lastObserved, delivered, spurious>>

ReplaceValue ==
  /\ spc = "replace"
  /\ valueLocked' = TRUE
  /\ value' = value + 1
  /\ spc' = "publish"
  /\ UNCHANGED <<id, mutex, waiters, receiversCount, senderAlive,
                 rpc, path, lastObserved, delivered, spurious>>

\* increment_id, then the write guard is dropped.
IncrementId ==
  /\ spc = "publish"
  /\ id' = id + 1
  /\ valueLocked' = FALSE
  /\ spc' = "wake"
  /\ UNCHANGED <<value, mutex, waiters, receiversCount, senderAlive,
                 rpc, path, lastObserved, delivered, spurious>>

LockToWake ==
  /\ spc = "wake"
  /\ mutex = NoOne
  /\ mutex' = Sender
  /\ spc' = "notify"
  /\ UNCHANGED <<value, valueLocked, id, waiters, receiversCount, senderAlive,
                 rpc, path, lastObserved, delivered, spurious>>

MutantNotifyOne ==
  /\ spc = "notify"
  /\ \/ waiters = {} /\ waiters' = {}
     \/ \E r \in waiters : waiters' = waiters \ {r}
  /\ mutex' = NoOne
  /\ spc' = IF senderAlive THEN "idle" ELSE "dropped"
  /\ UNCHANGED <<value, valueLocked, id, receiversCount, senderAlive,
                 rpc, path, lastObserved, delivered, spurious>>

\* notify_all, then the mutex guard is dropped.
NotifyAll ==
  /\ spc = "notify"
  /\ waiters' = {}
  /\ mutex' = NoOne
  /\ spc' = IF senderAlive THEN "idle" ELSE "dropped"
  /\ UNCHANGED <<value, valueLocked, id, receiversCount, senderAlive,
                 rpc, path, lastObserved, delivered, spurious>>

\* Drop for Sender; wake_up_threads follows.
DropSender ==
  /\ spc = "idle" /\ senderAlive
  /\ senderAlive' = FALSE
  /\ spc' = "wake"
  /\ UNCHANGED <<value, valueLocked, id, mutex, waiters, receiversCount,
                 rpc, path, lastObserved, delivered, spurious>>

SenderInCall == ReplaceValue \/ IncrementId \/ LockToWake \/ NotifyAll

-----------------------------------------------------------------------------
(* A receiver r.                                                           *)

Goto(r, pc) == rpc' = [rpc EXCEPT ![r] = pc]

\* Leaving a call drops the mutex guard the call may hold.
Return(r) ==
  /\ Goto(r, "idle")
  /\ mutex' = IF mutex = r THEN NoOne ELSE mutex

GetChanged(r) ==
  /\ rpc[r] = "idle"
  /\ Goto(r, "checkAlive")
  /\ path' = [path EXCEPT ![r] = "poll"]
  /\ UNCHANGED <<shared, mutex, waiters, lastObserved, delivered>>

WaitForChange(r) ==
  /\ rpc[r] = "idle"
  /\ Goto(r, "checkAlive")
  /\ path' = [path EXCEPT ![r] = "fast"]
  /\ UNCHANGED <<shared, mutex, waiters, lastObserved, delivered>>

CheckAlive(r) ==
  /\ rpc[r] = "checkAlive"
  /\ IF senderAlive THEN Goto(r, "loadId") /\ UNCHANGED mutex ELSE Return(r)
  /\ UNCHANGED <<shared, waiters, path, lastObserved, delivered>>

\* Ok(None): a poll returns, wait_for_change goes on to lock or to park.
LoadIdUnchanged(r) ==
  /\ rpc[r] = "loadId"
  /\ lastObserved[r] = id
  /\ \/ path[r] = "poll" /\ Return(r)
     \/ path[r] = "fast" /\ Goto(r, "lock") /\ UNCHANGED mutex
     \/ path[r] = "locked" /\ Goto(r, "enterWait") /\ UNCHANGED mutex
  /\ UNCHANGED <<shared, waiters, path, lastObserved, delivered>>

LoadIdChanged(r) ==
  /\ rpc[r] = "loadId"
  /\ lastObserved[r] # id
  /\ lastObserved' = [lastObserved EXCEPT ![r] = id]
  /\ Goto(r, "clone")
  /\ UNCHANGED <<shared, mutex, waiters, path, delivered>>

\* clone_value under the read lock, and the call returns the clone.
CloneValue(r) ==
  /\ rpc[r] = "clone"
  /\ ~valueLocked
  /\ delivered' = [delivered EXCEPT ![r] = value]
  /\ Return(r)
  /\ UNCHANGED <<shared, waiters, path, lastObserved>>

MutantLockWithoutRecheck(r) ==
  /\ rpc[r] = "lock"
  /\ mutex = NoOne
  /\ mutex' = r
  /\ path' = [path EXCEPT ![r] = "locked"]
  /\ Goto(r, "enterWait")
  /\ UNCHANGED <<shared, waiters, lastObserved, delivered>>

\* The mutex is taken and get_changed_internal is run once more under it.
LockToWait(r) ==
  /\ rpc[r] = "lock"
  /\ mutex = NoOne
  /\ mutex' = r
  /\ path' = [path EXCEPT ![r] = "locked"]
  /\ Goto(r, "checkAlive")
  /\ UNCHANGED <<shared, waiters, lastObserved, delivered>>

EnterWait(r) ==
  /\ rpc[r] = "enterWait"
  /\ waiters' = waiters \cup {r}
  /\ mutex' = NoOne
  /\ Goto(r, "parked")
  /\ UNCHANGED <<shared, path, lastObserved, delivered>>

\* The std condition variable may wake a thread nobody notified.
SpuriousWakeup(r) ==
  /\ spurious < MaxSpurious
  /\ r \in waiters
  /\ waiters' = waiters \ {r}
  /\ spurious' = spurious + 1
  /\ UNCHANGED <<value, valueLocked, id, mutex, receiversCount, senderAlive, spc,
                 rpc, path, lastObserved, delivered>>

Reacquire(r) ==
  /\ rpc[r] = "parked"
  /\ r \notin waiters
  /\ mutex = NoOne
  /\ mutex' = r
  /\ path' = [path EXCEPT ![r] = "woken"]
  /\ Goto(r, "recheckAlive")
  /\ UNCHANGED <<shared, waiters, lastObserved, delivered>>

RecheckAlive(r) ==
  /\ rpc[r] = "recheckAlive"
  /\ IF senderAlive THEN Goto(r, "reloadId") /\ UNCHANGED mutex ELSE Return(r)
  /\ UNCHANGED <<shared, waiters, path, lastObserved, delivered>>

ReloadId(r) ==
  /\ rpc[r] = "reloadId"
  /\ lastObserved' = [lastObserved EXCEPT ![r] = id]
  /\ Goto(r, "clone")
  /\ UNCHANGED <<shared, mutex, waiters, path, delivered>>

ReceiverInCall(r) ==
  \/ CheckAlive(r) \/ LoadIdUnchanged(r) \/ LoadIdChanged(r) \/ CloneValue(r)
  \/ LockToWait(r) \/ EnterWait(r) \/ Reacquire(r) \/ RecheckAlive(r) \/ ReloadId(r)

MutantCloneUncounted(r, q) ==
  /\ rpc[r] = "idle" /\ rpc[q] = "unborn"
  /\ Goto(q, "idle")
  /\ lastObserved' = [lastObserved EXCEPT ![q] = lastObserved[r]]
  /\ delivered' = [delivered EXCEPT ![q] = delivered[r]]
  /\ UNCHANGED <<shared, mutex, waiters, path>>

CloneReceiver(r, q) ==
  /\ rpc[r] = "idle" /\ rpc[q] = "unborn"
  /\ Goto(q, "idle")
  /\ receiversCount' = receiversCount + 1
  /\ lastObserved' = [lastObserved EXCEPT ![q] = lastObserved[r]]
  /\ delivered' = [delivered EXCEPT ![q] = delivered[r]]
  /\ UNCHANGED <<value, valueLocked, id, mutex, waiters, senderAlive, spc, path, spurious>>

DropReceiver(r) ==
  /\ rpc[r] = "idle"
  /\ Goto(r, "gone")
  /\ receiversCount' = receiversCount - 1
  /\ UNCHANGED <<value, valueLocked, id, mutex, waiters, senderAlive, spc, path,
                 lastObserved, delivered, spurious>>

-----------------------------------------------------------------------------
\* Both ends are dropped and the shared state is freed.
Terminated ==
  /\ spc = "dropped"
  /\ \A r \in Receivers : ~Live(r)
  /\ UNCHANGED vars

Next ==
  \/ SendBegin \/ SenderInCall \/ DropSender
  \/ \E r \in Receivers :
       \/ GetChanged(r) \/ WaitForChange(r) \/ ReceiverInCall(r)
       \/ SpuriousWakeup(r) \/ DropReceiver(r)
       \/ \E q \in Receivers : CloneReceiver(r, q)
  \/ Terminated

\* The operating system runs every thread that is inside a call; nobody is
\* obliged to start one.
Fairness ==
  /\ WF_vars(SenderInCall)
  /\ \A r \in Receivers : WF_vars(ReceiverInCall(r))

Spec == Init /\ [][Next]_vars /\ Fairness

-----------------------------------------------------------------------------
(* Properties.                                                             *)

\* Every variable has its type; the counter of receivers never wraps.
TypeOK ==
  /\ value \in 1..(MaxSends + 1)
  /\ valueLocked \in BOOLEAN
  /\ id \in 1..(MaxSends + 1)
  /\ mutex \in Receivers \cup {Sender, NoOne}
  /\ waiters \subseteq Receivers
  /\ receiversCount \in Nat
  /\ senderAlive \in BOOLEAN
  /\ spc \in SenderPC
  /\ rpc \in [Receivers -> ReceiverPC]
  /\ path \in [Receivers -> Paths]
  /\ lastObserved \in [Receivers -> 0..(MaxSends + 1)]
  /\ delivered \in [Receivers -> 0..(MaxSends + 1)]
  /\ spurious \in 0..MaxSpurious

\* A receiver parked on the condition variable has missed nothing: if there is
\* an id it has not observed, or the sender is gone, then the sender is still
\* on its way to notify_all (the double check under the mutex, watch.rs:137-143
\* against wake_up_threads, watch.rs:61-65).
NoLostWakeup ==
  \A r \in waiters :
    lastObserved[r] # id \/ ~senderAlive => spc \in {"wake", "notify"}

\* A receiver that has returned never holds a value older than the id it
\* recorded for it, so no later get_changed reports "unchanged" to a thread
\* that works on a superseded job (watch.rs:41-47 and 125-130).
NeverBehindObservedId ==
  \A r \in Receivers : rpc[r] = "idle" => delivered[r] >= lastObserved[r]

\* The channel implements the register that its users think of: each call
\* returns the latest value, an empty poll means the receiver is up to date,
\* and a blocked receiver returns once there is news or the sender is dropped.
Calling(r) ==
  CASE ~Live(r)        -> "absent"
    [] rpc[r] = "idle" -> "no"
    [] OTHER           -> IF path[r] = "poll" THEN "poll" ELSE "wait"

Register == INSTANCE LatestValue WITH
  published <- id,
  open <- senderAlive,
  seen <- delivered,
  calling <- [r \in Receivers |-> Calling(r)]

ImplementsRegister == Register!Spec
=============================================================================
