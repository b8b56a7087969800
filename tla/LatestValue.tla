----------------------------- MODULE LatestValue -----------------------------
(***************************************************************************)
(* What the watch channel promises to its users, without locks, condition  *)
(* variables or ids: one sender keeps replacing a value, each receiver can *)
(* ask whether there is a newer one (poll) or block until there is (wait). *)
(* A value is named by its rank: the channel's initial value is 1 and each *)
(* send publishes the next rank.                                           *)
(***************************************************************************)
EXTENDS Naturals

CONSTANT Receivers

VARIABLES
  published,   \* rank of the latest published value
  open,        \* TRUE until the sender is dropped
  seen,        \* seen[r]: rank of the last value returned to r, 0 if none
  calling      \* calling[r]: "absent", "no", "poll" or "wait"

vars == <<published, open, seen, calling>>

Init ==
  /\ published = 1
  /\ open = TRUE
  /\ seen = [r \in Receivers |-> 0]
  /\ \E first \in Receivers :
       calling = [r \in Receivers |-> IF r = first THEN "no" ELSE "absent"]

Publish ==
  /\ open
  /\ published' = published + 1
  /\ UNCHANGED <<open, seen, calling>>

Close ==
  /\ open
  /\ open' = FALSE
  /\ UNCHANGED <<published, seen, calling>>

\* A clone starts from what its original has seen, or from nothing at all.
Join(r) ==
  /\ calling[r] = "absent"
  /\ calling' = [calling EXCEPT ![r] = "no"]
  /\ \E q \in Receivers : seen' = [seen EXCEPT ![r] = seen[q]]
  /\ UNCHANGED <<published, open>>

Leave(r) ==
  /\ calling[r] = "no"
  /\ calling' = [calling EXCEPT ![r] = "absent"]
  /\ UNCHANGED <<published, open, seen>>

Call(r) ==
  /\ calling[r] = "no"
  /\ \E c \in {"poll", "wait"} : calling' = [calling EXCEPT ![r] = c]
  /\ UNCHANGED <<published, open, seen>>

\* Whatever a call returns is the latest value at that very moment.
Deliver(r) ==
  /\ calling[r] \in {"poll", "wait"}
  /\ seen' = [seen EXCEPT ![r] = published]
  /\ calling' = [calling EXCEPT ![r] = "no"]
  /\ UNCHANGED <<published, open>>

\* Only a poll may come back empty handed, and only if r is up to date.
Unchanged(r) ==
  /\ calling[r] = "poll"
  /\ seen[r] = published
  /\ calling' = [calling EXCEPT ![r] = "no"]
  /\ UNCHANGED <<published, open, seen>>

Closed(r) ==
  /\ calling[r] \in {"poll", "wait"}
  /\ ~open
  /\ calling' = [calling EXCEPT ![r] = "no"]
  /\ UNCHANGED <<published, open, seen>>

Return(r) == Deliver(r) \/ Unchanged(r) \/ Closed(r)

\* A call that has a reason to return: it is a poll, there is a value r has
\* not seen, or the channel is closed.
MustReturn(r) ==
  /\ calling[r] = "poll" \/ seen[r] < published \/ ~open
  /\ Return(r)

Next ==
  \/ Publish
  \/ Close
  \/ \E r \in Receivers : Join(r) \/ Leave(r) \/ Call(r) \/ Return(r)

Safety == Init /\ [][Next]_vars

Spec == Safety /\ \A r \in Receivers : WF_vars(MustReturn(r))
=============================================================================
