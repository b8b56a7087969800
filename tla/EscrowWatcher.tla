---------------------------- MODULE EscrowWatcher ----------------------------
(***************************************************************************)
(* EscrowWatcher of src/escrow.rs: it tracks the outputs that pay to this  *)
(* miner's escrow script, claims each one when its challenge window is     *)
(* over, one claim transaction at a time, and keeps its list in a file.    *)
(*                                                                         *)
(* An escrow output is named by its outpoint <<txid, index>>.  Hex text,   *)
(* scripts and signatures are left out: a block lists for each output of   *)
(* its coinbase the amount it pays to the escrow script, 0 for a script    *)
(* that is somebody else's.                                                *)
(***************************************************************************)
EXTENDS Integers, Sequences, FiniteSets

CONSTANTS
  Blocks,             \* the blocks the node may show to the watcher
  Hashes, Txids,      \* block hashes and transaction ids
  NoHash, NoTxid,     \* the empty strings of both
  Reward,             \* Reward[t]: inference reward of the AiRequest t
  Window,             \* CHALLENGE_WINDOW_BLOCKS
  Margin,             \* the + 10 of find_claim
  Fee,                \* CLAIM_FEE_SOMPI
  OrphanCooldown,     \* ORPHAN_RETRY_COOLDOWN_BLOCKS
  SeqLockCooldown,    \* SEQ_LOCK_RETRY_COOLDOWN_BLOCKS
  MaxOrphanRetries,   \* MAX_ORPHAN_RETRIES
  CompactEvery,       \* COMPACT_EVERY_BLOCKS
  DiskMayFail,        \* fs::write may fail, leaving the old file or an empty one
  NoClaim             \* pending_claim_txid is None

Block == [hash : Hashes \cup {NoHash}, daa : Nat, reds : SUBSET Hashes,
          txid : Txids \cup {NoTxid}, outs : Seq(Nat)]
Outpoint == Txids \X Nat

ASSUME BlocksAssumption == Blocks \subseteq Block
ASSUME NamesAssumption ==
  NoHash \notin Hashes /\ NoTxid \notin Txids /\ NoClaim \notin Outpoint
ASSUME RewardAssumption == DOMAIN Reward \subseteq Txids /\ \A t \in DOMAIN Reward : Reward[t] \in Nat
ASSUME NumbersAssumption ==
  /\ {Window, Margin, Fee, OrphanCooldown, SeqLockCooldown} \subseteq Nat
  /\ {MaxOrphanRetries, CompactEvery} \subseteq Nat \ {0}
  /\ DiskMayFail \in BOOLEAN

VARIABLES
  entries,              \* state.entries
  pending,              \* outpoint of the claim in flight, or NoClaim
  lastDaa,              \* last_daa_score
  outpointSet,          \* outpoint_set
  blockIndex,           \* block_index, {} for a hash it has no key for
  dirty,                \* unsaved changes
  saveDue,              \* STATE_SAVE_INTERVAL has elapsed since last_save
  blocksSinceCompact,   \* blocks_since_compact
  file                  \* what load_state would read from state_path

vars == <<entries, pending, lastDaa, outpointSet, blockIndex, dirty, saveDue,
          blocksSinceCompact, file>>

\* EscrowEntry.  retryAfter is orphan_retry_after_daa, 0 for None (every score
\* reaches 0); orphan_slashed is left out, for no code reads it.
Entry == [outpoint : Outpoint, block : Hashes \cup {NoHash}, confirm : Nat,
          amount : Nat, claimed : BOOLEAN, slashed : BOOLEAN,
          retries : Nat, retryAfter : Nat, inference : BOOLEAN]

NewEntry(outpoint, block, confirm, amount, inference) ==
  [outpoint |-> outpoint, block |-> block, confirm |-> confirm, amount |-> amount,
   claimed |-> FALSE, slashed |-> FALSE, retries |-> 0, retryAfter |-> 0,
   inference |-> inference]

Open(e) == ~e.claimed /\ ~e.slashed

\* rebuild_indexes
OutpointsOf(es) == {es[i].outpoint : i \in DOMAIN es}
IndexOf(es) == [h \in Hashes |-> {i \in DOMAIN es : es[i].block = h}]

-----------------------------------------------------------------------------
(* Persistence.                                                            *)

Written(es) == IF DiskMayFail THEN {es, file, <<>>} ELSE {es}

\* mark_dirty if changed, then maybe_flush.
MaybeFlush(es, changed) ==
  IF (dirty \/ changed) /\ saveDue
  THEN /\ file' \in Written(es)
       /\ dirty' = FALSE
       /\ saveDue' = FALSE
  ELSE /\ dirty' = (dirty \/ changed)
       /\ UNCHANGED <<file, saveDue>>

SaveIntervalElapses ==
  /\ ~saveDue
  /\ saveDue' = TRUE
  /\ UNCHANGED <<entries, pending, lastDaa, outpointSet, blockIndex, dirty,
                 blocksSinceCompact, file>>

-----------------------------------------------------------------------------
(* handle_block.                                                           *)

\* The ways to number a finite set of integers in ascending order: just one.
Ascending(S) ==
  {f \in [1..Cardinality(S) -> S] :
     \A i, j \in 1..Cardinality(S) : i < j => f[i] < f[j]}

\* compact: what Vec::retain leaves of es when the block counter says so.
Compacted(es, due) ==
  LET keep == {i \in DOMAIN es : Open(es[i])}
  IN  IF due
      THEN {[k \in 1..Cardinality(keep) |-> es[f[k]]] : f \in Ascending(keep)}
      ELSE {es}

\* The positions the block index gives for the red hashes, still to be slashed.
Reddened(es, index, reds) ==
  {i \in DOMAIN es : /\ \E h \in reds : i \in index[h]
                     /\ Open(es[i]) /\ ~es[i].inference /\ es[i].block # NoHash}

Slashed(es, positions) ==
  [i \in DOMAIN es |-> IF i \in positions THEN [es[i] EXCEPT !.slashed = TRUE] ELSE es[i]]

\* Positions (from 1) of the coinbase outputs that are ours and not yet known.
NewOutputs(b, known) ==
  {k \in DOMAIN b.outs : b.outs[k] # 0 /\ <<b.txid, k - 1>> \notin known}

EntriesFor(b, f) ==
  [k \in DOMAIN f |-> NewEntry(<<b.txid, f[k] - 1>>, b.hash, b.daa, b.outs[f[k]], FALSE)]

\* block_index after n entries were pushed behind the first len ones.
Indexed(index, hash, len, n) ==
  [h \in Hashes |-> IF h = hash THEN index[h] \cup ((len + 1)..(len + n)) ELSE index[h]]

Eligible(es, daa) ==
  {i \in DOMAIN es : /\ Open(es[i])
                     /\ daa >= es[i].confirm + Window + Margin
                     /\ daa >= es[i].retryAfter}

\* The entry find_claim settles on: the first eligible inference entry, or else
\* the first eligible one.
ClaimChoice(es, daa) ==
  LET eligible  == Eligible(es, daa)
      inference == {i \in eligible : es[i].inference}
      from      == IF inference # {} THEN inference ELSE eligible
  IN  {i \in from : \A j \in from : i <= j}

MutantFindClaimIgnoresPending(es, daa) ==
  \/ \E i \in ClaimChoice(es, daa) :
       /\ es[i].amount > Fee
       /\ pending' = es[i].outpoint
  \/ /\ \A i \in ClaimChoice(es, daa) : es[i].amount <= Fee
     /\ UNCHANGED pending

\* find_claim; build_claim_tx refuses an amount that does not exceed the fee.
FindClaim(es, daa) ==
  \/ /\ pending = NoClaim
     /\ \E i \in ClaimChoice(es, daa) :
          /\ es[i].amount > Fee
          /\ pending' = es[i].outpoint
  \/ /\ \/ pending # NoClaim
        \/ \A i \in ClaimChoice(es, daa) : es[i].amount <= Fee
     /\ UNCHANGED pending

\* Only an actual removal rebuilds the indexes and marks the state dirty.
MutantAfterCompaction(kept) ==
  [outpoints |-> outpointSet, index |-> blockIndex, changed |-> Len(kept) # Len(entries)]

AfterCompaction(kept) ==
  IF Len(kept) # Len(entries)
  THEN [outpoints |-> OutpointsOf(kept), index |-> IndexOf(kept), changed |-> TRUE]
  ELSE [outpoints |-> outpointSet, index |-> blockIndex, changed |-> FALSE]

MutantCompactDue == blocksSinceCompact + 1 > CompactEvery

CompactDue == blocksSinceCompact + 1 >= CompactEvery

HandleBlock(b) ==
  /\ lastDaa' = b.daa
  /\ blocksSinceCompact' = IF CompactDue THEN 0 ELSE blocksSinceCompact + 1
  /\ \E kept \in Compacted(entries, CompactDue) :
       LET known   == AfterCompaction(kept)
           reds    == Reddened(kept, known.index, b.reds)
           es      == Slashed(kept, reds)
           changed == known.changed \/ reds # {}
       IN  \/ \* no coinbase id: the early return skips the flush and the claim
              /\ b.txid = NoTxid
              /\ entries' = es
              /\ outpointSet' = known.outpoints
              /\ blockIndex' = known.index
              /\ dirty' = (dirty \/ changed)
              /\ UNCHANGED <<pending, saveDue, file>>
           \/ /\ b.txid # NoTxid
              /\ \E f \in Ascending(NewOutputs(b, known.outpoints)) :
                   /\ entries' = es \o EntriesFor(b, f)
                   /\ outpointSet' = known.outpoints \cup {<<b.txid, f[k] - 1>> : k \in DOMAIN f}
                   /\ blockIndex' = Indexed(known.index, b.hash, Len(es), Len(f))
                   /\ FindClaim(entries', b.daa)
                   /\ MaybeFlush(entries', changed \/ f # <<>>)

-----------------------------------------------------------------------------
(* on_submit_response and track_inference_escrow.                          *)

Verdicts == {"accepted", "orphan", "sequence lock", "other"}

MutantIsPending(e) == Open(e)

IsPending(e) == e.outpoint = pending

MutantResolved(e, verdict) ==
  CASE verdict = "accepted"      -> [e EXCEPT !.claimed = TRUE]
    [] verdict = "sequence lock" -> [e EXCEPT !.retryAfter = lastDaa + SeqLockCooldown]
    [] OTHER                     -> [e EXCEPT !.slashed = TRUE]

Resolved(e, verdict) ==
  CASE verdict = "accepted"      -> [e EXCEPT !.claimed = TRUE]
    [] verdict = "orphan"        ->
         IF e.retries + 1 >= MaxOrphanRetries
         THEN [e EXCEPT !.retries = @ + 1, !.slashed = TRUE]
         ELSE [e EXCEPT !.retries = @ + 1, !.retryAfter = lastDaa + OrphanCooldown]
    [] verdict = "sequence lock" -> [e EXCEPT !.retryAfter = lastDaa + SeqLockCooldown]
    [] verdict = "other"         -> [e EXCEPT !.slashed = TRUE]

MutantOnSubmitResponse(verdict) ==
  /\ pending # NoClaim
  /\ entries' = [i \in DOMAIN entries |->
                   IF IsPending(entries[i]) /\ (\A j \in 1..(i - 1) : ~IsPending(entries[j]))
                   THEN Resolved(entries[i], verdict)
                   ELSE entries[i]]
  /\ pending' = IF verdict = "sequence lock" THEN pending ELSE NoClaim
  /\ MaybeFlush(entries', TRUE)
  /\ UNCHANGED <<lastDaa, outpointSet, blockIndex, blocksSinceCompact>>

\* The first entry with the pending outpoint is resolved, if it is still there.
OnSubmitResponse(verdict) ==
  /\ pending # NoClaim
  /\ entries' = [i \in DOMAIN entries |->
                   IF IsPending(entries[i]) /\ (\A j \in 1..(i - 1) : ~IsPending(entries[j]))
                   THEN Resolved(entries[i], verdict)
                   ELSE entries[i]]
  /\ pending' = NoClaim
  /\ MaybeFlush(entries', TRUE)
  /\ UNCHANGED <<lastDaa, outpointSet, blockIndex, blocksSinceCompact>>

MutantTrackInferenceEscrow(t, daa) ==
  IF Reward[t] = 0
  THEN UNCHANGED vars
  ELSE /\ entries' = Append(entries, NewEntry(<<t, 1>>, NoHash, daa, Reward[t], TRUE))
       /\ outpointSet' = outpointSet \cup {<<t, 1>>}
       /\ MaybeFlush(entries', TRUE)
       /\ UNCHANGED <<pending, lastDaa, blockIndex, blocksSinceCompact>>

\* Output 1 of an AiRequest is its escrow.
TrackInferenceEscrow(t, daa) ==
  IF Reward[t] = 0 \/ <<t, 1>> \in outpointSet
  THEN UNCHANGED vars
  ELSE /\ entries' = Append(entries, NewEntry(<<t, 1>>, NoHash, daa, Reward[t], TRUE))
       /\ outpointSet' = outpointSet \cup {<<t, 1>>}
       /\ MaybeFlush(entries', TRUE)
       /\ UNCHANGED <<pending, lastDaa, blockIndex, blocksSinceCompact>>

-----------------------------------------------------------------------------
(* new: the state is what the file holds, the indexes are rebuilt.         *)

Load ==
  /\ entries' = file
  /\ pending' = NoClaim
  /\ lastDaa' = 0
  /\ outpointSet' = OutpointsOf(file)
  /\ blockIndex' = IndexOf(file)
  /\ dirty' = FALSE
  /\ saveDue' = FALSE
  /\ blocksSinceCompact' = 0
  /\ UNCHANGED file

\* The watcher is dropped without a flush when the connection or the process
\* ends, and a new one is built for the next connection.
Restart == Load

Init ==
  /\ entries = <<>>
  /\ pending = NoClaim
  /\ lastDaa = 0
  /\ outpointSet = {}
  /\ blockIndex = [h \in Hashes |-> {}]
  /\ dirty = FALSE
  /\ saveDue = FALSE
  /\ blocksSinceCompact = 0
  /\ file = <<>>

\* Any caller: blocks in any order and more than once, any answer to a claim,
\* inference escrows at the score of any block.
Next ==
  \/ \E b \in Blocks : HandleBlock(b)
  \/ \E verdict \in Verdicts : OnSubmitResponse(verdict)
  \/ \E t \in DOMAIN Reward, b \in Blocks : TrackInferenceEscrow(t, b.daa)
  \/ SaveIntervalElapses
  \/ Restart

Spec == Init /\ [][Next]_vars

-----------------------------------------------------------------------------
(* Properties.                                                             *)

\* Every variable has its type.
TypeOK ==
  /\ entries \in Seq(Entry) /\ file \in Seq(Entry)
  /\ pending \in Outpoint \cup {NoClaim}
  /\ lastDaa \in Nat
  /\ outpointSet \subseteq Outpoint
  /\ blockIndex \in [Hashes -> SUBSET Nat]
  /\ dirty \in BOOLEAN /\ saveDue \in BOOLEAN
  /\ blocksSinceCompact \in 0..(CompactEvery - 1)

Distinct(es) == \A i, j \in DOMAIN es : es[i].outpoint = es[j].outpoint => i = j

\* An output is tracked once, in memory and in the file, whatever is redelivered,
\* compacted, reloaded or recorded by both paths; a second entry would be claimed
\* as a double spend (outpoint_set, escrow.rs:257-283 and 486-509).
OneEntryPerOutpoint == Distinct(entries) /\ Distinct(file)

\* The two indexes always say what the entries say, so deduplication never lets a
\* known output in and a red block slashes the entries of that block and no other:
\* compaction renumbers the entries (escrow.rs:164-184), pushes append to them.
IndexesExact ==
  /\ outpointSet = OutpointsOf(entries)
  /\ blockIndex = IndexOf(entries)
=============================================================================
