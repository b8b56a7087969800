--------------------------- MODULE MCEscrowWatcher ---------------------------
(* Instance of EscrowWatcher for TLC: the watcher against any caller.      *)
EXTENDS EscrowWatcher, TLC

CONSTANTS h1, h2, c1, c2, t1, t2

MCHashes == {h1, h2}
MCTxids == {c1, c2, t1, t2}
MCReward == (t1 :> 3) @@ (t2 :> 0)

BlockOf(hash, daa, reds, txid, outs) ==
  [hash |-> hash, daa |-> daa, reds |-> reds, txid |-> txid, outs |-> outs]

\* Two blocks that pay us and one of somebody else, which has no coinbase id and
\* finds the first one red.
MCBlocks == {
  BlockOf(h1, 1, {}, c1, <<0, 3>>),
  BlockOf(h2, 3, {}, c2, <<0, 3>>),
  BlockOf(NoHash, 1, {h1}, NoTxid, <<>>) }
=============================================================================
