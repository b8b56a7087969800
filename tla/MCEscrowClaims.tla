--------------------------- MODULE MCEscrowClaims ---------------------------
(* Instances of EscrowClaims for TLC.                                      *)
EXTENDS EscrowClaims, TLC

CONSTANTS h1, h2, c1, c2, c3, t1

MCHashes == {h1, h2}
MCTxids == {c1, c2, c3, t1}

MCReward == t1 :> 3
MCFreeReward == t1 :> 0

BlockOf(hash, daa, reds, txid, outs) ==
  [hash |-> hash, daa |-> daa, reds |-> reds, txid |-> txid, outs |-> outs]

Ours == BlockOf(h1, 1, {}, c1, <<3, 3>>)
Foreign(daa, txid) == BlockOf(NoHash, daa, {}, txid, <<0>>)

\* One coinbase pays us twice; then blocks of other miners.
MCBlocks == {Ours, Foreign(5, c2), Foreign(8, c3)}

\* One coinbase pays us once; the block that follows ours finds it red.
MCBlocksRedOnce == {
  BlockOf(h1, 1, {}, c1, <<3>>),
  BlockOf(h2, 2, {h1}, c2, <<0>>),
  Foreign(4, c3), Foreign(8, c3)}
=============================================================================
