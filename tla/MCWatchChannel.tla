--------------------------- MODULE MCWatchChannel ---------------------------
(* Instance of WatchChannel for TLC.                                       *)
EXTENDS WatchChannel

CONSTANTS r1, r2

MCReceivers == {r1, r2}
=============================================================================
