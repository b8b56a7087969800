---------------------------- MODULE MCGrpcClient ----------------------------
(* Instances of GrpcClient for TLC.                                        *)
EXTENDS GrpcClient, TLC

CONSTANTS t1, t2, p1, p2

MCTxs == {t1, t2}
MCPayloads == {p1, p2}
MCPayloadOf == (t1 :> p1) @@ (t2 :> p2)
MCPaid == {p1}
MCScores == {1, 3}
=============================================================================
