--------------------------- MODULE MCGpuResidency ---------------------------
(* Instance of GpuResidency for TLC.                                       *)
EXTENDS GpuResidency, TLC

CONSTANTS w0, w1, d0, d1, t1, t2

MCWorkers == {w0, w1}
MCDevices == {d0, d1}
MCDevice == (w0 :> d0) @@ (w1 :> d1)
MCTasks == {t1, t2}
=============================================================================
