-------------------------------- MODULE Powers --------------------------------
(* Powers of two by their recursion, which is the form that proofs need.       *)
EXTENDS Integers

\* 2 ^ n
Power[n \in Nat] == IF n = 0 THEN 1 ELSE 2 * Power[n - 1]
=============================================================================
