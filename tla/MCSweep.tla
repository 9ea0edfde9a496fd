------------------------------- MODULE MCSweep -------------------------------
(* An instance of Sweep: one backend process with its settlement worker, its *)
(* two sweeping loops and its top-up, over one user's Safe.                  *)
EXTENDS Sweep, TLC

CONSTANTS w1, coffee, sweepService, yieldManager, topUp

OneEach == [t \in Tokens |-> 1]
Balances == [s \in Safes |-> IF s = "issuer" THEN 1 ELSE 2]

Alike == Permutations({sweepService, yieldManager})
=============================================================================
