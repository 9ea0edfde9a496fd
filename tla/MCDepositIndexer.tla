-------------------------- MODULE MCDepositIndexer --------------------------
(* Instances of DepositIndexer: one Safe, registered before or after it is   *)
(* funded.                                                                   *)
EXTENDS DepositIndexer

CONSTANTS w1, w2, d1, d2, s1, safe

OneSafe == [d \in Deposits |-> safe]
=============================================================================
