---------------------------- MODULE MCSettlement ----------------------------
(* An instance of Settlement: two purchases, one backend process.            *)
EXTENDS Settlement

CONSTANTS w1, coffee, books
=============================================================================
