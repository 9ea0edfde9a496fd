--------------------------- MODULE MCSpendSettler ---------------------------
(* An instance of SpendSettler.  Address and token model values are given in *)
(* the cfg file.                                                             *)
EXTENDS SpendSettler, TLC

CONSTANTS user, issuer, usdcA, usdcB, tx1, tx2, tx3

Alike == Permutations(TxTokens)
=============================================================================
