----------------------------- MODULE MCCacheSync -----------------------------
(* Instances of CacheSync: two writers, spends of one and two units.         *)
EXTENDS CacheSync

CONSTANTS w1, w2, coffee, books

MCAmountOf == [s \in Spends |-> IF s = books THEN 2 ELSE 1]
DailyTwo == [p \in Period |-> IF p = "daily" THEN 2 ELSE 0]
=============================================================================
