------------------------------ MODULE MCTreasury ------------------------------
(* Treasury over two interchangeable tenants, two vaults and small amounts. *)
EXTENDS Treasury, TLC

MCRates == {2, 3}
MCAmounts == 1..2
MCSymmetry == Permutations(Tenants)
===============================================================================
