------------------------------ MODULE AuthCache ------------------------------
(***************************************************************************)
(* The authorization cache entry of backend/src/lib/redis.ts and the test  *)
(* and update that its Lua script and its WATCH/MULTI/EXEC fallback share.  *)
(* A limit of 0 means unlimited.                                            *)
(***************************************************************************)
EXTENDS Integers

Period == {"daily", "monthly"}

AuthorizationCache == [usdcBalance : Nat, spent : [Period -> Nat], limit : [Period -> Nat]]

\* dailySpent + spend > dailyLimit, or the same for the month.
OverLimit(cache, spend) ==
  \E p \in Period : cache.limit[p] > 0 /\ cache.spent[p] + spend > cache.limit[p]

\* The errors of the script: insufficient_balance, daily_limit, monthly_limit.
RefusesMutant(cache, spend) == OverLimit(cache, spend)
Refuses(cache, spend) == cache.usdcBalance < spend \/ OverLimit(cache, spend)

Charged(cache, spend) ==
  [usdcBalance |-> cache.usdcBalance - spend,
   spent |-> [p \in Period |-> cache.spent[p] + spend],
   limit |-> cache.limit]
=============================================================================
