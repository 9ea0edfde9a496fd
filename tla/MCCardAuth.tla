----------------------------- MODULE MCCardAuth -----------------------------
(* Instances of CardAuth: a purchase and its replay, on one process and so   *)
(* on one Redis connection, or on two.                                       *)
EXTENDS CardAuth

CONSTANTS d1, d2, coffee, p1, p2, user

MCAmountOf == [t \in TxTokens |-> 1]

Replayed == [d \in Deliveries |-> coffee]

Limits(daily, monthly) == [p \in Period |-> IF p = "daily" THEN daily ELSE monthly]
Unlimited == Limits(0, 0)
DailyOne == Limits(1, 0)

\* The processes are alike: d1's is p1.  Requests that share a connection are
\* checked with jobs to enqueue and another request's refill; requests that do
\* not, with crashes and replay keys that run out.
MCInit ==
  /\ Init /\ processOf[d1] = p1
  /\ settles = Shared
  /\ refills = IF Shared THEN 0 ELSE MaxRefills

MCNext ==
  /\ Next
  /\ Shared => /\ UNCHANGED crashes
               /\ \A t \in TxTokens : processed'[t] = "none" => processed[t] = "none"

MCSpec == MCInit /\ [][MCNext]_vars
MCFairSpec == MCSpec /\ Fairness
=============================================================================
