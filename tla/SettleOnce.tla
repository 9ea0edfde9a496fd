----------------------------- MODULE SettleOnce -----------------------------
(* What settlement promises for an approved card transaction: its Safe pays  *)
(* at most once, and the Transaction row says "settled" only of a payment    *)
(* that was made.  A row may be given up, before or after the payment, and   *)
(* may be corrected later.                                                   *)
EXTENDS Naturals

CONSTANT Tokens

VARIABLES
  payments,  \* payments[t]: how many times the Safe paid for t
  row        \* row[t]: Transaction.status

Init ==
  /\ payments = [t \in Tokens |-> 0]
  /\ row = [t \in Tokens |-> "approved"]

Pay(t) ==
  /\ payments[t] = 0
  /\ payments' = [payments EXCEPT ![t] = 1]
  /\ UNCHANGED row

BookSettled(t) ==
  /\ payments[t] = 1
  /\ row' = [row EXCEPT ![t] = "settled"]
  /\ UNCHANGED payments

GiveUp(t) ==
  /\ row' = [row EXCEPT ![t] = "failed"]
  /\ UNCHANGED payments

Next == \E t \in Tokens : Pay(t) \/ BookSettled(t) \/ GiveUp(t)

Spec == Init /\ [][Next]_<<payments, row>>
=============================================================================
