-------------------------------- MODULE Sweep --------------------------------
(***************************************************************************)
(* The loops that move USDC between the Safes: SweepService                *)
(* (backend/src/services/sweep-service.ts), sweep() and topUpIssuerSafe()  *)
(* of the yield manager (backend/src/services/yield-manager.ts).  They     *)
(* send from the settler's account, beside the settlement workers, for one *)
(* user whose M2 Safe the workers spend from.                              *)
(*                                                                         *)
(* A loop runs one transfer at a time; its actions are its awaits, and     *)
(* viem's sendTransaction() is two of them: the nonce and the gas estimate *)
(* of the call, then the raw transaction.  The transfer is sent to the     *)
(* Safe as a call of the Safe itself; whether a Safe executes it is        *)
(* outside this repository.  A failed query of users or balances only ends *)
(* a cycle: the circuit breaker delays the next one, and no time is        *)
(* counted here.  The audit log, which nothing reads, is left out.         *)
(***************************************************************************)
EXTENDS Settlement, Functions

CONSTANTS
  Sweepers,         \* the loops that sweep: two in each backend process
  ToppingUp,        \* the loops that top up the issuer Safe: one in each
  Price,            \* Price[t]: the amount of t's settle()
  PlatformShare,    \* what another transaction of the account, an allocation, moves
  InitialUsdc,      \* InitialUsdc[s]: the balance of a Safe
  sweepThreshold,
  ISSUER_SAFE_MIN_BALANCE, ISSUER_SAFE_TOPUP_AMOUNT

Loops == Sweepers \cup ToppingUp
Safes == {"m2", "treasury", "issuer"}

ASSUME SweepAssumption ==
  /\ Sweepers \cap ToppingUp = {}
  /\ Price \in [Tokens -> Nat] /\ InitialUsdc \in [Safes -> Nat]
  /\ PlatformShare \in Nat /\ sweepThreshold \in Nat
  /\ ISSUER_SAFE_MIN_BALANCE \in Nat /\ ISSUER_SAFE_TOPUP_AMOUNT \in Nat
  /\ ISSUER_SAFE_MIN_BALANCE <= ISSUER_SAFE_TOPUP_AMOUNT

VARIABLES
  usdc,         \* usdc[s]: the Safe's balance
  executes,     \* whether a Safe executes the transfer it is called with
  calls,        \* calls[i]: what the loops' transaction i carries
  at, amount,   \* at[l], amount[l]: where a loop stands, what it moves
  ref,          \* ref[l]: the nonce, then the index in txs of its transaction
  sweepRows,    \* the BalanceLedger rows of type sweep: [tx, amount]
  abandoned     \* history: transactions whose sender left before it booked them

money     == <<usdc, executes>>
loops     == <<at, amount, ref>>
sweepVars == <<money, calls, loops, sweepRows, abandoned>>

Kind == {"sweep", "topUp", "allocation"}

SweepTypeOK ==
  /\ usdc \in [Safes -> Nat]
  /\ executes \in BOOLEAN
  /\ DOMAIN calls = {i \in DOMAIN txs : txs[i].token = NoToken}
  /\ \A i \in DOMAIN calls : calls[i] \in [kind : Kind, amount : Nat]
  /\ at \in [Loops -> {"idle", "treasury", "prepare", "send", "receipt", "record"}]
  /\ amount \in [Loops -> Nat] /\ ref \in [Loops -> Nat]
  /\ sweepRows \subseteq [tx : DOMAIN calls, amount : Nat]
  /\ abandoned \subseteq DOMAIN calls

SweepInit ==
  /\ Init
  /\ usdc = InitialUsdc
  /\ executes \in BOOLEAN
  /\ calls = << >>
  /\ at = [l \in Loops |-> "idle"]
  /\ amount = [l \in Loops |-> 0]
  /\ ref = [l \in Loops |-> 0]
  /\ sweepRows = {} /\ abandoned = {}

-----------------------------------------------------------------------------
(* The Safes *)

From(kind) == IF kind = "sweep" THEN "m2" ELSE "treasury"
To(kind)   == IF kind = "sweep" THEN "treasury" ELSE "issuer"

Covered(safe, n) == n <= usdc[safe]

Moved(from, to, n) == [usdc EXCEPT ![from] = @ - n, ![to] = @ + n]

\* A call of a Safe: one that executes it needs the balance; one that does not
\* succeeds all the same and moves nothing.
SafeTakesCall(call) == executes => Covered(From(call.kind), call.amount)

\* A transaction is mined: settle() moves USDC from the M2 Safe to the issuer's,
\* a loop's transaction what it carries.
MineTransaction(i) ==
  /\ Mine(i)
  /\ LET t == txs[i].token
         success == txs'[i].status = "success"
     IN  \/ /\ t \in Tokens /\ success
            /\ Covered("m2", Price[t])
            /\ usdc' = Moved("m2", "issuer", Price[t])
         \/ /\ t \in Tokens /\ ~success
            /\ SettleRefuses(t) \/ ~Covered("m2", Price[t])
            /\ UNCHANGED usdc
         \/ /\ t = NoToken /\ success /\ executes
            /\ SafeTakesCall(calls[i])
            /\ usdc' = Moved(From(calls[i].kind), To(calls[i].kind), calls[i].amount)
         \/ /\ t = NoToken /\ success = SafeTakesCall(calls[i]) /\ ~(success /\ executes)
            /\ UNCHANGED usdc
  /\ UNCHANGED <<executes, calls, loops, sweepRows, abandoned>>

\* The user deposits one unit into the M2 Safe; MaxDisruptions bounds it too.
Deposit ==
  /\ Disrupt
  /\ usdc' = [usdc EXCEPT !["m2"] = @ + 1]
  /\ UNCHANGED <<queue, worker, chain, row, dropped, executes, calls, loops, sweepRows, abandoned>>

-----------------------------------------------------------------------------
(* A loop *)

KindOf(l) == IF l \in Sweepers THEN "sweep" ELSE "topUp"
Call(l)   == [kind |-> KindOf(l), amount |-> amount[l]]

Moves(l, next) == at' = [at EXCEPT ![l] = next]

\* The cycle is over for this user, or for the loop.
Rests(l) ==
  /\ at' = [at EXCEPT ![l] = "idle"]
  /\ amount' = [amount EXCEPT ![l] = 0]
  /\ ref' = [ref EXCEPT ![l] = 0]

\* More than the threshold in the M2 Safe: all of it is to be swept.
ReadBalance(l) ==
  /\ l \in Sweepers /\ at[l] = "idle"
  /\ usdc["m2"] > sweepThreshold
  /\ Moves(l, "prepare")
  /\ amount' = [amount EXCEPT ![l] = usdc["m2"]]
  /\ UNCHANGED <<vars, money, calls, ref, sweepRows, abandoned>>

\* The top-up reaches the target from the balance read.
TopUpAmountMutant(balance) == ISSUER_SAFE_TOPUP_AMOUNT
TopUpAmount(balance) == ISSUER_SAFE_TOPUP_AMOUNT - balance

ReadIssuerBalance(l) ==
  /\ l \in ToppingUp /\ at[l] = "idle"
  /\ usdc["issuer"] < ISSUER_SAFE_MIN_BALANCE
  /\ Moves(l, "treasury")
  /\ amount' = [amount EXCEPT ![l] = TopUpAmount(usdc["issuer"])]
  /\ UNCHANGED <<vars, money, calls, ref, sweepRows, abandoned>>

ReadTreasuryBalance(l) ==
  /\ at[l] = "treasury"
  /\ IF Covered("treasury", amount[l])
     THEN Moves(l, "prepare") /\ UNCHANGED <<amount, ref>>
     ELSE Rests(l)
  /\ UNCHANGED <<vars, money, calls, sweepRows, abandoned>>

\* The account's nonce and the estimate, which runs the call as things stand.
PrepareTransaction(l) ==
  /\ at[l] = "prepare"
  /\ \/ /\ SafeTakesCall(Call(l))
        /\ Moves(l, "send")
        /\ ref' = [ref EXCEPT ![l] = NextNonce]
        /\ UNCHANGED amount
     \/ ~SafeTakesCall(Call(l)) /\ Rests(l)
     \/ "rpc" \in Faults /\ Rests(l)
  /\ UNCHANGED <<vars, money, calls, sweepRows, abandoned>>

\* calls, when the node has taken a transaction that carries c.
Carries(c) == [i \in DOMAIN calls \cup {Len(txs')} |-> IF i \in DOMAIN calls THEN calls[i] ELSE c]

\* Taken; or taken and the answer lost; or refused.
SendTransaction(l) ==
  /\ at[l] = "send"
  /\ \/ /\ Submit(NoToken, ref[l])
        /\ calls' = Carries(Call(l))
        /\ \/ /\ Moves(l, "receipt")
              /\ ref' = [ref EXCEPT ![l] = Len(txs')]
              /\ UNCHANGED <<amount, abandoned>>
           \/ /\ "rpc" \in Faults
              /\ Rests(l)
              /\ abandoned' = abandoned \cup {Len(txs')}
     \/ /\ "rpc" \in Faults \/ Standing(ref[l]) # {}
        /\ Rests(l)
        /\ UNCHANGED <<chain, calls, abandoned>>
  /\ UNCHANGED <<queue, worker, row, disruptions, dropped, money, sweepRows>>

\* The receipt of the transaction mined at the nonce.
ReceiptsOf(l) == {i \in DOMAIN txs : txs[i].nonce = txs[ref[l]].nonce /\ Mined(txs[i])}

\* A sweep that succeeded is recorded; a top-up, or one that reverted, is over.
AfterSweepReceiptMutant(l, status) == IF l \in Sweepers THEN Moves(l, "record") /\ UNCHANGED <<amount, ref>>
                                      ELSE Rests(l)
AfterSweepReceiptMutant2(l, status) == IF status # "success" /\ l \in Sweepers
                                       THEN Moves(l, "record") /\ UNCHANGED <<amount, ref>> ELSE Rests(l)
AfterSweepReceipt(l, status) ==
  IF status = "success" /\ l \in Sweepers
  THEN Moves(l, "record") /\ UNCHANGED <<amount, ref>>
  ELSE Rests(l)

Abandon(l) == abandoned' = abandoned \cup {ref[l]}

AwaitTransactionReceipt(l) ==
  /\ at[l] = "receipt"
  /\ \/ /\ \E i \in ReceiptsOf(l) : AfterSweepReceipt(l, txs[i].status)
        /\ UNCHANGED abandoned
     \/ "receipt" \in Faults /\ Rests(l) /\ Abandon(l)
  /\ UNCHANGED <<vars, money, calls, sweepRows>>

\* The row names the loop's own transaction; the error of the insert is dropped.
RecordSweep(l) ==
  /\ at[l] = "record"
  /\ \/ /\ sweepRows' = sweepRows \cup {[tx |-> ref[l], amount |-> amount[l]]}
        /\ UNCHANGED abandoned
     \/ "database" \in Faults /\ Abandon(l) /\ UNCHANGED sweepRows
  /\ Rests(l)
  /\ UNCHANGED <<vars, money, calls>>

\* The process dies with its loop.
LoopDies(l) ==
  /\ Disrupt
  /\ at[l] # "idle"
  /\ Rests(l)
  /\ IF at[l] \in {"receipt", "record"} THEN Abandon(l) ELSE UNCHANGED abandoned
  /\ UNCHANGED <<queue, worker, chain, row, dropped, money, calls, sweepRows>>

\* An allocation of yield read the account's nonce and sends a transfer of the
\* treasury; MaxDisruptions bounds it too.
AllocationSends ==
  /\ Disrupt
  /\ \E n \in {NextNonce, NextNonce - 1} \ {0} : Submit(NoToken, n)
  /\ UNCHANGED <<queue, worker, row, dropped>>
  /\ calls' = Carries([kind |-> "allocation", amount |-> PlatformShare])
  /\ UNCHANGED <<money, loops, sweepRows, abandoned>>

-----------------------------------------------------------------------------
LoopStep(l) ==
  \/ ReadBalance(l) \/ ReadIssuerBalance(l) \/ ReadTreasuryBalance(l)
  \/ PrepareTransaction(l) \/ SendTransaction(l) \/ AwaitTransactionReceipt(l)
  \/ RecordSweep(l) \/ LoopDies(l)

SweepNext ==
  \/ ServiceStep /\ UNCHANGED sweepVars
  \/ \E i \in DOMAIN txs : MineTransaction(i)
  \/ \E l \in Loops : LoopStep(l)
  \/ AllocationSends
  \/ Deposit

SweepSpec == SweepInit /\ [][SweepNext]_<<vars, sweepVars>>

-----------------------------------------------------------------------------
(* Properties *)

Swept(i) == i \in DOMAIN calls /\ calls[i].kind = "sweep" /\ txs[i].status = "success"

\* A sweep row stands for USDC that left the Safe, once, in the amount it says,
\* whoever else sweeps the same balance: a phantom row has one of two causes, a
\* Safe that answers the call without executing it, or another transaction that
\* took the sweep's nonce and whose receipt the loop took for its own.
PhantomRowOnlyIf ==
  \A r \in sweepRows :
    /\ r.amount = calls[r.tx].amount
    /\ \A s \in sweepRows : s.tx = r.tx => s = r
    /\ ~Swept(r.tx) => txs[r.tx].status = "replaced"

\* What a sweep moved has its row, or its loop is about to write it; only a sender
\* that has died, lost an answer or given up waiting, or whose insert failed,
\* leaves the ledger behind the chain.
UnbookedSweepOnlyIf ==
  \A i \in DOMAIN calls :
    Swept(i) =>
      \/ \E r \in sweepRows : r.tx = i
      \/ \E l \in Sweepers : at[l] \in {"receipt", "record"} /\ ref[l] = i
      \/ i \in abandoned

Received(i) ==
  IF txs[i].status # "success" THEN 0
  ELSE IF txs[i].token \in Tokens THEN Price[txs[i].token]
  ELSE IF executes /\ calls[i].kind = "allocation" THEN calls[i].amount ELSE 0

Inflow == SumFunction([i \in DOMAIN txs |-> Received(i)])

\* One loop never tops the issuer Safe up beyond its target, not counting what
\* settlements and allocations paid in meanwhile, unless it sent a transfer while
\* an earlier one, whose sender had left, was still on its way.
IssuerWithinTarget ==
  /\ \E l \in Loops : ToppingUp = {l}
  /\ InitialUsdc["issuer"] <= ISSUER_SAFE_TOPUP_AMOUNT
  /\ \A i \in abandoned : calls[i].kind # "topUp"
  => usdc["issuer"] <= ISSUER_SAFE_TOPUP_AMOUNT + Inflow
=============================================================================
