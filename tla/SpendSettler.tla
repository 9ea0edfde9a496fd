---------------------------- MODULE SpendSettler ----------------------------
(***************************************************************************)
(* contracts/src/SpendSettler.sol and its base contract Module.sol: the    *)
(* module on a user's M2 Safe that pays card settlements to the issuer.    *)
(*                                                                         *)
(* A contract call is atomic and a call that reverts changes nothing, so   *)
(* every external function is one action, enabled when the call would      *)
(* succeed.  `events` is the log of SpendSettled events, which the chain   *)
(* keeps and the watcher reads; each entry carries its block's timestamp.  *)
(***************************************************************************)
EXTENDS Integers, Sequences, FiniteSets, Functions

CONSTANTS
  Accounts,      \* addresses other than address(0)
  Safe,          \* the avatar: the M2 Safe the module spends from
  NoAccount,     \* address(0)
  Tokens,        \* ERC-20 contracts `usdc` may point to
  TxTokens,      \* Lithic transaction tokens
  Amounts,       \* amounts a settle call may carry
  Caps,          \* values the owner gives maxSettleAmount
  MaxUint,       \* type(uint256).max
  MaxUint128,    \* type(uint128).max
  Shortfalls,    \* what an ERC-20 transfer may fail to deliver
  Funds,         \* bound: the largest balance of the Safe
  MAX_RECORDS,
  WINDOW_DURATION,
  MaxTime        \* bound: the last block timestamp

ASSUME SettlerAssumption ==
  /\ Safe \in Accounts
  /\ NoAccount \notin Accounts
  /\ IsFiniteSet(Tokens)
  /\ Amounts \subseteq Nat
  /\ Caps \subseteq Nat
  /\ MaxUint \in Nat
  /\ MaxUint128 \in Nat
  /\ Shortfalls \subseteq Nat
  /\ Funds \in Nat
  /\ MAX_RECORDS \in Nat \ {0}
  /\ WINDOW_DURATION \in Nat
  /\ MaxTime \in Nat

VARIABLES
  owner, pendingOwner, settler, issuerSafe, usdc, paused, maxSettleAmount,
  settledTxTokens,  \* the tokens whose mapping entry is true
  nonce, totalSettled,
  spendRecords, recordHead, recordCount,
  balanceOf,        \* balanceOf[t][a], the ERC-20 balances
  events,           \* the SpendSettled log
  now               \* block.timestamp

roles == <<owner, pendingOwner, settler, issuerSafe, usdc, paused, maxSettleAmount>>
books == <<settledTxTokens, nonce, totalSettled, spendRecords, recordHead, recordCount, events>>
vars  == <<roles, books, balanceOf, now>>

Slots  == 0 .. MAX_RECORDS - 1
Record == [amount : Nat, timestamp : Nat]
Event  == [issuer : Accounts, amount : Nat, token : TxTokens, nonce : Nat, timestamp : Nat]

TypeOK ==
  /\ owner \in Accounts /\ settler \in Accounts /\ issuerSafe \in Accounts
  /\ pendingOwner \in Accounts \cup {NoAccount}
  /\ usdc \in Tokens
  /\ paused \in BOOLEAN
  /\ maxSettleAmount \in Nat
  /\ settledTxTokens \subseteq TxTokens
  /\ nonce \in Nat /\ totalSettled \in Nat
  /\ spendRecords \in [Slots -> Record]
  /\ recordHead \in Slots
  /\ recordCount \in 0 .. MAX_RECORDS
  /\ balanceOf \in [Tokens -> [Accounts -> Nat]]
  /\ events \in Seq(Event)
  /\ now \in Nat

\* The constructor, on a Safe that already holds funds.
Init ==
  /\ owner \in Accounts /\ settler \in Accounts /\ issuerSafe \in Accounts
  /\ pendingOwner = NoAccount
  /\ usdc \in Tokens
  /\ paused = FALSE
  /\ maxSettleAmount = MaxUint
  /\ settledTxTokens = {}
  /\ nonce = 0 /\ totalSettled = 0
  /\ spendRecords = [i \in Slots |-> [amount |-> 0, timestamp |-> 0]]
  /\ recordHead = 0 /\ recordCount = 0
  /\ balanceOf = [t \in Tokens |-> [a \in Accounts |-> IF a = Safe THEN Funds ELSE 0]]
  /\ events = <<>>
  /\ now = 0

-----------------------------------------------------------------------------
(* Rolling spend *)

WindowStart == IF now > WINDOW_DURATION THEN now - WINDOW_DURATION ELSE 0

\* The i-th most recent slot, i >= 1: recordHead, i steps back.
Slot(i) == IF i <= recordHead THEN recordHead - i ELSE recordHead + MAX_RECORDS - i

\* A record the backwards scan adds; it stops at the first that is too old.
RecentMutant(record) == record.timestamp > WindowStart
Recent(record) == record.timestamp >= WindowStart

\* How many records the scan adds.
Scanned == CHOOSE n \in 0 .. recordCount :
  /\ \A i \in 1 .. n : Recent(spendRecords[Slot(i)])
  /\ n = recordCount \/ ~Recent(spendRecords[Slot(n + 1)])

getRollingSpend == SumFunction([i \in 1 .. Scanned |-> spendRecords[Slot(i)].amount])

\* The guard of the cast to uint128.
FitsRecordMutant(amount) == TRUE
FitsRecord(amount) == amount <= MaxUint128

NextHeadMutant == recordHead + 1
NextHead == (recordHead + 1) % MAX_RECORDS

RecordSpend(amount) ==
  /\ FitsRecord(amount)
  /\ spendRecords' = [spendRecords EXCEPT ![recordHead] =
                        [amount |-> amount % (MaxUint128 + 1), timestamp |-> now]]
  /\ recordHead' = NextHead
  /\ recordCount' = IF recordCount < MAX_RECORDS THEN recordCount + 1 ELSE recordCount

-----------------------------------------------------------------------------
(* Settlement *)

\* What the issuer's balance grows by when the Safe transfers `amount` and the
\* token delivers `short` less.  Nothing when the issuer is the Safe itself.
Received(amount, short) ==
  IF issuerSafe = Safe \/ short > amount THEN 0 ELSE amount - short

\* exec(usdc.transfer(issuerSafe, amount)) through the Safe.
Transfer(amount, short) ==
  /\ amount <= balanceOf[usdc][Safe]
  /\ balanceOf' =
       IF issuerSafe = Safe THEN balanceOf
       ELSE [balanceOf EXCEPT ![usdc][Safe] = @ - amount,
                              ![usdc][issuerSafe] = @ + Received(amount, short)]

\* Revert with TransferFailed unless the issuer's balance grew by the amount.
TransferVerifiedMutant(amount, short) == TRUE
TransferVerified(amount, short) == Received(amount, short) >= amount

\* Revert with AlreadySettled.
UnsettledMutant(token) == TRUE
Unsettled(token) == token \notin settledTxTokens

Settle(caller, amount, token) ==
  /\ caller = settler
  /\ ~paused
  /\ amount # 0
  /\ amount <= maxSettleAmount
  /\ Unsettled(token)
  /\ settledTxTokens' = settledTxTokens \cup {token}
  /\ RecordSpend(amount)
  /\ \E short \in Shortfalls :
       /\ Transfer(amount, short)
       /\ TransferVerified(amount, short)
  /\ nonce' = nonce + 1
  /\ totalSettled' = totalSettled + amount
  /\ events' = Append(events, [issuer |-> issuerSafe, amount |-> amount, token |-> token,
                               nonce |-> nonce, timestamp |-> now])
  /\ UNCHANGED <<roles, now>>

-----------------------------------------------------------------------------
(* Owner functions.  setAvatar and setTarget always revert: no action. *)

Pause(caller) ==
  /\ caller = owner /\ ~paused
  /\ paused' = TRUE
  /\ UNCHANGED <<owner, pendingOwner, settler, issuerSafe, usdc, maxSettleAmount, books, balanceOf, now>>

Unpause(caller) ==
  /\ caller = owner /\ paused
  /\ paused' = FALSE
  /\ UNCHANGED <<owner, pendingOwner, settler, issuerSafe, usdc, maxSettleAmount, books, balanceOf, now>>

SetSettler(caller, a) ==
  /\ caller = owner
  /\ settler' = a
  /\ UNCHANGED <<owner, pendingOwner, issuerSafe, usdc, paused, maxSettleAmount, books, balanceOf, now>>

SetIssuerSafe(caller, a) ==
  /\ caller = owner
  /\ issuerSafe' = a
  /\ UNCHANGED <<owner, pendingOwner, settler, usdc, paused, maxSettleAmount, books, balanceOf, now>>

SetUsdc(caller, t) ==
  /\ caller = owner
  /\ usdc' = t
  /\ UNCHANGED <<owner, pendingOwner, settler, issuerSafe, paused, maxSettleAmount, books, balanceOf, now>>

SetMaxSettleAmount(caller, max) ==
  /\ caller = owner
  /\ maxSettleAmount' = max
  /\ UNCHANGED <<owner, pendingOwner, settler, issuerSafe, usdc, paused, books, balanceOf, now>>

TransferOwnership(caller, a) ==
  /\ caller = owner
  /\ pendingOwner' = a
  /\ UNCHANGED <<owner, settler, issuerSafe, usdc, paused, maxSettleAmount, books, balanceOf, now>>

AcceptOwnership(caller) ==
  /\ caller = pendingOwner
  /\ owner' = pendingOwner
  /\ pendingOwner' = NoAccount
  /\ UNCHANGED <<settler, issuerSafe, usdc, paused, maxSettleAmount, books, balanceOf, now>>

-----------------------------------------------------------------------------
(* The chain around the contract *)

\* Deposits, sweeps and the owner's own transfers move the Safe's balance.
SafeBalanceMoves(t, n) ==
  /\ balanceOf' = [balanceOf EXCEPT ![t][Safe] = n]
  /\ UNCHANGED <<roles, books, now>>

\* A block with a later timestamp.
Tick ==
  /\ now < MaxTime
  /\ now' = now + 1
  /\ UNCHANGED <<roles, books, balanceOf>>

OwnerCall(caller) ==
  \/ Pause(caller)
  \/ Unpause(caller)
  \/ \E a \in Accounts : SetSettler(caller, a)
  \/ \E a \in Accounts : SetIssuerSafe(caller, a)
  \/ \E t \in Tokens : SetUsdc(caller, t)
  \/ \E max \in Caps : SetMaxSettleAmount(caller, max)
  \/ \E a \in Accounts : TransferOwnership(caller, a)
  \/ AcceptOwnership(caller)

Next ==
  \/ \E caller \in Accounts, amount \in Amounts, token \in TxTokens :
       Settle(caller, amount, token)
  \/ \E caller \in Accounts : OwnerCall(caller)
  \/ \E t \in Tokens, n \in 0 .. Funds : SafeBalanceMoves(t, n)
  \/ Tick

Spec == Init /\ [][Next]_vars

-----------------------------------------------------------------------------
(* Properties *)

\* No Lithic transaction is paid twice: the mapping holds exactly the tokens
\* of the log, no two entries of the log share one, and the nonce numbers them
\* without gaps, whatever the owner rotates or pauses in between.
SettledOnce ==
  /\ nonce = Len(events)
  /\ settledTxTokens = {events[i].token : i \in 1 .. Len(events)}
  /\ \A i \in 1 .. Len(events) : events[i].nonce = i - 1
  /\ \A i, j \in 1 .. Len(events) : events[i].token = events[j].token => i = j

\* The circular buffer holds the latest entries of the log, newest first, once
\* it has wrapped as well as before (_recordSpend against _getRollingSpend's
\* backwards walk).
BufferHoldsLatest ==
  /\ recordCount = IF Len(events) < MAX_RECORDS THEN Len(events) ELSE MAX_RECORDS
  /\ \A i \in 1 .. recordCount :
       LET e == events[Len(events) + 1 - i]
       IN  spendRecords[Slot(i)] = [amount |-> e.amount, timestamp |-> e.timestamp]

\* The events of the last 24 hours and the amount over a set of events.
InWindow == {i \in 1 .. Len(events) : events[i].timestamp >= WindowStart}
SpentIn(S) == SumFunctionOnSet([i \in 1 .. Len(events) |-> events[i].amount], S)

\* getRollingSpend is the spend of the window while the window's records fit
\* the buffer, and never exceeds totalSettled, which is the sum of the log.
RollingSpendExact ==
  /\ totalSettled = SpentIn(1 .. Len(events))
  /\ getRollingSpend <= totalSettled
  /\ \/ \E i \in InWindow : Len(events) - i >= MAX_RECORDS
     \/ getRollingSpend = SpentIn(InWindow)

\* Every account but the Safe has received, over all tokens, exactly what the
\* log says was settled to it: an entry of the log is money that arrived.
PaidInFull ==
  \A a \in Accounts \ {Safe} :
    SumFunction([t \in Tokens |-> balanceOf[t][a]])
      = SpentIn({i \in 1 .. Len(events) : events[i].issuer = a})
=============================================================================
