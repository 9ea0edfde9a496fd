-------------------------- MODULE SpendSettlerProofs --------------------------
(* What holds of SpendSettler for every set of accounts and transactions,    *)
(* every window and every buffer size.                                       *)
EXTENDS SpendSettler, SumTheorems, TLAPS

\* An owner call, a balance move and a tick leave the books alone, and the
\* roles stay well typed.
LEMMA OwnerCallKeepsBooks ==
  ASSUME NEW caller \in Accounts, OwnerCall(caller)
  PROVE  UNCHANGED <<books, balanceOf, now>>
  BY DEF OwnerCall, Pause, Unpause, SetSettler, SetIssuerSafe, SetUsdc,
         SetMaxSettleAmount, TransferOwnership, AcceptOwnership

LEMMA OwnerCallKeepsRoleTypes ==
  ASSUME TypeOK, NEW caller \in Accounts, OwnerCall(caller)
  PROVE  /\ owner' \in Accounts /\ settler' \in Accounts /\ issuerSafe' \in Accounts
         /\ pendingOwner' \in Accounts \cup {NoAccount}
         /\ usdc' \in Tokens /\ paused' \in BOOLEAN /\ maxSettleAmount' \in Nat
  BY SettlerAssumption DEF TypeOK, OwnerCall, Pause, Unpause, SetSettler, SetIssuerSafe,
     SetUsdc, SetMaxSettleAmount, TransferOwnership, AcceptOwnership

\* Advancing the head modulo the buffer size is a step or a wrap.
LEMMA HeadAdvances ==
  ASSUME NEW h \in Slots
  PROVE  (h + 1) % MAX_RECORDS = IF h + 1 = MAX_RECORDS THEN 0 ELSE h + 1
  <1>1. CASE h + 1 = MAX_RECORDS
    BY <1>1, SettlerAssumption DEF Slots
  <1>2. CASE h + 1 # MAX_RECORDS
    BY <1>2, SettlerAssumption DEF Slots
  <1> QED BY <1>1, <1>2

\* An amount that passes the guard is stored as it is by the uint128 cast.
LEMMA StoredExactly ==
  ASSUME NEW amount \in Amounts, FitsRecord(amount)
  PROVE  amount % (MaxUint128 + 1) = amount
  BY SettlerAssumption DEF FitsRecord

-----------------------------------------------------------------------------
\* Every variable keeps its type: in particular the head stays a slot when it
\* wraps, and the balances stay natural when the Safe pays.
THEOREM TypeCorrect == Spec => []TypeOK
  <1>1. Init => TypeOK
    <2> SUFFICES ASSUME Init PROVE TypeOK
      OBVIOUS
    <2>1. /\ 0 \in Slots
          /\ [i \in Slots |-> [amount |-> 0, timestamp |-> 0]] \in [Slots -> Record]
      BY SettlerAssumption DEF Slots, Record
    <2>2. balanceOf \in [Tokens -> [Accounts -> Nat]]
      BY SettlerAssumption DEF Init
    <2>3. events \in Seq(Event)
      BY DEF Init
    <2>4. /\ spendRecords \in [Slots -> Record] /\ recordHead \in Slots
          /\ recordCount \in 0 .. MAX_RECORDS
      BY <2>1, SettlerAssumption DEF Init
    <2>5. /\ maxSettleAmount \in Nat /\ settledTxTokens \subseteq TxTokens
          /\ nonce \in Nat /\ totalSettled \in Nat /\ now \in Nat
      BY SettlerAssumption DEF Init
    <2> QED BY <2>2, <2>3, <2>4, <2>5 DEF Init, TypeOK
  <1>2. TypeOK /\ [Next]_vars => TypeOK'
    <2> SUFFICES ASSUME TypeOK, [Next]_vars PROVE TypeOK'
      OBVIOUS
    <2>1. ASSUME NEW caller \in Accounts, NEW amount \in Amounts, NEW token \in TxTokens,
                 Settle(caller, amount, token)
          PROVE  TypeOK'
      <3> amount \in Nat
        BY SettlerAssumption
      <3>1. /\ settledTxTokens' \subseteq TxTokens
            /\ nonce' \in Nat /\ totalSettled' \in Nat
        BY <2>1 DEF Settle, TypeOK
      <3>2. spendRecords' \in [Slots -> Record]
        BY <2>1, StoredExactly DEF Settle, RecordSpend, TypeOK, Record
      <3>3. recordHead' \in Slots /\ recordCount' \in 0 .. MAX_RECORDS
        <4>1. recordHead \in Slots /\ recordHead' = (recordHead + 1) % MAX_RECORDS
          BY <2>1 DEF Settle, RecordSpend, NextHead, TypeOK
        <4>2. recordHead' \in Slots
          BY <4>1, HeadAdvances, SettlerAssumption DEF Slots
        <4>3. recordCount' \in 0 .. MAX_RECORDS
          BY <2>1, SettlerAssumption DEF Settle, RecordSpend, TypeOK
        <4> QED BY <4>2, <4>3
      <3>4. balanceOf' \in [Tokens -> [Accounts -> Nat]]
        <4> PICK short \in Shortfalls : Transfer(amount, short)
          BY <2>1 DEF Settle
        <4>1. CASE issuerSafe = Safe
          BY <4>1 DEF Transfer, TypeOK
        <4>2. CASE issuerSafe # Safe
          <5>1. Received(amount, short) \in Nat
            BY SettlerAssumption DEF Received
          <5>2. usdc \in Tokens /\ issuerSafe \in Accounts /\ Safe \in Accounts
            BY SettlerAssumption DEF TypeOK
          <5>3. /\ balanceOf[usdc][Safe] - amount \in Nat
                /\ balanceOf[usdc][issuerSafe] + Received(amount, short) \in Nat
            BY <5>1, <5>2 DEF Transfer, TypeOK
          <5>4. balanceOf' = [balanceOf EXCEPT ![usdc] =
                   [balanceOf[usdc] EXCEPT ![Safe] = balanceOf[usdc][Safe] - amount,
                      ![issuerSafe] = balanceOf[usdc][issuerSafe] + Received(amount, short)]]
            BY <4>2, <5>2 DEF Transfer, TypeOK
          <5> QED BY <5>2, <5>3, <5>4 DEF TypeOK
        <4> QED BY <4>1, <4>2
      <3>5. events' \in Seq(Event)
        BY <2>1 DEF Settle, TypeOK, Event
      <3>6. UNCHANGED <<roles, now>>
        BY <2>1 DEF Settle
      <3> QED BY <3>1, <3>2, <3>3, <3>4, <3>5, <3>6 DEF TypeOK, roles
    <2>2. ASSUME NEW caller \in Accounts, OwnerCall(caller) PROVE TypeOK'
      BY <2>2, OwnerCallKeepsBooks, OwnerCallKeepsRoleTypes DEF TypeOK, books
    <2>3. ASSUME NEW t \in Tokens, NEW n \in 0 .. Funds, SafeBalanceMoves(t, n) PROVE TypeOK'
      BY <2>3, SettlerAssumption DEF SafeBalanceMoves, TypeOK, roles, books
    <2>4. CASE Tick
      BY <2>4 DEF Tick, TypeOK, roles, books
    <2>5. CASE UNCHANGED vars
      BY <2>5 DEF vars, TypeOK, roles, books
    <2> QED BY <2>1, <2>2, <2>3, <2>4, <2>5 DEF Next
  <1> QED BY <1>1, <1>2, PTL DEF Spec

-----------------------------------------------------------------------------
\* Idempotency on Lithic tokens: the log never holds a token twice and the
\* nonce numbers it without gaps.
THEOREM SettledOnceHolds == Spec => []SettledOnce
  <1>1. Init => SettledOnce
    BY DEF Init, SettledOnce
  <1>2. TypeOK /\ SettledOnce /\ [Next]_vars => SettledOnce'
    <2> SUFFICES ASSUME TypeOK, SettledOnce, [Next]_vars PROVE SettledOnce'
      OBVIOUS
    <2>1. ASSUME NEW caller \in Accounts, NEW amount \in Amounts, NEW token \in TxTokens,
                 Settle(caller, amount, token)
          PROVE  SettledOnce'
      <3> DEFINE e == [issuer |-> issuerSafe, amount |-> amount, token |-> token,
                       nonce |-> nonce, timestamp |-> now]
      <3>1. /\ events \in Seq(Event) /\ events' = Append(events, e)
            /\ token \notin settledTxTokens
            /\ settledTxTokens' = settledTxTokens \cup {token}
            /\ nonce' = nonce + 1
        BY <2>1 DEF Settle, Unsettled, TypeOK
      <3>2. /\ Len(events) \in Nat /\ Len(events') = Len(events) + 1
            /\ \A i \in 1 .. Len(events) : events'[i] = events[i]
            /\ events'[Len(events) + 1] = e
        BY <3>1
      <3>3. \A i \in 1 .. Len(events) : events[i].token # token
        BY <3>1 DEF SettledOnce
      <3>4. nonce' = Len(events')
        BY <3>1, <3>2 DEF SettledOnce
      <3>5. settledTxTokens' = {events'[i].token : i \in 1 .. Len(events')}
        BY <3>1, <3>2 DEF SettledOnce
      <3>6. \A i \in 1 .. Len(events') : events'[i].nonce = i - 1
        BY <3>2 DEF SettledOnce
      <3>7. \A i, j \in 1 .. Len(events') : events'[i].token = events'[j].token => i = j
        BY <3>2, <3>3 DEF SettledOnce
      <3> QED BY <3>4, <3>5, <3>6, <3>7 DEF SettledOnce
    <2>2. ASSUME NEW caller \in Accounts, OwnerCall(caller) PROVE SettledOnce'
      BY <2>2, OwnerCallKeepsBooks DEF SettledOnce, books
    <2>3. ASSUME NEW t \in Tokens, NEW n \in 0 .. Funds, SafeBalanceMoves(t, n) PROVE SettledOnce'
      BY <2>3 DEF SafeBalanceMoves, SettledOnce, books
    <2>4. CASE Tick
      BY <2>4 DEF Tick, SettledOnce, books
    <2>5. CASE UNCHANGED vars
      BY <2>5 DEF vars, SettledOnce, books
    <2> QED BY <2>1, <2>2, <2>3, <2>4, <2>5 DEF Next
  <1> QED BY <1>1, <1>2, TypeCorrect, PTL DEF Spec

-----------------------------------------------------------------------------
\* Before the buffer has wrapped its head is the number of records: without
\* this BufferHoldsLatest does not survive a step.
HeadFollowsCount == recordCount < MAX_RECORDS => recordHead = recordCount

\* After a record is written at the head, it is the most recent slot and every
\* earlier slot is one step further back.
LEMMA SlotsShift ==
  ASSUME TypeOK, NEW i \in 2 .. MAX_RECORDS,
         recordHead' = IF recordHead + 1 = MAX_RECORDS THEN 0 ELSE recordHead + 1
  PROVE  /\ Slot(1)' = recordHead
         /\ Slot(i)' = Slot(i - 1)
         /\ Slot(i - 1) \in Slots
         /\ Slot(i - 1) # recordHead
  BY SettlerAssumption DEF TypeOK, Slot, Slots

\* The circular buffer always holds the latest entries of the event log, in
\* order, also after it has wrapped.
THEOREM BufferHoldsLatestHolds == Spec => []BufferHoldsLatest
  <1> DEFINE Inv == BufferHoldsLatest /\ HeadFollowsCount
  <1>1. Init => Inv
    BY SettlerAssumption DEF Init, BufferHoldsLatest, HeadFollowsCount
  <1>2. TypeOK /\ Inv /\ [Next]_vars => Inv'
    <2> SUFFICES ASSUME TypeOK, Inv, [Next]_vars PROVE Inv'
      OBVIOUS
    <2>1. ASSUME NEW caller \in Accounts, NEW amount \in Amounts, NEW token \in TxTokens,
                 Settle(caller, amount, token)
          PROVE  Inv'
      <3> DEFINE e == [issuer |-> issuerSafe, amount |-> amount, token |-> token,
                       nonce |-> nonce, timestamp |-> now]
                 r == [amount |-> amount, timestamp |-> now]
      <3>1. /\ events \in Seq(Event) /\ events' = Append(events, e)
            /\ recordHead \in Slots /\ recordCount \in 0 .. MAX_RECORDS
            /\ spendRecords \in [Slots -> Record]
            /\ spendRecords' = [spendRecords EXCEPT ![recordHead] = r]
            /\ recordCount' = IF recordCount < MAX_RECORDS THEN recordCount + 1 ELSE recordCount
        BY <2>1, StoredExactly DEF Settle, RecordSpend, TypeOK
      <3>2. recordHead' = IF recordHead + 1 = MAX_RECORDS THEN 0 ELSE recordHead + 1
        BY <2>1, <3>1, HeadAdvances DEF Settle, RecordSpend, NextHead
      <3>3. /\ Len(events) \in Nat /\ Len(events') = Len(events) + 1
            /\ \A i \in 1 .. Len(events) : events'[i] = events[i]
            /\ events'[Len(events) + 1] = e
        BY <3>1
      <3>4. recordCount' = IF Len(events') < MAX_RECORDS THEN Len(events') ELSE MAX_RECORDS
        BY <3>1, <3>3, SettlerAssumption DEF BufferHoldsLatest
      <3>5. ASSUME NEW i \in 1 .. recordCount'
            PROVE  LET x == events'[Len(events') + 1 - i]
                   IN  spendRecords'[Slot(i)'] = [amount |-> x.amount, timestamp |-> x.timestamp]
        <4>1. CASE i = 1
          <5>1. Slot(1)' = recordHead
            BY <3>1, <3>2, SettlerAssumption DEF Slot, Slots
          <5> QED BY <3>1, <3>3, <4>1, <5>1
        <4>2. CASE i # 1
          <5>1. i \in 2 .. MAX_RECORDS /\ i - 1 \in 1 .. recordCount
                /\ Len(events) + 1 - (i - 1) \in 1 .. Len(events)
            BY <3>1, <3>3, <4>2, SettlerAssumption DEF BufferHoldsLatest
          <5>2. spendRecords'[Slot(i)'] = spendRecords[Slot(i - 1)]
            BY <3>1, <3>2, <5>1, SlotsShift
          <5>3. LET x == events[Len(events) + 1 - (i - 1)]
                IN  spendRecords[Slot(i - 1)] = [amount |-> x.amount, timestamp |-> x.timestamp]
            BY <5>1 DEF BufferHoldsLatest
          <5>4. Len(events') + 1 - i = Len(events) + 1 - (i - 1)
            BY <3>3
          <5> QED BY <3>3, <5>1, <5>2, <5>3, <5>4
        <4> QED BY <4>1, <4>2
      <3>6. BufferHoldsLatest'
        BY <3>4, <3>5 DEF BufferHoldsLatest
      <3>7. HeadFollowsCount'
        BY <3>1, <3>2, SettlerAssumption DEF HeadFollowsCount, Slots
      <3> QED BY <3>6, <3>7
    <2>2. ASSUME NEW caller \in Accounts, OwnerCall(caller) PROVE Inv'
      BY <2>2, OwnerCallKeepsBooks DEF BufferHoldsLatest, HeadFollowsCount, Slot, books
    <2>3. ASSUME NEW t \in Tokens, NEW n \in 0 .. Funds, SafeBalanceMoves(t, n) PROVE Inv'
      BY <2>3 DEF SafeBalanceMoves, BufferHoldsLatest, HeadFollowsCount, Slot, books
    <2>4. CASE Tick
      BY <2>4 DEF Tick, BufferHoldsLatest, HeadFollowsCount, Slot, books
    <2>5. CASE UNCHANGED vars
      BY <2>5 DEF vars, BufferHoldsLatest, HeadFollowsCount, Slot, books
    <2> QED BY <2>1, <2>2, <2>3, <2>4, <2>5 DEF Next
  <1> QED BY <1>1, <1>2, TypeCorrect, PTL DEF Spec
-----------------------------------------------------------------------------
(* The log and its sums *)

\* The amounts of the log, whose sums SpentIn takes.
AmountsOf == [i \in 1 .. Len(events) |-> events[i].amount]

\* A new entry leaves every earlier sum and adds its amount to the others.
LEMMA SpentGrows ==
  ASSUME TypeOK, NEW e \in Event, events' = Append(events, e),
         NEW S \in SUBSET (1 .. Len(events))
  PROVE  /\ SumFunctionOnSet(AmountsOf', S) = SumFunctionOnSet(AmountsOf, S)
         /\ SumFunctionOnSet(AmountsOf', S \cup {Len(events) + 1})
              = SumFunctionOnSet(AmountsOf, S) + e.amount
  <1>1. /\ Len(events) \in Nat /\ Len(events') = Len(events) + 1
        /\ \A i \in 1 .. Len(events) : events'[i] = events[i] /\ events[i] \in Event
        /\ events'[Len(events) + 1] = e
    BY DEF TypeOK
  <1>2. IsFiniteSet(S)
    <2>1. IsFiniteSet(1 .. Len(events))
      BY <1>1, FS_Interval
    <2> QED BY <2>1, FS_Subset
  <1>3. \A i \in S : AmountsOf'[i] = AmountsOf[i] /\ AmountsOf'[i] \in Int
    BY <1>1 DEF AmountsOf, Event
  <1>4. AmountsOf'[Len(events) + 1] = e.amount /\ e.amount \in Int
    BY <1>1 DEF AmountsOf, Event
  <1>5. SumFunctionOnSet(AmountsOf', S) = SumFunctionOnSet(AmountsOf, S)
    BY <1>2, <1>3, SumSame
  <1>6. Len(events) + 1 \notin S
    BY <1>1
  <1>7. \A i \in S \cup {Len(events) + 1} : AmountsOf'[i] \in Int
    BY <1>3, <1>4
  <1>8. SumFunctionOnSet(AmountsOf', S \cup {Len(events) + 1})
          = SumFunctionOnSet(AmountsOf', S) + AmountsOf'[Len(events) + 1]
    BY <1>2, <1>6, <1>7, SumAdds
  <1> QED BY <1>4, <1>5, <1>8

\* Sums over the log are natural numbers.
LEMMA SpentIsNat ==
  ASSUME TypeOK, NEW S \in SUBSET (1 .. Len(events))
  PROVE  /\ SpentIn(S) \in Nat
         /\ \A T \in SUBSET S : SpentIn(T) <= SpentIn(S)
  <1>1. IsFiniteSet(S)
    <2>1. Len(events) \in Nat
      BY DEF TypeOK
    <2>2. IsFiniteSet(1 .. Len(events))
      BY <2>1, FS_Interval
    <2> QED BY <2>2, FS_Subset
  <1>2. \A i \in S : AmountsOf[i] \in Nat
    <2>1. \A i \in 1 .. Len(events) : events[i] \in Event
      BY DEF TypeOK
    <2> QED BY <2>1 DEF AmountsOf, Event
  <1>3. /\ SumFunctionOnSet(AmountsOf, S) \in Nat
        /\ \A T \in SUBSET S : SumFunctionOnSet(AmountsOf, T) <= SumFunctionOnSet(AmountsOf, S)
    BY <1>1, <1>2, SumGrows
  <1> QED BY <1>3 DEF SpentIn, AmountsOf

\* What a settlement appends to the log.
Entry(amount, token) ==
  [issuer |-> issuerSafe, amount |-> amount, token |-> token, nonce |-> nonce, timestamp |-> now]

LEMMA SettleLogs ==
  ASSUME TypeOK, NEW caller \in Accounts, NEW amount \in Amounts, NEW token \in TxTokens,
         Settle(caller, amount, token)
  PROVE  /\ Entry(amount, token) \in Event /\ events' = Append(events, Entry(amount, token))
         /\ amount \in Nat /\ amount # 0
         /\ Len(events) \in Nat /\ Len(events') = Len(events) + 1
         /\ \A i \in 1 .. Len(events) : events'[i] = events[i]
         /\ events'[Len(events) + 1] = Entry(amount, token)
  <1>1. amount \in Nat /\ amount # 0
    BY SettlerAssumption DEF Settle
  <1>2. Entry(amount, token) \in Event
    BY <1>1 DEF Entry, Event, TypeOK
  <1>3. events' = Append(events, Entry(amount, token)) /\ events \in Seq(Event)
    BY DEF Settle, Entry, TypeOK
  <1> QED BY <1>1, <1>2, <1>3

-----------------------------------------------------------------------------
\* What an account other than the Safe holds over all tokens.
Holdings(a) == [t \in Tokens |-> balanceOf[t][a]]

\* A settlement that succeeds moves its whole amount to the issuer, who is
\* never the Safe itself.
LEMMA SettlePays ==
  ASSUME TypeOK, NEW caller \in Accounts, NEW amount \in Amounts, NEW token \in TxTokens,
         Settle(caller, amount, token)
  PROVE  /\ issuerSafe # Safe
         /\ balanceOf'[usdc][issuerSafe] = balanceOf[usdc][issuerSafe] + amount
         /\ \A t \in Tokens, a \in Accounts \ {Safe} :
              <<t, a>> # <<usdc, issuerSafe>> => balanceOf'[t][a] = balanceOf[t][a]
  <1>1. PICK short \in Shortfalls : Transfer(amount, short) /\ TransferVerified(amount, short)
    BY DEF Settle
  <1>2. amount \in Nat /\ amount # 0 /\ short \in Nat
    BY SettlerAssumption DEF Settle
  <1>3. issuerSafe # Safe /\ Received(amount, short) = amount
    BY <1>1, <1>2 DEF TransferVerified, Received
  <1>4. usdc \in Tokens /\ issuerSafe \in Accounts /\ Safe \in Accounts
        /\ balanceOf \in [Tokens -> [Accounts -> Nat]]
    BY SettlerAssumption DEF TypeOK
  <1>5. balanceOf' = [balanceOf EXCEPT ![usdc] =
                        [balanceOf[usdc] EXCEPT ![Safe] = balanceOf[usdc][Safe] - amount,
                            ![issuerSafe] = balanceOf[usdc][issuerSafe] + amount]]
    BY <1>1, <1>3, <1>4 DEF Transfer
  <1> QED BY <1>3, <1>4, <1>5

\* Every account but the Safe has received, over all tokens, exactly what the
\* log says, for every number of tokens, issuers and settlements: an entry of
\* the log is money that arrived.
THEOREM PaidInFullHolds == Spec => []PaidInFull
  <1>1. Init => PaidInFull
    <2> SUFFICES ASSUME Init, NEW a \in Accounts \ {Safe}
                 PROVE  SumFunction(Holdings(a))
                          = SpentIn({i \in 1 .. Len(events) : events[i].issuer = a})
      BY DEF PaidInFull, Holdings
    <2>1. {i \in 1 .. Len(events) : events[i].issuer = a} = {}
      BY DEF Init
    <2>2. SpentIn({}) = 0
      BY SumEmpty DEF SpentIn
    <2>3. SumFunctionOnSet(Holdings(a), Tokens) = 0
      <3>1. \A S \in SUBSET Tokens : SumFunctionOnSet([t \in Tokens |-> 0], S) = 0
        BY SettlerAssumption, SumOfZeros
      <3>2. Holdings(a) = [t \in Tokens |-> 0]
        BY DEF Init, Holdings
      <3> QED BY <3>1, <3>2
    <2>4. SumFunction(Holdings(a)) = SumFunctionOnSet(Holdings(a), Tokens)
      BY SumOfFunction DEF Holdings
    <2> QED BY <2>1, <2>2, <2>3, <2>4
  <1>2. TypeOK /\ TypeOK' /\ PaidInFull /\ [Next]_vars => PaidInFull'
    <2> SUFFICES ASSUME TypeOK, TypeOK', PaidInFull, [Next]_vars, NEW a \in Accounts \ {Safe}
                 PROVE  SumFunction(Holdings(a)')
                          = SpentIn({i \in 1 .. Len(events) : events[i].issuer = a})'
      BY DEF PaidInFull, Holdings
    <2> DEFINE paid == {i \in 1 .. Len(events) : events[i].issuer = a}
    <2>0. SumFunction(Holdings(a)) = SumFunctionOnSet(AmountsOf, paid)
      BY DEF PaidInFull, Holdings, SpentIn, AmountsOf
    <2>1. ASSUME NEW caller \in Accounts, NEW amount \in Amounts, NEW token \in TxTokens,
                 Settle(caller, amount, token)
          PROVE  SumFunction(Holdings(a)') = SumFunctionOnSet(AmountsOf', paid')
      <3>0. /\ SumFunction(Holdings(a)) = SumFunctionOnSet(Holdings(a), Tokens)
            /\ SumFunction(Holdings(a)') = SumFunctionOnSet(Holdings(a)', Tokens)
        BY SumOfFunction DEF Holdings
      <3>1. \A t \in Tokens : Holdings(a)[t] \in Int /\ Holdings(a)'[t] \in Int
        BY DEF TypeOK, Holdings
      <3>2. /\ \A i \in 1 .. Len(events) : events'[i] = events[i]
            /\ events'[Len(events) + 1].issuer = issuerSafe
            /\ Len(events) \in Nat /\ Len(events') = Len(events) + 1
            /\ Entry(amount, token) \in Event /\ Entry(amount, token).amount = amount
            /\ events' = Append(events, Entry(amount, token))
        BY <2>1, SettleLogs DEF Entry
      <3>3. CASE a # issuerSafe
        <4>1. paid' = paid
          BY <3>2, <3>3
        <4>2. SumFunctionOnSet(AmountsOf', paid) = SumFunctionOnSet(AmountsOf, paid)
          BY <3>2, SpentGrows
        <4>3. Holdings(a)' = Holdings(a)
          BY <2>1, <3>3, SettlePays DEF Holdings
        <4> QED BY <2>0, <4>1, <4>2, <4>3
      <3>4. CASE a = issuerSafe
        <4>1. paid' = paid \cup {Len(events) + 1}
          BY <3>2, <3>4
        <4>2. SumFunctionOnSet(AmountsOf', paid \cup {Len(events) + 1})
                = SumFunctionOnSet(AmountsOf, paid) + amount
          BY <3>2, SpentGrows
        <4>3. usdc \in Tokens /\ Holdings(a)'[usdc] = Holdings(a)[usdc] + amount
          BY <2>1, <3>4, SettlePays DEF Holdings, TypeOK
        <4>4. \A t \in Tokens : t # usdc => Holdings(a)[t] = Holdings(a)'[t]
          BY <2>1, SettlePays DEF Holdings
        <4>5. SumFunctionOnSet(Holdings(a)', Tokens)
                = SumFunctionOnSet(Holdings(a), Tokens) + (Holdings(a)'[usdc] - Holdings(a)[usdc])
          BY <3>1, <4>3, <4>4, SettlerAssumption, SumChanges
        <4>6. Holdings(a)'[usdc] - Holdings(a)[usdc] = amount
          BY <2>1, <3>1, <4>3, SettleLogs
        <4> QED BY <2>0, <3>0, <4>1, <4>2, <4>5, <4>6
      <3> QED BY <3>3, <3>4
    <2>2. ASSUME NEW caller \in Accounts, OwnerCall(caller)
          PROVE  SumFunction(Holdings(a)') = SumFunctionOnSet(AmountsOf', paid')
      BY <2>0, <2>2, OwnerCallKeepsBooks DEF Holdings, AmountsOf, books
    <2>3. ASSUME NEW t \in Tokens, NEW n \in 0 .. Funds, SafeBalanceMoves(t, n)
          PROVE  SumFunction(Holdings(a)') = SumFunctionOnSet(AmountsOf', paid')
      <3>1. Holdings(a)' = Holdings(a)
        BY <2>3, SettlerAssumption DEF SafeBalanceMoves, Holdings, TypeOK
      <3>2. events' = events
        BY <2>3 DEF SafeBalanceMoves, books
      <3> QED BY <2>0, <3>1, <3>2 DEF AmountsOf
    <2>4. ASSUME Tick \/ UNCHANGED vars
          PROVE  SumFunction(Holdings(a)') = SumFunctionOnSet(AmountsOf', paid')
      <3>1. balanceOf' = balanceOf /\ events' = events
        BY <2>4 DEF Tick, books, vars
      <3> QED BY <2>0, <3>1 DEF Holdings, AmountsOf
    <2>5. SumFunction(Holdings(a)') = SumFunctionOnSet(AmountsOf', paid')
      BY <2>1, <2>2, <2>3, <2>4 DEF Next
    <2>6. SpentIn(paid)' = SumFunctionOnSet(AmountsOf', paid')
      BY DEF SpentIn, AmountsOf
    <2> QED BY <2>5, <2>6
  <1> QED BY <1>1, <1>2, TypeCorrect, PTL DEF Spec

-----------------------------------------------------------------------------
(* The rolling spend *)

\* The log is in the order of its blocks, none of which is in the future.
LogInOrder ==
  /\ \A i \in 1 .. Len(events) : events[i].timestamp <= now
  /\ \A i, j \in 1 .. Len(events) : i <= j => events[i].timestamp <= events[j].timestamp
TotalIsLogged == totalSettled = SpentIn(1 .. Len(events))

LEMMA LogInOrderHolds == Spec => []LogInOrder
  <1>1. Init => LogInOrder
    BY DEF Init, LogInOrder
  <1>2. TypeOK /\ LogInOrder /\ [Next]_vars => LogInOrder'
    <2> SUFFICES ASSUME TypeOK, LogInOrder, [Next]_vars PROVE LogInOrder'
      OBVIOUS
    <2>0. /\ Len(events) \in Nat /\ now \in Nat
          /\ \A i \in 1 .. Len(events) : events[i].timestamp \in Nat
      <3>1. \A i \in 1 .. Len(events) : events[i] \in Event
        BY DEF TypeOK
      <3> QED BY <3>1 DEF TypeOK, Event
    <2>1. ASSUME NEW caller \in Accounts, NEW amount \in Amounts, NEW token \in TxTokens,
                 Settle(caller, amount, token)
          PROVE  LogInOrder'
      <3>1. /\ Len(events') = Len(events) + 1 /\ now' = now
            /\ \A i \in 1 .. Len(events) : events'[i] = events[i]
            /\ events'[Len(events) + 1].timestamp = now
        BY <2>1, SettleLogs DEF Entry, Settle
      <3>2. \A i \in 1 .. Len(events') : events'[i].timestamp <= now
        BY <2>0, <3>1 DEF LogInOrder
      <3>3. ASSUME NEW i \in 1 .. Len(events'), NEW j \in 1 .. Len(events'), i <= j
            PROVE  events'[i].timestamp <= events'[j].timestamp
        <4>1. CASE j = Len(events) + 1
          BY <3>1, <3>2, <4>1
        <4>2. CASE j # Len(events) + 1
          <5>1. i \in 1 .. Len(events) /\ j \in 1 .. Len(events)
            BY <2>0, <3>1, <3>3, <4>2
          <5> QED BY <3>1, <3>3, <5>1 DEF LogInOrder
        <4> QED BY <4>1, <4>2
      <3> QED BY <3>1, <3>2, <3>3 DEF LogInOrder
    <2>2. ASSUME NEW caller \in Accounts, OwnerCall(caller) PROVE LogInOrder'
      BY <2>2, OwnerCallKeepsBooks DEF LogInOrder, books
    <2>3. ASSUME NEW t \in Tokens, NEW n \in 0 .. Funds, SafeBalanceMoves(t, n) PROVE LogInOrder'
      BY <2>3 DEF SafeBalanceMoves, LogInOrder, books
    <2>4. CASE Tick
      <3>1. events' = events /\ now' = now + 1
        BY <2>4 DEF Tick, books
      <3> QED BY <2>0, <3>1 DEF LogInOrder
    <2>5. CASE UNCHANGED vars
      BY <2>5 DEF vars, LogInOrder, books
    <2> QED BY <2>1, <2>2, <2>3, <2>4, <2>5 DEF Next
  <1> QED BY <1>1, <1>2, TypeCorrect, PTL DEF Spec

LEMMA TotalIsLoggedHolds == Spec => []TotalIsLogged
  <1>1. Init => TotalIsLogged
    <2> SUFFICES ASSUME Init PROVE TotalIsLogged
      OBVIOUS
    <2>1. 1 .. Len(events) = {} /\ totalSettled = 0
      BY DEF Init
    <2>2. SpentIn({}) = 0
      BY SumEmpty DEF SpentIn
    <2> QED BY <2>1, <2>2 DEF TotalIsLogged
  <1>2. TypeOK /\ TotalIsLogged /\ [Next]_vars => TotalIsLogged'
    <2> SUFFICES ASSUME TypeOK, TotalIsLogged, [Next]_vars PROVE TotalIsLogged'
      OBVIOUS
    <2>0. totalSettled = SumFunctionOnSet(AmountsOf, 1 .. Len(events))
      BY DEF TotalIsLogged, SpentIn, AmountsOf
    <2>1. ASSUME NEW caller \in Accounts, NEW amount \in Amounts, NEW token \in TxTokens,
                 Settle(caller, amount, token)
          PROVE  totalSettled' = SumFunctionOnSet(AmountsOf', 1 .. Len(events'))
      <3>1. /\ Len(events) \in Nat /\ Len(events') = Len(events) + 1
            /\ Entry(amount, token) \in Event /\ Entry(amount, token).amount = amount
            /\ events' = Append(events, Entry(amount, token))
        BY <2>1, SettleLogs DEF Entry
      <3>2. 1 .. Len(events') = (1 .. Len(events)) \cup {Len(events) + 1}
        BY <3>1
      <3>3. SumFunctionOnSet(AmountsOf', (1 .. Len(events)) \cup {Len(events) + 1})
              = SumFunctionOnSet(AmountsOf, 1 .. Len(events)) + amount
        BY <3>1, SpentGrows
      <3>4. totalSettled' = totalSettled + amount
        BY <2>1 DEF Settle
      <3> QED BY <2>0, <3>2, <3>3, <3>4
    <2>2. ASSUME UNCHANGED <<events, totalSettled>>
          PROVE  totalSettled' = SumFunctionOnSet(AmountsOf', 1 .. Len(events'))
      BY <2>0, <2>2 DEF AmountsOf
    <2>3. totalSettled' = SumFunctionOnSet(AmountsOf', 1 .. Len(events'))
      BY <2>1, <2>2, OwnerCallKeepsBooks DEF Next, SafeBalanceMoves, Tick, vars, books
    <2>4. SpentIn(1 .. Len(events))' = SumFunctionOnSet(AmountsOf', 1 .. Len(events'))
      BY DEF SpentIn, AmountsOf
    <2> QED BY <2>3, <2>4 DEF TotalIsLogged
  <1> QED BY <1>1, <1>2, TypeCorrect, PTL DEF Spec

\* The scan stops somewhere: at the first record that is too old, if there is one.
LEMMA ScanStops ==
  ASSUME TypeOK
  PROVE  /\ Scanned \in 0 .. recordCount
         /\ \A i \in 1 .. Scanned : Recent(spendRecords[Slot(i)])
         /\ Scanned = recordCount \/ ~Recent(spendRecords[Slot(Scanned + 1)])
  <1> DEFINE Stops(n) == /\ \A i \in 1 .. n : Recent(spendRecords[Slot(i)])
                         /\ n = recordCount \/ ~Recent(spendRecords[Slot(n + 1)])
             old == {i \in 1 .. recordCount : ~Recent(spendRecords[Slot(i)])}
  <1>0. recordCount \in Nat
    BY SettlerAssumption DEF TypeOK
  <1>1. \E n \in 0 .. recordCount : Stops(n)
    <2>1. CASE old = {}
      BY <1>0, <2>1
    <2>2. CASE old # {}
      <3>1. PICK m \in old : \A k \in old : m <= k
        <4> old \in SUBSET (1 .. recordCount)
          OBVIOUS
        <4> HIDE DEF old
        <4> QED BY <1>0, <2>2, LeastIndex
      <3>2. m - 1 \in 0 .. recordCount /\ (m - 1) + 1 = m
        BY <1>0
      <3>3. \A i \in 1 .. m - 1 : Recent(spendRecords[Slot(i)])
        BY <1>0, <3>1
      <3>4. ~Recent(spendRecords[Slot((m - 1) + 1)])
        BY <3>2
      <3> QED BY <3>2, <3>3, <3>4
    <2> QED BY <2>1, <2>2
  <1>2. Scanned \in 0 .. recordCount /\ Stops(Scanned)
    <2> HIDE DEF Stops
    <2>1. Scanned = CHOOSE n \in 0 .. recordCount : Stops(n)
      BY DEF Scanned, Stops
    <2> QED BY <1>1, <2>1
  <1> QED BY <1>2

\* The entries the scan adds: the latest of the log.
ScannedEntries == (Len(events) + 1 - Scanned) .. Len(events)

\* The backwards walk over the ring adds up the latest entries of the log.
LEMMA ScanSumsLatest ==
  ASSUME TypeOK, BufferHoldsLatest
  PROVE  /\ getRollingSpend = SpentIn(ScannedEntries)
         /\ ScannedEntries \in SUBSET (1 .. Len(events))
  <1> DEFINE n == Scanned
             walk == [i \in 1 .. n |-> spendRecords[Slot(i)].amount]
             back == [i \in 1 .. n |-> Len(events) + 1 - i]
  <1>1. /\ Len(events) \in Nat /\ recordCount \in Nat /\ recordCount <= Len(events)
        /\ \A i \in 1 .. Len(events) : events[i] \in Event
    BY SettlerAssumption DEF TypeOK, BufferHoldsLatest
  <1>2. n \in 0 .. recordCount
    BY ScanStops
  <1> HIDE DEF n
  <1>3. ScannedEntries \in SUBSET (1 .. Len(events))
    BY <1>1, <1>2 DEF ScannedEntries, n
  <1>4. /\ back \in [1 .. n -> ScannedEntries]
        /\ \A i, j \in 1 .. n : back[i] = back[j] => i = j
    BY <1>1, <1>2 DEF ScannedEntries, n
  <1>5. \A k \in ScannedEntries : \E i \in 1 .. n : back[i] = k
    <2> SUFFICES ASSUME NEW k \in ScannedEntries PROVE \E i \in 1 .. n : back[i] = k
      OBVIOUS
    <2>1. Len(events) + 1 - k \in 1 .. n /\ back[Len(events) + 1 - k] = k
      BY <1>1, <1>2 DEF ScannedEntries, n
    <2> QED BY <2>1
  <1>6. \A i \in 1 .. n : walk[i] = AmountsOf[back[i]] /\ walk[i] \in Int
    <2> SUFFICES ASSUME NEW i \in 1 .. n PROVE walk[i] = AmountsOf[back[i]] /\ walk[i] \in Int
      OBVIOUS
    <2>1. i \in 1 .. recordCount /\ Len(events) + 1 - i \in 1 .. Len(events)
      BY <1>1, <1>2
    <2>2. spendRecords[Slot(i)] = [amount |-> events[Len(events) + 1 - i].amount,
                                   timestamp |-> events[Len(events) + 1 - i].timestamp]
      BY <2>1 DEF BufferHoldsLatest
    <2> QED BY <1>1, <2>1, <2>2 DEF AmountsOf, Event
  <1>7. \A k \in ScannedEntries : AmountsOf[k] \in Int
    BY <1>1, <1>3 DEF AmountsOf, Event
  <1>8. SumFunctionOnSet(walk, 1 .. n) = SumFunctionOnSet(AmountsOf, ScannedEntries)
    <2> DEFINE steps == 1 .. n
    <2>1. IsFiniteSet(steps)
      BY <1>2, <1>1, FS_Interval
    <2>2. IsFiniteSet(ScannedEntries)
      <3>1. IsFiniteSet(1 .. Len(events))
        BY <1>1, FS_Interval
      <3> QED BY <1>3, <3>1, FS_Subset
    <2>3. /\ back \in [steps -> ScannedEntries]
          /\ \A i, j \in steps : back[i] = back[j] => i = j
          /\ \A k \in ScannedEntries : \E i \in steps : back[i] = k
      BY <1>4, <1>5
    <2>4. /\ \A i \in steps : walk[i] \in Int
          /\ \A i \in steps : walk[i] = AmountsOf[back[i]]
      BY <1>6
    <2>5. SumFunctionOnSet(walk, steps) = SumFunctionOnSet(AmountsOf, ScannedEntries)
      <3> HIDE DEF walk, back, steps
      <3> QED BY <1>7, <2>1, <2>2, <2>3, <2>4, SumReorders
    <2> QED BY <2>5
  <1>9. getRollingSpend = SumFunctionOnSet(walk, 1 .. n)
    BY SumOfFunction DEF getRollingSpend, n
  <1> QED BY <1>3, <1>8, <1>9 DEF SpentIn, AmountsOf

\* A window that the buffer can hold is scanned to its first entry.
LEMMA ScanCoversWindow ==
  ASSUME TypeOK, BufferHoldsLatest, LogInOrder,
         \A i \in InWindow : ~(Len(events) - i >= MAX_RECORDS)
  PROVE  ScannedEntries = InWindow
  <1> DEFINE n == Scanned
             L == Len(events)
             stamp(i) == events[i].timestamp
  <1>1. /\ L \in Nat /\ recordCount \in Nat /\ MAX_RECORDS \in Nat
        /\ recordCount = IF L < MAX_RECORDS THEN L ELSE MAX_RECORDS
        /\ \A i \in 1 .. L : stamp(i) \in Nat
    <2>1. \A i \in 1 .. L : events[i] \in Event
      BY DEF TypeOK
    <2> QED BY <2>1, SettlerAssumption DEF TypeOK, BufferHoldsLatest, Event
  <1>2. n \in 0 .. recordCount
    BY ScanStops
  <1>3. WindowStart \in Nat
    BY SettlerAssumption DEF WindowStart, TypeOK
  <1>4. ASSUME NEW i \in 1 .. recordCount
        PROVE  /\ L + 1 - i \in 1 .. L
               /\ Recent(spendRecords[Slot(i)]) <=> stamp(L + 1 - i) >= WindowStart
    <2>1. L + 1 - i \in 1 .. L
      BY <1>1
    <2>2. spendRecords[Slot(i)] = [amount |-> events[L + 1 - i].amount, timestamp |-> stamp(L + 1 - i)]
      BY DEF BufferHoldsLatest
    <2> QED BY <2>1, <2>2 DEF Recent
  <1>5. ASSUME NEW k \in ScannedEntries PROVE k \in InWindow
    <2>1. L + 1 - k \in 1 .. n /\ L + 1 - (L + 1 - k) = k /\ k \in 1 .. L
      BY <1>1, <1>2 DEF ScannedEntries
    <2>2. Recent(spendRecords[Slot(L + 1 - k)])
      BY <2>1, ScanStops
    <2>3. L + 1 - k \in 1 .. recordCount
      BY <1>1, <1>2, <2>1
    <2> HIDE DEF L
    <2>4. stamp(k) >= WindowStart
      BY <1>4, <2>1, <2>2, <2>3
    <2> QED BY <2>1, <2>4 DEF InWindow, L
  <1>6. ASSUME NEW k \in InWindow, k \notin ScannedEntries PROVE FALSE
    <2>1. k \in 1 .. L /\ stamp(k) >= WindowStart /\ ~(L - k >= MAX_RECORDS)
      BY <1>6 DEF InWindow
    <2>2. L + 1 - k \in 1 .. recordCount
      BY <1>1, <2>1
    <2>3. ~(L + 1 - k <= n)
      BY <1>1, <1>2, <1>6, <2>1 DEF ScannedEntries
    <2>4. n # recordCount /\ n + 1 \in 1 .. recordCount /\ L + 1 - (n + 1) \in 1 .. L
          /\ k <= L + 1 - (n + 1)
      BY <1>1, <1>2, <2>1, <2>2, <2>3
    <2>5. ~Recent(spendRecords[Slot(n + 1)])
      BY <2>4, ScanStops
    <2>6. ~(stamp(L + 1 - (n + 1)) >= WindowStart)
      BY <1>4, <2>4, <2>5
    <2>7. stamp(k) <= stamp(L + 1 - (n + 1))
      BY <2>1, <2>4 DEF LogInOrder
    <2> HIDE DEF stamp
    <2> QED BY <1>1, <1>3, <2>1, <2>4, <2>6, <2>7
  <1> QED BY <1>5, <1>6

\* The rolling spend is that of the window while the window's entries fit the
\* buffer, and never more than all that was settled, for every buffer size,
\* window and sequence of settlements.
THEOREM RollingSpendExactHolds == Spec => []RollingSpendExact
  <1>1. TypeOK /\ BufferHoldsLatest /\ LogInOrder /\ TotalIsLogged => RollingSpendExact
    <2> SUFFICES ASSUME TypeOK, BufferHoldsLatest, LogInOrder, TotalIsLogged
                 PROVE  RollingSpendExact
      OBVIOUS
    <2>1. getRollingSpend = SpentIn(ScannedEntries)
          /\ ScannedEntries \in SUBSET (1 .. Len(events))
      BY ScanSumsLatest
    <2>2. getRollingSpend <= totalSettled
      BY <2>1, SpentIsNat DEF TotalIsLogged
    <2>3. \/ \E i \in InWindow : Len(events) - i >= MAX_RECORDS
          \/ getRollingSpend = SpentIn(InWindow)
      BY <2>1, ScanCoversWindow
    <2> QED BY <2>2, <2>3 DEF RollingSpendExact, TotalIsLogged
  <1> QED BY <1>1, TypeCorrect, BufferHoldsLatestHolds, LogInOrderHolds, TotalIsLoggedHolds, PTL
=============================================================================
