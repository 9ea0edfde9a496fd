-------------------------- MODULE SettlementProofs --------------------------
(* What holds of Settlement, and of Sweep, where other loops send from its   *)
(* account, for every number of workers, loops and transactions, every fault *)
(* and every bound.                                                          *)
EXTENDS Sweep, SumTheorems, TLAPS, FiniteSetTheorems, SequenceTheorems

\* The transactions of the account are finitely many: the next nonce is a
\* positive number, whatever replaced what.
LEMMA NextNonceType ==
  ASSUME txs \in Seq(Tx)
  PROVE  NextNonce \in Nat \ {0}
  <1> DEFINE N == {txs[i].nonce : i \in DOMAIN txs}
             f == [i \in 1 .. Len(txs) |-> txs[i].nonce]
  <1>1. DOMAIN txs = 1 .. Len(txs) /\ Len(txs) \in Nat
    BY LenProperties
  <1>2. IsFiniteSet(1 .. Len(txs))
    BY <1>1, FS_Interval
  <1>3. f \in Surjection(1 .. Len(txs), N)
    BY <1>1 DEF Surjection
  <1>4. IsFiniteSet(N)
    BY <1>2, <1>3, FS_Surjection
  <1>5. Cardinality(N) \in Nat
    BY <1>4, FS_CardinalityType
  <1> QED BY <1>5 DEF NextNonce

\* Sending a transaction appends it and replaces at most what stood there.
LEMMA SubmitKeepsTxs ==
  ASSUME txs \in Seq(Tx), NEW token \in Tokens \cup {NoToken}, NEW n \in Nat \ {0},
         Submit(token, n)
  PROVE  txs' \in Seq(Tx) /\ UNCHANGED <<settledTxTokens, payments>>
  <1> DEFINE new == [token |-> token, nonce |-> n, status |-> "pending"]
             old == [i \in DOMAIN txs |->
                       IF i \in Standing(n) THEN [txs[i] EXCEPT !.status = "replaced"] ELSE txs[i]]
  <1>1. DOMAIN txs = 1 .. Len(txs) /\ Len(txs) \in Nat
    BY LenProperties
  <1>2. \A i \in 1 .. Len(txs) : txs[i] \in Tx
    BY ElementOfSeq
  <1>3. \A i \in 1 .. Len(txs) : old[i] \in Tx
    BY <1>1, <1>2 DEF Tx
  <1>4. old \in Seq(Tx)
    BY <1>1, <1>3
  <1>5. new \in Tx
    BY DEF Tx
  <1> QED BY <1>4, <1>5 DEF Submit

-----------------------------------------------------------------------------
\* A job that runs is one the queue knows, so that putting it back never brings
\* in a foreign job, and a worker about to send holds a nonce.
JobsKnown == \A w \in Workers : active[w] # NoJob => active[w] \in jobIds
NoncesHeld == \A w \in Workers : pc[w] = "send" => held[w] # 0

\* The types of the queue and of the workers; those of the chain and the rows.
QueueOK ==
  /\ waiting \subseteq jobIds /\ jobIds \subseteq Job /\ stalled \subseteq Job
  /\ JobsKnown
WorkersOK ==
  /\ pc \in [Workers -> {"idle", "check", "nonce", "send", "receipt", "settled", "catch"}]
  /\ active \in [Workers -> Job \cup {NoJob}]
  /\ \A w \in Workers : (pc[w] = "idle") <=> (active[w] = NoJob)
  /\ held \in [Workers -> Nat]
  /\ NoncesHeld
ChainOK ==
  /\ txs \in Seq(Tx)
  /\ settledTxTokens \subseteq Tokens
  /\ payments \in [Tokens -> Nat]
  /\ PaidOnce
RowsOK ==
  /\ row \in [Tokens -> {"approved", "settled", "failed"}]
  /\ disruptions \in 0 .. MaxDisruptions
  /\ dropped \subseteq Tokens

IInv == QueueOK /\ WorkersOK /\ ChainOK /\ RowsOK

LEMMA InvImpliesTypes == IInv => TypeOK
  BY DEF IInv, QueueOK, WorkersOK, ChainOK, RowsOK, TypeOK

\* The job of a worker that is not idle.
LEMMA ActiveJob ==
  ASSUME QueueOK, WorkersOK, NEW w \in Workers, pc[w] # "idle"
  PROVE  active[w] \in Job /\ active[w] \in jobIds /\ Token(w) \in Tokens
  BY DEF QueueOK, WorkersOK, JobsKnown, Job, Token

\* A step of one worker to a place where it has what the place asks for.
LEMMA GotoKeepsWorkers ==
  ASSUME WorkersOK, NEW w \in Workers, pc[w] # "idle",
         NEW next \in {"check", "nonce", "send", "receipt", "settled", "catch"},
         Goto(w, next), held' \in [Workers -> Nat],
         \A v \in Workers \ {w} : held'[v] = held[v],
         next = "send" => held'[w] # 0
  PROVE  WorkersOK' /\ UNCHANGED active
  BY DEF WorkersOK, Goto, NoncesHeld

LEMMA FinishKeepsWorkers ==
  ASSUME WorkersOK, NEW w \in Workers, Finish(w)
  PROVE  /\ WorkersOK'
         /\ \A v \in Workers : active'[v] # NoJob => active'[v] = active[v]
  BY SettlementAssumption DEF WorkersOK, Finish, NoncesHeld

LEMMA AddKeepsQueue ==
  ASSUME QueueOK, NEW job \in Job, Add(job),
         \A w \in Workers : active'[w] # NoJob => active'[w] = active[w]
  PROVE  QueueOK'
  BY DEF QueueOK, Add, JobsKnown

LEMMA RequeueKeepsQueue ==
  ASSUME QueueOK, NEW job \in jobIds, Requeue(job),
         \A w \in Workers : active'[w] # NoJob => active'[w] = active[w]
  PROVE  QueueOK'
  BY DEF QueueOK, Requeue, JobsKnown, Drop

LEMMA QueueStutters ==
  ASSUME QueueOK, UNCHANGED queue,
         \A w \in Workers : active'[w] # NoJob => active'[w] = active[w]
  PROVE  QueueOK'
  BY DEF QueueOK, queue, JobsKnown

LEMMA ChainStutters ==
  ASSUME ChainOK, UNCHANGED <<settledTxTokens, payments>>, txs' \in Seq(Tx)
  PROVE  ChainOK'
  BY DEF ChainOK, PaidOnce

-----------------------------------------------------------------------------
\* The account's transactions: one is mined, and settle() pays a token the
\* contract has not settled, or nothing.
LEMMA MineKeepsChain ==
  ASSUME ChainOK, NEW i \in DOMAIN txs, Mine(i)
  PROVE  ChainOK'
  <1> DEFINE t == txs[i].token
  <1>1. i \in 1 .. Len(txs) /\ txs[i] \in Tx
    BY LenProperties, ElementOfSeq DEF ChainOK
  <1>2. \A s \in {"success", "reverted"} : [txs EXCEPT ![i].status = s] \in Seq(Tx)
    <2> SUFFICES ASSUME NEW s \in {"success", "reverted"}
                 PROVE  [txs EXCEPT ![i].status = s] \in Seq(Tx)
      OBVIOUS
    <2>1. [txs[i] EXCEPT !.status = s] \in Tx
      BY <1>1 DEF Tx
    <2> QED BY <1>1, <2>1, ExceptSeq DEF ChainOK
  <1>3. CASE txs' = [txs EXCEPT ![i].status = "reverted"] /\ UNCHANGED <<settledTxTokens, payments>>
    BY <1>2, <1>3, ChainStutters
  <1>4. CASE /\ t = NoToken
             /\ \E s \in {"success", "reverted"} : txs' = [txs EXCEPT ![i].status = s]
             /\ UNCHANGED <<settledTxTokens, payments>>
    BY <1>2, <1>4, ChainStutters
  <1>5. CASE /\ t \in Tokens /\ t \notin settledTxTokens
             /\ txs' = [txs EXCEPT ![i].status = "success"]
             /\ settledTxTokens' = settledTxTokens \cup {t}
             /\ payments' = [payments EXCEPT ![t] = @ + 1]
    <2>1. txs' \in Seq(Tx)
      BY <1>2, <1>5
    <2>2. settledTxTokens' \subseteq Tokens /\ payments' \in [Tokens -> Nat]
      BY <1>5 DEF ChainOK
    <2>3. PaidOnce'
      BY <1>5 DEF ChainOK, PaidOnce
    <2> QED BY <2>1, <2>2, <2>3 DEF ChainOK
  <1> QED BY <1>3, <1>4, <1>5 DEF Mine, SettleRefuses

\* The steps of processJob() keep the invariant.
LEMMA ProcessKeepsInv ==
  ASSUME IInv, NEW w \in Workers, Process(w)
  PROVE  IInv'
  <1> USE DEF IInv
  <1>1. CASE Check(w)
    <2>1. \E next \in {"nonce", "settled", "catch"} : Goto(w, next)
      BY <1>1 DEF Check, CheckIfSettled
    <2>2. WorkersOK' /\ UNCHANGED active
      BY <1>1, <2>1, GotoKeepsWorkers DEF Check, WorkersOK
    <2>3. ChainOK' /\ RowsOK'
      BY <1>1 DEF Check, chain, ChainOK, PaidOnce, RowsOK
    <2>4. QueueOK'
      BY <1>1, <2>2, QueueStutters DEF Check
    <2> QED BY <2>2, <2>3, <2>4
  <1>2. CASE ReadNonce(w)
    <2>1. NextNonce \in Nat \ {0}
      BY NextNonceType DEF ChainOK
    <2>2. WorkersOK' /\ UNCHANGED active
      <3>1. CASE Goto(w, "send") /\ held' = [held EXCEPT ![w] = NextNonce]
        <4>1. /\ held' \in [Workers -> Nat] /\ held'[w] # 0
              /\ \A v \in Workers \ {w} : held'[v] = held[v]
          BY <2>1, <3>1 DEF WorkersOK
        <4> QED BY <1>2, <3>1, <4>1, GotoKeepsWorkers DEF ReadNonce
      <3>2. CASE Goto(w, "catch") /\ UNCHANGED held
        BY <1>2, <3>2, GotoKeepsWorkers DEF ReadNonce, WorkersOK
      <3> QED BY <1>2, <3>1, <3>2 DEF ReadNonce
    <2>3. ChainOK' /\ RowsOK'
      BY <1>2 DEF ReadNonce, chain, ChainOK, PaidOnce, RowsOK
    <2>4. QueueOK'
      BY <1>2, <2>2, QueueStutters DEF ReadNonce
    <2> QED BY <2>2, <2>3, <2>4
  <1>3. CASE Send(w)
    <2>1. Token(w) \in Tokens
      BY <1>3, ActiveJob DEF Send
    <2>2. held[w] \in Nat \ {0}
      BY <1>3 DEF Send, WorkersOK, NoncesHeld
    <2>3. txs' \in Seq(Tx) /\ UNCHANGED <<settledTxTokens, payments>>
      BY <1>3, <2>1, <2>2, SubmitKeepsTxs DEF Send, ChainOK, chain
    <2>4. ChainOK'
      BY <2>3, ChainStutters
    <2>5. WorkersOK' /\ UNCHANGED active
      <3>1. CASE Goto(w, "receipt") /\ held' = [held EXCEPT ![w] = Len(txs')]
        <4>1. Len(txs') \in Nat
          BY <2>3, LenProperties
        <4>2. /\ held' \in [Workers -> Nat]
              /\ \A v \in Workers \ {w} : held'[v] = held[v]
          BY <3>1, <4>1 DEF WorkersOK
        <4> QED BY <1>3, <3>1, <4>2, GotoKeepsWorkers DEF Send
      <3>2. CASE Goto(w, "catch") /\ UNCHANGED held
        BY <1>3, <3>2, GotoKeepsWorkers DEF Send, WorkersOK
      <3> QED BY <1>3, <3>1, <3>2 DEF Send
    <2>6. QueueOK' /\ RowsOK'
      BY <1>3, <2>5, QueueStutters DEF Send, RowsOK
    <2> QED BY <2>4, <2>5, <2>6
  <1>4. CASE AwaitReceipt(w)
    <2>1. \E next \in {"settled", "catch"} : Goto(w, next)
      BY <1>4 DEF AwaitReceipt, AfterReceipt
    <2>2. WorkersOK' /\ UNCHANGED active
      BY <1>4, <2>1, GotoKeepsWorkers DEF AwaitReceipt, WorkersOK
    <2>3. ChainOK' /\ RowsOK'
      BY <1>4 DEF AwaitReceipt, chain, ChainOK, PaidOnce, RowsOK
    <2>4. QueueOK'
      BY <1>4, <2>2, QueueStutters DEF AwaitReceipt
    <2> QED BY <2>2, <2>3, <2>4
  <1>5. CASE MarkTransactionSettled(w)
    <2>1. Token(w) \in Tokens
      BY <1>5, ActiveJob DEF MarkTransactionSettled
    <2>2. /\ WorkersOK'
          /\ \A v \in Workers : active'[v] # NoJob => active'[v] = active[v]
      BY <1>5, FinishKeepsWorkers DEF MarkTransactionSettled
    <2>3. ChainOK' /\ RowsOK'
      BY <1>5, <2>1 DEF MarkTransactionSettled, Mark, Drop, chain, ChainOK, PaidOnce, RowsOK
    <2>4. QueueOK'
      BY <1>5, <2>2, QueueStutters DEF MarkTransactionSettled
    <2> QED BY <2>2, <2>3, <2>4
  <1>6. CASE Catch(w)
    <2>1. active[w] \in Job /\ Token(w) \in Tokens
      BY <1>6, ActiveJob DEF Catch
    <2>2. /\ WorkersOK'
          /\ \A v \in Workers : active'[v] # NoJob => active'[v] = active[v]
      BY <1>6, FinishKeepsWorkers DEF Catch
    <2>3. ChainOK' /\ RowsOK'
      BY <1>6, <2>1 DEF Catch, Mark, Drop, chain, ChainOK, PaidOnce, RowsOK
    <2>4. QueueOK'
      <3>1. CASE AttemptsLeft(w) /\ Add(RetryJob(w))
        <4>1. RetryJob(w) \in Job
          BY <2>1, <3>1, SettlementAssumption DEF AttemptsLeft, Attempt, RetryJob, Job
        <4> QED BY <2>2, <3>1, <4>1, AddKeepsQueue
      <3>2. CASE UNCHANGED queue
        BY <2>2, <3>2, QueueStutters
      <3> QED BY <1>6, <3>1, <3>2 DEF Catch
    <2> QED BY <2>2, <2>3, <2>4
  <1> QED BY <1>1, <1>2, <1>3, <1>4, <1>5, <1>6 DEF Process

\* So do the queue, the chain and what disturbs the service.
LEMMA DisruptionKeepsInv ==
  ASSUME IInv, NEW w \in Workers, Crash(w) \/ LockLost(w)
  PROVE  IInv'
  <1> USE DEF IInv
  <1>1. active[w] \in jobIds /\ Token(w) \in Tokens
    <2>1. pc[w] # "idle"
      BY DEF Crash, LockLost, WorkersOK
    <2> QED BY <2>1, ActiveJob
  <1>2. Requeue(active[w]) /\ UNCHANGED <<chain, row>>
    BY DEF Crash, LockLost
  <1>3. /\ WorkersOK'
        /\ \A v \in Workers : active'[v] # NoJob => active'[v] = active[v]
    <2>1. CASE Crash(w)
      BY <2>1, FinishKeepsWorkers DEF Crash
    <2>2. CASE LockLost(w)
      BY <2>2 DEF LockLost, worker, WorkersOK, NoncesHeld
    <2> QED BY <2>1, <2>2
  <1>4. QueueOK'
    BY <1>1, <1>2, <1>3, RequeueKeepsQueue
  <1>5. ChainOK' /\ RowsOK'
    <2>1. disruptions' \in 0 .. MaxDisruptions
      BY SettlementAssumption DEF Crash, LockLost, Disrupt, RowsOK
    <2>2. dropped' \subseteq Tokens
      BY <1>1, <1>2 DEF Requeue, Drop, RowsOK, Token
    <2> QED BY <1>2, <2>1, <2>2 DEF chain, ChainOK, PaidOnce, RowsOK
  <1> QED BY <1>3, <1>4, <1>5

\* What the other loops do to the service: they send from its account, or do
\* nothing to it.
OtherStep ==
  /\ \/ \E n \in Nat \ {0} : Submit(NoToken, n)
     \/ UNCHANGED chain
  /\ disruptions' \in 0 .. MaxDisruptions
  /\ UNCHANGED <<queue, worker, row, dropped>>

SharedNext == Next \/ OtherStep

LEMMA NextKeepsInv == IInv /\ [SharedNext]_vars => IInv'
  <1> SUFFICES ASSUME IInv, [SharedNext]_vars PROVE IInv'
    OBVIOUS
  <1> USE DEF IInv
  <1>1. ASSUME NEW t \in Tokens, Authorize(t) PROVE IInv'
    <2>1. [token |-> t, attempt |-> 1] \in Job
      BY SettlementAssumption DEF Job
    <2>2. QueueOK'
      BY <1>1, <2>1, AddKeepsQueue DEF Authorize, worker
    <2> QED BY <1>1, <2>2 DEF Authorize, worker, chain, WorkersOK, NoncesHeld, ChainOK, PaidOnce, RowsOK
  <1>2. ASSUME NEW w \in Workers, Take(w) PROVE IInv'
    <2> PICK job \in waiting : /\ waiting' = waiting \ {job}
                               /\ pc' = [pc EXCEPT ![w] = "check"]
                               /\ active' = [active EXCEPT ![w] = job]
      BY <1>2 DEF Take
    <2>1. job \in Job /\ job \in jobIds /\ job # NoJob
      BY SettlementAssumption DEF QueueOK
    <2>2. WorkersOK'
      BY <1>2, <2>1 DEF Take, WorkersOK, NoncesHeld
    <2>3. QueueOK'
      BY <1>2, <2>1 DEF Take, QueueOK, JobsKnown, WorkersOK
    <2> QED BY <1>2, <2>2, <2>3 DEF Take, chain, ChainOK, PaidOnce, RowsOK
  <1>3. ASSUME NEW w \in Workers, Process(w) PROVE IInv'
    BY <1>3, ProcessKeepsInv
  <1>4. ASSUME NEW w \in Workers, Crash(w) \/ LockLost(w) PROVE IInv'
    BY <1>4, DisruptionKeepsInv
  <1>5. ASSUME NEW i \in DOMAIN txs, Mine(i) PROVE IInv'
    <2>1. ChainOK'
      BY <1>5, MineKeepsChain
    <2>2. UNCHANGED <<queue, worker, row, disruptions, dropped>>
      BY <1>5 DEF Mine
    <2> QED BY <2>1, <2>2 DEF queue, worker, QueueOK, JobsKnown, WorkersOK, NoncesHeld, RowsOK
  <1>6. ASSUME NEW job \in jobIds, Forget(job) PROVE IInv'
    <2>1. QueueOK'
      BY <1>6 DEF Forget, worker, QueueOK, JobsKnown
    <2>2. disruptions' \in 0 .. MaxDisruptions
      BY <1>6, SettlementAssumption DEF Forget, Disrupt, RowsOK
    <2> QED BY <1>6, <2>1, <2>2 DEF Forget, worker, chain, WorkersOK, NoncesHeld, ChainOK, PaidOnce, RowsOK
  <1>7. CASE OtherStep
    <2>1. txs' \in Seq(Tx) /\ UNCHANGED <<settledTxTokens, payments>>
      BY <1>7, SubmitKeepsTxs DEF OtherStep, ChainOK, chain
    <2>2. ChainOK'
      BY <2>1, ChainStutters
    <2> QED BY <1>7, <2>2 DEF OtherStep, queue, worker, QueueOK, JobsKnown, WorkersOK, NoncesHeld, RowsOK
  <1>8. CASE UNCHANGED vars
    BY <1>8 DEF vars, queue, worker, chain, QueueOK, JobsKnown, WorkersOK, NoncesHeld,
       ChainOK, PaidOnce, RowsOK
  <1> QED BY <1>1, <1>2, <1>3, <1>4, <1>5, <1>6, <1>7, <1>8 DEF SharedNext, Next, ServiceStep

-----------------------------------------------------------------------------
(* The loops beside the service.                                             *)

\* A loop about to send holds a nonce.
RefsOK ==
  /\ DOMAIN at = Loops /\ DOMAIN ref = Loops
  /\ \A l \in Loops : at[l] = "send" => ref[l] \in Nat \ {0}

LEMMA DisruptIsBounded ==
  ASSUME IInv, Disrupt
  PROVE  disruptions' \in 0 .. MaxDisruptions
  BY SettlementAssumption DEF IInv, RowsOK, Disrupt

LEMMA LoopStepIsShared ==
  ASSUME IInv, RefsOK, NEW l \in Loops, LoopStep(l)
  PROVE  [SharedNext]_vars /\ RefsOK'
  <1>1. NextNonce \in Nat \ {0}
    BY NextNonceType DEF IInv, ChainOK
  <1>2. disruptions \in 0 .. MaxDisruptions
    BY DEF IInv, RowsOK
  <1>3. CASE ReadBalance(l) \/ ReadIssuerBalance(l) \/ ReadTreasuryBalance(l)
    BY <1>3 DEF ReadBalance, ReadIssuerBalance, ReadTreasuryBalance, Moves, Rests, RefsOK
  <1>4. CASE PrepareTransaction(l)
    BY <1>1, <1>4 DEF PrepareTransaction, Moves, Rests, RefsOK
  <1>5. CASE SendTransaction(l)
    <2>1. OtherStep
      BY <1>2, <1>5 DEF SendTransaction, OtherStep, RefsOK
    <2>2. RefsOK'
      BY <1>5 DEF SendTransaction, Moves, Rests, RefsOK
    <2> QED BY <2>1, <2>2 DEF SharedNext
  <1>6. CASE AwaitTransactionReceipt(l) \/ RecordSweep(l)
    BY <1>6 DEF AwaitTransactionReceipt, AfterSweepReceipt, RecordSweep, Moves, Rests, RefsOK
  <1>7. CASE LoopDies(l)
    <2>1. OtherStep
      BY <1>7, DisruptIsBounded DEF LoopDies, OtherStep
    <2>2. RefsOK'
      BY <1>7 DEF LoopDies, Rests, RefsOK
    <2> QED BY <2>1, <2>2 DEF SharedNext
  <1> QED BY <1>3, <1>4, <1>5, <1>6, <1>7 DEF LoopStep

LEMMA StepIsShared == IInv /\ RefsOK /\ [SweepNext]_<<vars, sweepVars>> => [SharedNext]_vars /\ RefsOK'
  <1> SUFFICES ASSUME IInv, RefsOK, [SweepNext]_<<vars, sweepVars>>
               PROVE  [SharedNext]_vars /\ RefsOK'
    OBVIOUS
  <1>1. CASE ServiceStep /\ UNCHANGED sweepVars
    BY <1>1 DEF SharedNext, Next, sweepVars, loops, RefsOK
  <1>2. ASSUME NEW i \in DOMAIN txs, MineTransaction(i) PROVE [SharedNext]_vars /\ RefsOK'
    BY <1>2 DEF MineTransaction, SharedNext, Next, loops, RefsOK
  <1>3. ASSUME NEW l \in Loops, LoopStep(l) PROVE [SharedNext]_vars /\ RefsOK'
    BY <1>3, LoopStepIsShared
  <1>4. CASE AllocationSends
    <2>1. NextNonce \in Nat \ {0}
      BY NextNonceType DEF IInv, ChainOK
    <2>2. OtherStep
      BY <1>4, <2>1, DisruptIsBounded DEF AllocationSends, OtherStep
    <2> QED BY <1>4, <2>2 DEF AllocationSends, SharedNext, loops, RefsOK
  <1>5. CASE Deposit
    <2>1. OtherStep
      BY <1>5, DisruptIsBounded DEF Deposit, OtherStep
    <2> QED BY <1>5, <2>1 DEF Deposit, SharedNext, loops, RefsOK
  <1>6. CASE UNCHANGED <<vars, sweepVars>>
    BY <1>6 DEF sweepVars, loops, RefsOK
  <1> QED BY <1>1, <1>2, <1>3, <1>4, <1>5, <1>6 DEF SweepNext

LEMMA InitSatisfiesInv == Init => IInv
  BY SettlementAssumption DEF Init, IInv, QueueOK, JobsKnown, WorkersOK, NoncesHeld,
     ChainOK, PaidOnce, RowsOK

LEMMA InvHolds == SweepSpec => [](IInv /\ RefsOK)
  <1>1. SweepInit => IInv /\ RefsOK
    BY InitSatisfiesInv DEF SweepInit, RefsOK
  <1>2. IInv /\ RefsOK /\ [SweepNext]_<<vars, sweepVars>> => (IInv /\ RefsOK)'
    BY StepIsShared, NextKeepsInv
  <1> QED BY <1>1, <1>2, PTL DEF SweepSpec

-----------------------------------------------------------------------------
\* Every variable of the service keeps its type beside the loops: attempts stay
\* within settlementMaxRetries and nothing waits that the queue does not know.
THEOREM TypeCorrect == SweepSpec => []TypeOK
  BY InvHolds, InvImpliesTypes, PTL

\* A card transaction is paid once, for any number of workers and of loops that
\* send from the same account, whatever fails, is replaced, re-run or forgotten.
THEOREM PaidOnceHolds == SweepSpec => []PaidOnce
  <1>1. IInv => PaidOnce
    BY DEF IInv, ChainOK
  <1> QED BY <1>1, InvHolds, PTL

-----------------------------------------------------------------------------
(* Any number of senders: what a settled row says of the chain.              *)

PaidOrReplaced(t) == t \in settledTxTokens \/ Replaced(t)

\* One transaction stands at a nonce; a worker waits for its own, and has settled
\* on nothing but a payment or the receipt of what took its place.
OneStands ==
  \A i, k \in DOMAIN txs :
    txs[i].nonce = txs[k].nonce /\ txs[i].status # "replaced" /\ txs[k].status # "replaced" => i = k
OwnReceipt ==
  \A w \in Workers :
    /\ pc[w] = "receipt" => held[w] \in DOMAIN txs /\ txs[held[w]].token = Token(w)
    /\ pc[w] = "settled" => PaidOrReplaced(Token(w))

\* A transaction of a token that succeeded settled it.
SuccessSettles ==
  \A i \in DOMAIN txs :
    txs[i].status = "success" /\ txs[i].token \in Tokens => txs[i].token \in settledTxTokens

BInv == IInv /\ OneStands /\ SuccessSettles /\ OwnReceipt /\ BookedUnpaidOnlyIf

\* The chain takes back neither a payment nor a replacement.
Grows ==
  /\ DOMAIN txs \subseteq DOMAIN txs'
  /\ settledTxTokens \subseteq settledTxTokens'
  /\ \A i \in DOMAIN txs : /\ txs'[i].token = txs[i].token
                           /\ txs[i].status = "replaced" => txs'[i].status = "replaced"

LEMMA PaidOrReplacedStays ==
  ASSUME Grows, NEW t, PaidOrReplaced(t)
  PROVE  PaidOrReplaced(t)'
  BY DEF Grows, PaidOrReplaced, Replaced

LEMMA UnchangedGrows ==
  ASSUME UNCHANGED chain
  PROVE  Grows /\ (OneStands => OneStands') /\ (SuccessSettles => SuccessSettles')
  BY DEF chain, Grows, OneStands, SuccessSettles

\* A transaction that is sent replaces pending ones only.
LEMMA SubmitGrows ==
  ASSUME txs \in Seq(Tx), OneStands, SuccessSettles,
         NEW token, NEW n \in Nat \ {0}, Submit(token, n)
  PROVE  /\ Grows /\ OneStands' /\ SuccessSettles'
         /\ Len(txs') \in DOMAIN txs' /\ txs'[Len(txs')].token = token
  <1> DEFINE new == [token |-> token, nonce |-> n, status |-> "pending"]
             old == [i \in DOMAIN txs |->
                       IF i \in Standing(n) THEN [txs[i] EXCEPT !.status = "replaced"] ELSE txs[i]]
  <1>1. DOMAIN txs = 1 .. Len(txs) /\ Len(txs) \in Nat /\ \A i \in DOMAIN txs : txs[i] \in Tx
    BY LenProperties, ElementOfSeq
  <1>2. txs' = Append(old, new) /\ UNCHANGED settledTxTokens
    BY DEF Submit
  <1>3. /\ DOMAIN txs' = 1 .. Len(txs) + 1 /\ Len(txs') = Len(txs) + 1
        /\ \A i \in DOMAIN txs : txs'[i] = old[i]
        /\ txs'[Len(txs) + 1] = new
    BY <1>1, <1>2
  <1>4. \A i \in DOMAIN txs :
          /\ old[i].token = txs[i].token /\ old[i].nonce = txs[i].nonce
          /\ old[i].status = IF i \in Standing(n) THEN "replaced" ELSE txs[i].status
    BY <1>1 DEF Tx
  <1>5. \A i \in DOMAIN txs : i \notin Standing(n) /\ txs[i].status # "replaced" => txs[i].nonce # n
    BY DEF Standing
  <1>6. \A i \in DOMAIN txs' : i \in DOMAIN txs \/ i = Len(txs) + 1
    BY <1>1, <1>3
  <1>7. Grows
    BY <1>1, <1>2, <1>3, <1>4 DEF Grows, Standing
  <1>8. OneStands'
    <2>1. \A i \in DOMAIN txs : txs'[i].status # "replaced" =>
            txs'[i].nonce # n /\ txs[i].status # "replaced" /\ txs'[i].nonce = txs[i].nonce
      BY <1>3, <1>4, <1>5
    <2>2. txs'[Len(txs) + 1].nonce = n
      BY <1>3
    <2> QED BY <1>6, <2>1, <2>2 DEF OneStands
  <1>9. SuccessSettles'
    BY <1>2, <1>3, <1>4, <1>6 DEF SuccessSettles
  <1> QED BY <1>1, <1>3, <1>7, <1>8, <1>9

LEMMA MineGrows ==
  ASSUME txs \in Seq(Tx), OneStands, SuccessSettles, NEW i \in DOMAIN txs, Mine(i)
  PROVE  Grows /\ OneStands' /\ SuccessSettles'
  <1>1. txs[i] \in Tx
    BY LenProperties, ElementOfSeq
  <1>2. PICK s \in {"success", "reverted"} :
          /\ txs' = [txs EXCEPT ![i].status = s]
          /\ settledTxTokens \subseteq settledTxTokens'
          /\ s = "success" /\ txs[i].token \in Tokens => txs[i].token \in settledTxTokens'
    BY SettlementAssumption DEF Mine
  <1>3. txs[i].status = "pending"
    BY DEF Mine
  <1>4. /\ DOMAIN txs' = DOMAIN txs
        /\ \A k \in DOMAIN txs : /\ txs'[k].token = txs[k].token /\ txs'[k].nonce = txs[k].nonce
                                 /\ txs'[k].status = IF k = i THEN s ELSE txs[k].status
    BY <1>1, <1>2 DEF Tx
  <1>5. Grows
    BY <1>2, <1>3, <1>4 DEF Grows
  <1>6. OneStands'
    BY <1>3, <1>4 DEF OneStands
  <1>7. SuccessSettles'
    BY <1>2, <1>4 DEF SuccessSettles
  <1> QED BY <1>5, <1>6, <1>7

\* A step that writes no row and brings no worker to a receipt or its outcome.
LEMMA BInvCarries ==
  ASSUME BInv, IInv', Grows, OneStands', SuccessSettles', UNCHANGED row,
         \A w \in Workers : pc'[w] \in {"receipt", "settled"} =>
           pc'[w] = pc[w] /\ active'[w] = active[w] /\ held'[w] = held[w]
  PROVE  BInv'
  <1>1. BookedUnpaidOnlyIf'
    BY PaidOrReplacedStays DEF BInv, BookedUnpaidOnlyIf, PaidOrReplaced, Replaced
  <1>2. OwnReceipt'
    <2> SUFFICES ASSUME NEW w \in Workers
                 PROVE  /\ pc'[w] = "receipt" => held'[w] \in DOMAIN txs' /\ txs'[held'[w]].token = Token(w)'
                        /\ pc'[w] = "settled" => PaidOrReplaced(Token(w))'
      BY DEF OwnReceipt
    <2>1. CASE pc'[w] = "receipt"
      BY <2>1 DEF BInv, OwnReceipt, Grows, Token
    <2>2. CASE pc'[w] = "settled"
      <3>1. PaidOrReplaced(Token(w)) /\ Token(w)' = Token(w)
        BY <2>2 DEF BInv, OwnReceipt, Token
      <3> QED BY <2>2, <3>1 DEF Grows, PaidOrReplaced, Replaced
    <2> QED BY <2>1, <2>2
  <1> QED BY <1>1, <1>2 DEF BInv

LEMMA SendKeepsBInv ==
  ASSUME BInv, IInv', NEW w \in Workers, Send(w)
  PROVE  BInv'
  <1>1. /\ txs \in Seq(Tx) /\ held[w] \in Nat \ {0}
        /\ DOMAIN pc = Workers /\ held \in [Workers -> Nat]
    BY DEF Send, BInv, IInv, ChainOK, WorkersOK, NoncesHeld
  <1>2. CASE Goto(w, "catch") /\ UNCHANGED held
    <2>1. Grows /\ OneStands' /\ SuccessSettles'
      <3>1. CASE Submit(Token(w), held[w])
        BY <1>1, <3>1, SubmitGrows DEF BInv
      <3>2. CASE UNCHANGED chain
        BY <3>2, UnchangedGrows DEF BInv
      <3> QED BY <1>2, <3>1, <3>2 DEF Send, Goto
    <2> QED BY <1>1, <1>2, <2>1, BInvCarries DEF Send, Goto
  <1>3. CASE /\ Submit(Token(w), held[w]) /\ Goto(w, "receipt")
             /\ held' = [held EXCEPT ![w] = Len(txs')]
    <2>1. /\ Grows /\ OneStands' /\ SuccessSettles'
          /\ Len(txs') \in DOMAIN txs' /\ txs'[Len(txs')].token = Token(w)
      BY <1>1, <1>3, SubmitGrows DEF BInv
    <2>2. pc'[w] = "receipt" /\ held'[w] = Len(txs') /\ UNCHANGED active /\ UNCHANGED row
      BY <1>1, <1>3 DEF Goto, Send
    <2>3. \A v \in Workers \ {w} : pc'[v] = pc[v] /\ held'[v] = held[v]
      BY <1>1, <1>3 DEF Goto
    <2>4. BookedUnpaidOnlyIf'
      BY <2>1, <2>2 DEF BInv, BookedUnpaidOnlyIf, Replaced, Grows
    <2>5. OwnReceipt'
      <3> SUFFICES ASSUME NEW v \in Workers
                   PROVE  /\ pc'[v] = "receipt" => held'[v] \in DOMAIN txs' /\ txs'[held'[v]].token = Token(v)'
                          /\ pc'[v] = "settled" => PaidOrReplaced(Token(v))'
        BY DEF OwnReceipt
      <3>1. Token(v)' = Token(v)
        BY <2>2 DEF Token
      <3>2. CASE v = w
        BY <2>1, <2>2, <3>1, <3>2
      <3>3. CASE v # w
        BY <2>1, <2>3, <3>1, <3>3 DEF BInv, OwnReceipt, Grows, PaidOrReplaced, Replaced
      <3> QED BY <3>2, <3>3
    <2> QED BY <2>1, <2>4, <2>5 DEF BInv
  <1> QED BY <1>2, <1>3 DEF Send

\* A receipt of success is the payment, or another transaction's at the nonce.
LEMMA AwaitReceiptKeepsBInv ==
  ASSUME BInv, IInv', NEW w \in Workers, AwaitReceipt(w)
  PROVE  BInv'
  <1>1. DOMAIN pc = Workers /\ UNCHANGED <<txs, settledTxTokens, held, row, active>>
    BY DEF AwaitReceipt, Goto, chain, BInv, IInv, WorkersOK
  <1>2. Grows /\ OneStands' /\ SuccessSettles'
    BY UnchangedGrows DEF AwaitReceipt, BInv
  <1>3. CASE Goto(w, "catch")
    BY <1>1, <1>2, <1>3, BInvCarries DEF Goto
  <1>4. ASSUME NEW i \in Receipts(w), txs[i].status = "success", Goto(w, "settled")
        PROVE  BInv'
    <2>1. held[w] \in DOMAIN txs /\ txs[held[w]].token = Token(w)
      BY DEF AwaitReceipt, BInv, OwnReceipt
    <2>2. Token(w) \in Tokens
      BY ActiveJob DEF AwaitReceipt, BInv, IInv
    <2>3. PaidOrReplaced(Token(w))
      <3>1. CASE txs[held[w]].status = "replaced"
        BY <2>1, <3>1 DEF PaidOrReplaced, Replaced
      <3>2. CASE txs[held[w]].status # "replaced"
        <4>1. i = held[w]
          BY <1>4, <2>1, <3>2 DEF Receipts, Mined, BInv, OneStands
        <4> QED BY <1>4, <2>1, <2>2, <4>1 DEF BInv, SuccessSettles, PaidOrReplaced
      <3> QED BY <3>1, <3>2
    <2>4. \A v \in Workers \ {w} : pc'[v] = pc[v]
      BY <1>1, <1>4 DEF Goto
    <2>5. pc'[w] = "settled"
      BY <1>1, <1>4 DEF Goto
    <2>6. OwnReceipt'
      BY <1>1, <2>3, <2>4, <2>5 DEF BInv, OwnReceipt, PaidOrReplaced, Replaced, Token
    <2>7. BookedUnpaidOnlyIf'
      BY <1>1 DEF BInv, BookedUnpaidOnlyIf, Replaced
    <2> QED BY <1>2, <2>6, <2>7 DEF BInv
  <1> QED BY <1>3, <1>4 DEF AwaitReceipt, AfterReceipt

LEMMA MarkKeepsBInv ==
  ASSUME BInv, IInv', NEW w \in Workers, MarkTransactionSettled(w)
  PROVE  BInv'
  <1>1. /\ UNCHANGED chain /\ Finish(w) /\ Mark(w, "settled")
        /\ DOMAIN pc = Workers /\ DOMAIN active = Workers
        /\ DOMAIN row = Tokens
    BY DEF MarkTransactionSettled, BInv, IInv, WorkersOK, RowsOK
  <1>2. Grows /\ OneStands' /\ SuccessSettles'
    BY <1>1, UnchangedGrows DEF BInv
  <1>3. PaidOrReplaced(Token(w))
    BY DEF MarkTransactionSettled, BInv, OwnReceipt
  <1>4. BookedUnpaidOnlyIf'
    BY <1>1, <1>3 DEF Mark, chain, BInv, BookedUnpaidOnlyIf, PaidOrReplaced, Replaced
  <1>5. OwnReceipt'
    BY <1>1 DEF Finish, chain, BInv, OwnReceipt, PaidOrReplaced, Replaced, Token
  <1> QED BY <1>2, <1>4, <1>5 DEF BInv

\* The last attempt writes "failed", never "settled".
LEMMA CatchKeepsBInv ==
  ASSUME BInv, IInv', NEW w \in Workers, Catch(w)
  PROVE  BInv'
  <1>1. /\ UNCHANGED chain /\ Finish(w)
        /\ DOMAIN pc = Workers /\ DOMAIN active = Workers
        /\ DOMAIN row = Tokens
    BY DEF Catch, BInv, IInv, WorkersOK, RowsOK
  <1>2. Grows /\ OneStands' /\ SuccessSettles'
    BY <1>1, UnchangedGrows DEF BInv
  <1>3. \A t \in Tokens : row'[t] = "settled" => row[t] = "settled"
    BY <1>1 DEF Catch, Mark
  <1>4. BookedUnpaidOnlyIf'
    BY <1>1, <1>3 DEF chain, BInv, BookedUnpaidOnlyIf, Replaced
  <1>5. OwnReceipt'
    BY <1>1 DEF Finish, chain, BInv, OwnReceipt, PaidOrReplaced, Replaced, Token
  <1> QED BY <1>2, <1>4, <1>5 DEF BInv

\* The contract's own answer: the token is paid.
LEMMA CheckKeepsBInv ==
  ASSUME BInv, IInv', NEW w \in Workers, Check(w)
  PROVE  BInv'
  <1>1. /\ UNCHANGED chain /\ UNCHANGED <<held, active, row>>
        /\ DOMAIN pc = Workers
        /\ \E next \in {"settled", "nonce", "catch"} :
             /\ pc' = [pc EXCEPT ![w] = next]
             /\ next = "settled" => Token(w) \in settledTxTokens
    BY DEF Check, CheckIfSettled, Goto, BInv, IInv, WorkersOK
  <1>2. Grows /\ OneStands' /\ SuccessSettles'
    BY <1>1, UnchangedGrows DEF BInv
  <1>3. BookedUnpaidOnlyIf'
    BY <1>1 DEF chain, BInv, BookedUnpaidOnlyIf, Replaced
  <1>4. OwnReceipt'
    BY <1>1 DEF chain, BInv, OwnReceipt, PaidOrReplaced, Replaced, Token
  <1> QED BY <1>2, <1>3, <1>4 DEF BInv

LEMMA NextKeepsBInv == BInv /\ [SharedNext]_vars => BInv'
  <1> SUFFICES ASSUME BInv, [SharedNext]_vars PROVE BInv'
    OBVIOUS
  <1> IInv'
    BY NextKeepsInv DEF BInv
  <1>1. /\ txs \in Seq(Tx) /\ DOMAIN pc = Workers
        /\ DOMAIN active = Workers /\ held \in [Workers -> Nat]
    BY DEF BInv, IInv, ChainOK, WorkersOK
  <1>2. ASSUME UNCHANGED chain, UNCHANGED row,
               \A w \in Workers : pc'[w] \in {"receipt", "settled"} =>
                 pc'[w] = pc[w] /\ active'[w] = active[w] /\ held'[w] = held[w]
        PROVE  BInv'
    BY <1>2, UnchangedGrows, BInvCarries DEF BInv
  <1>3. ASSUME NEW t \in Tokens, Authorize(t) PROVE BInv'
    BY <1>2, <1>3 DEF Authorize, worker
  <1>4. ASSUME NEW w \in Workers, Take(w) \/ ReadNonce(w) \/ Crash(w) \/ LockLost(w) PROVE BInv'
    <2>1. CASE Take(w)
      BY <1>1, <1>2, <2>1 DEF Take
    <2>2. CASE ReadNonce(w)
      BY <1>1, <1>2, <2>2 DEF ReadNonce, Goto
    <2>3. CASE Crash(w)
      BY <1>1, <1>2, <2>3 DEF Crash, Finish
    <2>4. CASE LockLost(w)
      BY <1>2, <2>4 DEF LockLost, worker
    <2> QED BY <1>4, <2>1, <2>2, <2>3, <2>4
  <1>5. ASSUME NEW w \in Workers, Process(w), ~ReadNonce(w) PROVE BInv'
    BY <1>5, CheckKeepsBInv, SendKeepsBInv, AwaitReceiptKeepsBInv, MarkKeepsBInv, CatchKeepsBInv
       DEF Process
  <1>6. ASSUME NEW job \in jobIds, Forget(job) PROVE BInv'
    BY <1>2, <1>6 DEF Forget, worker
  <1>7. ASSUME NEW i \in DOMAIN txs, Mine(i) PROVE BInv'
    <2>1. Grows /\ OneStands' /\ SuccessSettles'
      BY <1>1, <1>7, MineGrows DEF BInv
    <2>2. UNCHANGED worker /\ UNCHANGED row
      BY <1>7 DEF Mine
    <2> QED BY <2>1, <2>2, BInvCarries DEF worker
  <1>8. CASE OtherStep
    <2>1. Grows /\ OneStands' /\ SuccessSettles'
      BY <1>1, <1>8, SubmitGrows, UnchangedGrows DEF OtherStep, BInv
    <2> QED BY <1>8, <2>1, BInvCarries DEF OtherStep, worker
  <1>9. CASE UNCHANGED vars
    BY <1>2, <1>9 DEF vars, worker
  <1> QED BY <1>3, <1>4, <1>5, <1>6, <1>7, <1>8, <1>9 DEF SharedNext, Next, ServiceStep, Process

LEMMA BInvHolds == SweepSpec => []BInv
  <1>1. Init => BInv
    <2> SUFFICES ASSUME Init PROVE BInv
      OBVIOUS
    <2>1. IInv
      BY InitSatisfiesInv
    <2>2. DOMAIN txs = {} /\ \A t \in Tokens : row[t] = "approved"
      BY DEF Init
    <2>3. \A w \in Workers : pc[w] = "idle"
      BY DEF Init
    <2> QED BY <2>1, <2>2, <2>3 DEF BInv, OneStands, SuccessSettles, OwnReceipt, BookedUnpaidOnlyIf
  <1>2. SweepInit => BInv
    BY <1>1 DEF SweepInit
  <1>3. BInv /\ IInv /\ RefsOK /\ [SweepNext]_<<vars, sweepVars>> => BInv'
    BY StepIsShared, NextKeepsBInv
  <1> QED BY <1>2, <1>3, InvHolds, PTL DEF SweepSpec

\* A row says settled for a token that was not paid only when another transaction
\* took the nonce of its settle(), for any number of workers and of loops beside
\* them, every fault and every bound.
THEOREM BookedUnpaidOnlyIfHolds == SweepSpec => []BookedUnpaidOnlyIf
  <1>1. BInv => BookedUnpaidOnlyIf
    BY DEF BInv
  <1> QED BY <1>1, BInvHolds, PTL

\* A step on the shared account is a step of the promise, the booking of a token
\* whose transaction was replaced, or changes neither the payments nor the rows.
LEMMA StepKeepsPromise ==
  ASSUME BInv, [SharedNext]_vars
  PROVE  [Promise!Next \/ \E t \in Tokens : BooksReplaced(t)]_<<payments, row>>
  <1>1. ASSUME NEW i \in DOMAIN txs, Mine(i)
        PROVE  UNCHANGED <<payments, row>> \/ \E t \in Tokens : Promise!Pay(t)
    <2>1. CASE UNCHANGED payments
      BY <1>1, <2>1 DEF Mine
    <2>2. CASE ~UNCHANGED payments
      <3> DEFINE t == txs[i].token
      <3>1. t \in Tokens /\ t \notin settledTxTokens /\ payments' = [payments EXCEPT ![t] = @ + 1]
        BY <1>1, <2>2 DEF Mine, SettleRefuses
      <3>2. payments[t] = 0
        BY <3>1 DEF BInv, IInv, ChainOK, PaidOnce
      <3>3. payments' = [payments EXCEPT ![t] = 1]
        BY <3>1, <3>2
      <3> QED BY <1>1, <3>1, <3>2, <3>3 DEF Mine, Promise!Pay
    <2> QED BY <2>1, <2>2
  <1>2. ASSUME NEW w \in Workers, MarkTransactionSettled(w)
        PROVE  \/ UNCHANGED <<payments, row>>
               \/ \E t \in Tokens : Promise!BookSettled(t) \/ BooksReplaced(t)
    <2>1. Token(w) \in Tokens /\ PaidOrReplaced(Token(w))
      BY <1>2, ActiveJob DEF MarkTransactionSettled, BInv, IInv, OwnReceipt
    <2>2. Token(w) \in settledTxTokens => payments[Token(w)] = 1
      BY <2>1 DEF BInv, IInv, ChainOK, PaidOnce
    <2> QED BY <1>2, <2>1, <2>2 DEF MarkTransactionSettled, Mark, chain, PaidOrReplaced,
            Promise!BookSettled, BooksReplaced
  <1>3. ASSUME NEW w \in Workers, Catch(w)
        PROVE  UNCHANGED <<payments, row>> \/ \E t \in Tokens : Promise!GiveUp(t)
    <2>1. Token(w) \in Tokens
      BY <1>3, ActiveJob DEF Catch, BInv, IInv
    <2> QED BY <1>3, <2>1 DEF Catch, Mark, chain, Promise!GiveUp
  <1>4. ASSUME NEW t \in Tokens, Authorize(t) PROVE UNCHANGED <<payments, row>>
    BY <1>4 DEF Authorize, chain
  <1>5. ASSUME NEW w \in Workers,
               Take(w) \/ Check(w) \/ ReadNonce(w) \/ AwaitReceipt(w) \/ Crash(w) \/ LockLost(w)
        PROVE  UNCHANGED <<payments, row>>
    BY <1>5 DEF Take, Check, ReadNonce, AwaitReceipt, Crash, LockLost, chain
  <1>6. ASSUME NEW w \in Workers, Send(w) PROVE UNCHANGED <<payments, row>>
    BY <1>6 DEF Send, Submit, chain
  <1>7. ASSUME NEW job \in jobIds, Forget(job) PROVE UNCHANGED <<payments, row>>
    BY <1>7 DEF Forget, chain
  <1>8. CASE OtherStep
    BY <1>8 DEF OtherStep, Submit, chain
  <1>9. CASE UNCHANGED vars
    BY <1>9 DEF vars, chain
  <1> QED BY <1>1, <1>2, <1>3, <1>4, <1>5, <1>6, <1>7, <1>8, <1>9
          DEF SharedNext, Next, ServiceStep, Process, Promise!Next

\* With any number of workers, and of loops that send from the same account, the
\* service implements SettleOnce through every fault, but for the booking of a
\* token whose own transaction another one replaced.
THEOREM PromiseKept == SweepSpec => PromiseOrReplaced
  <1>1. SweepInit => Promise!Init
    BY DEF SweepInit, Init, Promise!Init
  <1>2. BInv /\ IInv /\ RefsOK /\ [SweepNext]_<<vars, sweepVars>>
          => [Promise!Next \/ \E t \in Tokens : BooksReplaced(t)]_<<payments, row>>
    BY StepIsShared, StepKeepsPromise
  <1> QED BY <1>1, <1>2, InvHolds, BInvHolds, PTL DEF SweepSpec, PromiseOrReplaced

-----------------------------------------------------------------------------
(* The types of the loops and of what they moved.                            *)

Others == {i \in DOMAIN txs : txs[i].token = NoToken}

\* What a loop waits for or is to record is a transaction of the loops.
LoopsTyped ==
  /\ SweepTypeOK
  /\ \A l \in Loops : at[l] \in {"receipt", "record"} => ref[l] \in DOMAIN calls

LEMMA SubmitTokens ==
  ASSUME txs \in Seq(Tx), NEW token, NEW n, Submit(token, n)
  PROVE  /\ DOMAIN txs' = DOMAIN txs \cup {Len(txs')}
         /\ Len(txs') \in Nat /\ Len(txs') \notin DOMAIN txs
         /\ txs'[Len(txs')].token = token
         /\ \A i \in DOMAIN txs : txs'[i].token = txs[i].token
  <1> DEFINE new == [token |-> token, nonce |-> n, status |-> "pending"]
             old == [i \in DOMAIN txs |->
                       IF i \in Standing(n) THEN [txs[i] EXCEPT !.status = "replaced"] ELSE txs[i]]
  <1>1. DOMAIN txs = 1 .. Len(txs) /\ Len(txs) \in Nat /\ \A i \in DOMAIN txs : txs[i] \in Tx
    BY LenProperties, ElementOfSeq
  <1>2. txs' = Append(old, new)
    BY DEF Submit
  <1>3. /\ DOMAIN txs' = 1 .. Len(txs) + 1 /\ Len(txs') = Len(txs) + 1
        /\ \A i \in DOMAIN txs : txs'[i] = old[i]
        /\ txs'[Len(txs) + 1] = new
    BY <1>1, <1>2
  <1>4. \A i \in DOMAIN txs : txs'[i].token = txs[i].token
    BY <1>1, <1>3 DEF Tx
  <1>5. txs'[Len(txs')].token = token
    BY <1>3
  <1>6. DOMAIN txs' = DOMAIN txs \cup {Len(txs')} /\ Len(txs') \in Nat /\ Len(txs') \notin DOMAIN txs
    BY <1>1, <1>3
  <1> QED BY <1>4, <1>5, <1>6

\* A settlement is no transaction of the loops, and mining changes no token.
LEMMA SubmitKeepsOthers ==
  ASSUME txs \in Seq(Tx), NEW token \in Tokens, NEW n, Submit(token, n)
  PROVE  Others' = Others
  BY SubmitTokens, SettlementAssumption DEF Others

LEMMA MineKeepsOthers ==
  ASSUME txs \in Seq(Tx), NEW i \in DOMAIN txs, Mine(i)
  PROVE  Others' = Others
  <1>1. \A k \in DOMAIN txs : txs[k] \in Tx
    BY LenProperties, ElementOfSeq
  <1>2. PICK s \in {"success", "reverted"} : txs' = [txs EXCEPT ![i].status = s]
    BY SettlementAssumption DEF Mine
  <1> QED BY <1>1, <1>2 DEF Others, Tx

LEMMA ServiceKeepsOthers ==
  ASSUME IInv, ServiceStep
  PROVE  Others' = Others
  <1>1. ASSUME NEW w \in Workers, Send(w) PROVE Others' = Others
    <2>1. txs \in Seq(Tx) /\ Token(w) \in Tokens
      BY <1>1, ActiveJob DEF Send, IInv, ChainOK
    <2> QED BY <1>1, <2>1, SubmitKeepsOthers DEF Send, chain, Others
  <1>2. ASSUME UNCHANGED chain PROVE Others' = Others
    BY <1>2 DEF chain, Others
  <1>3. ASSUME NEW w \in Workers, Process(w), ~Send(w) PROVE UNCHANGED chain
    BY <1>3 DEF Process, Check, ReadNonce, AwaitReceipt, MarkTransactionSettled, Catch
  <1>4. ASSUME NEW w \in Workers, Take(w) \/ Crash(w) \/ LockLost(w) PROVE UNCHANGED chain
    BY <1>4 DEF Take, Crash, LockLost
  <1>5. ASSUME NEW t \in Tokens, Authorize(t) PROVE UNCHANGED chain
    BY <1>5 DEF Authorize
  <1>6. ASSUME NEW job \in jobIds, Forget(job) PROVE UNCHANGED chain
    BY <1>6 DEF Forget
  <1> QED BY <1>1, <1>2, <1>3, <1>4, <1>5, <1>6 DEF ServiceStep

LEMMA SendKeepsLoopsTyped ==
  ASSUME IInv, LoopsTyped, NEW l \in Loops, SendTransaction(l)
  PROVE  LoopsTyped'
  <1>1. /\ DOMAIN at = Loops /\ DOMAIN ref = Loops /\ DOMAIN amount = Loops
        /\ txs \in Seq(Tx) /\ amount[l] \in Nat /\ DOMAIN calls = Others
    BY DEF LoopsTyped, SweepTypeOK, IInv, ChainOK, Others
  <1>2. CASE UNCHANGED <<chain, calls, abandoned>> /\ Rests(l)
    BY <1>1, <1>2 DEF SendTransaction, Rests, chain, money, LoopsTyped, SweepTypeOK
  <1>3. CASE Submit(NoToken, ref[l]) /\ calls' = Carries(Call(l))
    <2>1. /\ DOMAIN txs' = DOMAIN txs \cup {Len(txs')} /\ Len(txs') \in Nat
          /\ Others' = Others \cup {Len(txs')}
      BY <1>1, <1>3, SubmitTokens DEF Others
    <2>2. /\ DOMAIN calls' = DOMAIN calls \cup {Len(txs')}
          /\ \A i \in DOMAIN calls' : calls'[i] \in [kind : Kind, amount : Nat]
      BY <1>1, <1>3 DEF Carries, Call, KindOf, Kind, LoopsTyped, SweepTypeOK
    <2>3. DOMAIN calls' = Others'
      BY <1>1, <2>1, <2>2
    <2>4. abandoned' \subseteq DOMAIN calls' /\ UNCHANGED <<usdc, executes, sweepRows>>
      BY <1>1, <1>2, <1>3, <2>2 DEF SendTransaction, money, LoopsTyped, SweepTypeOK
    <2>5. \/ Rests(l)
          \/ Moves(l, "receipt") /\ ref' = [ref EXCEPT ![l] = Len(txs')] /\ UNCHANGED amount
      BY DEF SendTransaction
    <2>6. /\ at' \in [Loops -> {"idle", "treasury", "prepare", "send", "receipt", "record"}]
          /\ amount' \in [Loops -> Nat] /\ ref' \in [Loops -> Nat]
          /\ \A k \in Loops : at'[k] \in {"receipt", "record"} => ref'[k] \in DOMAIN calls'
      <3>1. /\ at \in [Loops -> {"idle", "treasury", "prepare", "send", "receipt", "record"}]
            /\ amount \in [Loops -> Nat] /\ ref \in [Loops -> Nat]
            /\ \A k \in Loops : at[k] \in {"receipt", "record"} => ref[k] \in DOMAIN calls'
        BY <2>2 DEF LoopsTyped, SweepTypeOK
      <3>2. CASE Rests(l)
        BY <3>1, <3>2 DEF Rests
      <3>3. CASE Moves(l, "receipt") /\ ref' = [ref EXCEPT ![l] = Len(txs')] /\ UNCHANGED amount
        BY <2>1, <2>2, <3>1, <3>3 DEF Moves
      <3> QED BY <2>5, <3>2, <3>3
    <2>7. sweepRows \subseteq [tx : DOMAIN calls', amount : Nat]
      BY <2>2 DEF LoopsTyped, SweepTypeOK
    <2>8. usdc' \in [Safes -> Nat] /\ executes' \in BOOLEAN
      BY <2>4 DEF LoopsTyped, SweepTypeOK
    <2>9. sweepRows' \subseteq [tx : DOMAIN calls', amount : Nat]
      BY <2>4, <2>7
    <2>10. DOMAIN calls' = {i \in DOMAIN txs' : txs'[i].token = NoToken}
      BY <2>3 DEF Others
    <2>11. SweepTypeOK'
      BY <2>2, <2>4, <2>6, <2>8, <2>9, <2>10, Zenon DEF SweepTypeOK
    <2> QED BY <2>6, <2>11 DEF LoopsTyped
  <1> QED BY <1>2, <1>3 DEF SendTransaction

LEMMA LoopStepKeepsTyped ==
  ASSUME IInv, LoopsTyped, NEW l \in Loops, LoopStep(l)
  PROVE  LoopsTyped'
  <1> USE DEF LoopsTyped, SweepTypeOK
  <1>1. /\ usdc \in [Safes -> Nat] /\ amount[l] \in Nat /\ NextNonce \in Nat
    BY NextNonceType DEF IInv, ChainOK
  <1>2. UNCHANGED txs \/ SendTransaction(l)
    BY DEF LoopStep, ReadBalance, ReadIssuerBalance, ReadTreasuryBalance, PrepareTransaction,
       AwaitTransactionReceipt, RecordSweep, LoopDies, vars, chain
  <1>3. CASE SendTransaction(l)
    BY <1>3, SendKeepsLoopsTyped
  <1>4. CASE ReadBalance(l)
    BY <1>1, <1>4 DEF ReadBalance, Moves, vars, chain, money, Safes
  <1>5. CASE ReadIssuerBalance(l)
    <2>1. TopUpAmount(usdc["issuer"]) \in Nat
      BY <1>1, <1>5, SweepAssumption DEF ReadIssuerBalance, TopUpAmount, Safes
    <2> QED BY <1>5, <2>1 DEF ReadIssuerBalance, Moves, vars, chain, money
  <1>6. CASE ReadTreasuryBalance(l)
    BY <1>6 DEF ReadTreasuryBalance, Moves, Rests, vars, chain, money
  <1>7. CASE PrepareTransaction(l)
    BY <1>1, <1>7 DEF PrepareTransaction, Moves, Rests, vars, chain, money
  <1>8. CASE AwaitTransactionReceipt(l)
    BY <1>8 DEF AwaitTransactionReceipt, AfterSweepReceipt, Abandon, Moves, Rests, vars, chain, money
  <1>9. CASE RecordSweep(l)
    BY <1>1, <1>9 DEF RecordSweep, Abandon, Rests, vars, chain, money
  <1>10. CASE LoopDies(l)
    BY <1>10 DEF LoopDies, Abandon, Rests, vars, chain, money
  <1> QED BY <1>3, <1>4, <1>5, <1>6, <1>7, <1>8, <1>9, <1>10 DEF LoopStep

\* A transfer takes no more than the Safe has.
LEMMA MineKeepsTyped ==
  ASSUME IInv, LoopsTyped, NEW i \in DOMAIN txs, MineTransaction(i)
  PROVE  LoopsTyped'
  <1>1. Others' = Others /\ UNCHANGED <<executes, calls, loops, sweepRows, abandoned>>
    BY MineKeepsOthers DEF MineTransaction, IInv, ChainOK
  <1>2. ASSUME NEW from \in Safes, NEW to \in Safes, NEW n \in Nat, Covered(from, n)
        PROVE  Moved(from, to, n) \in [Safes -> Nat]
    BY <1>2 DEF Covered, Moved, LoopsTyped, SweepTypeOK
  <1>3. usdc' \in [Safes -> Nat]
    <2>1. CASE txs[i].token \in Tokens
      BY <1>2, <2>1, SweepAssumption, SettlementAssumption
         DEF MineTransaction, Safes, LoopsTyped, SweepTypeOK
    <2>2. CASE txs[i].token = NoToken
      <3>1. calls[i] \in [kind : Kind, amount : Nat]
        BY <2>2 DEF LoopsTyped, SweepTypeOK
      <3>2. From(calls[i].kind) \in Safes /\ To(calls[i].kind) \in Safes /\ calls[i].amount \in Nat
        BY <3>1 DEF From, To, Safes
      <3> QED BY <1>2, <2>2, <3>2, SettlementAssumption
              DEF MineTransaction, SafeTakesCall, LoopsTyped, SweepTypeOK
    <2> QED BY <2>1, <2>2 DEF MineTransaction
  <1> QED BY <1>1, <1>3 DEF loops, LoopsTyped, SweepTypeOK, Others

LEMMA StepKeepsTyped == IInv /\ LoopsTyped /\ [SweepNext]_<<vars, sweepVars>> => LoopsTyped'
  <1> SUFFICES ASSUME IInv, LoopsTyped, [SweepNext]_<<vars, sweepVars>> PROVE LoopsTyped'
    OBVIOUS
  <1>1. CASE ServiceStep /\ UNCHANGED sweepVars
    BY <1>1, ServiceKeepsOthers DEF sweepVars, money, loops, LoopsTyped, SweepTypeOK, Others
  <1>2. ASSUME NEW i \in DOMAIN txs, MineTransaction(i) PROVE LoopsTyped'
    BY <1>2, MineKeepsTyped
  <1>3. ASSUME NEW l \in Loops, LoopStep(l) PROVE LoopsTyped'
    BY <1>3, LoopStepKeepsTyped
  <1>4. CASE AllocationSends
    <2> DEFINE c == [kind |-> "allocation", amount |-> PlatformShare]
    <2>1. PICK n : Submit(NoToken, n)
      BY <1>4 DEF AllocationSends
    <2>2. DOMAIN calls = Others /\ txs \in Seq(Tx)
      BY DEF LoopsTyped, SweepTypeOK, Others, IInv, ChainOK
    <2>3. Others' = Others \cup {Len(txs')}
      BY <2>1, <2>2, SubmitTokens DEF Others
    <2>4. c \in [kind : Kind, amount : Nat]
      BY SweepAssumption DEF Kind
    <2>5. calls' = Carries(c)
      BY <1>4 DEF AllocationSends
    <2>6. /\ DOMAIN calls' = DOMAIN calls \cup {Len(txs')}
          /\ \A i \in DOMAIN calls' : calls'[i] \in [kind : Kind, amount : Nat]
      BY <2>4, <2>5 DEF Carries, LoopsTyped, SweepTypeOK
    <2> QED BY <1>4, <2>2, <2>3, <2>6
            DEF AllocationSends, money, loops, LoopsTyped, SweepTypeOK, Others
  <1>5. CASE Deposit
    BY <1>5 DEF Deposit, chain, loops, Safes, LoopsTyped, SweepTypeOK
  <1>6. CASE UNCHANGED <<vars, sweepVars>>
    BY <1>6 DEF vars, chain, sweepVars, money, loops, LoopsTyped, SweepTypeOK
  <1> QED BY <1>1, <1>2, <1>3, <1>4, <1>5, <1>6 DEF SweepNext

LEMMA LoopsTypedHolds == SweepSpec => []LoopsTyped
  <1>1. SweepInit => LoopsTyped
    <2> SUFFICES ASSUME SweepInit PROVE LoopsTyped
      OBVIOUS
    <2>1. DOMAIN txs = {} /\ DOMAIN calls = {}
      BY DEF SweepInit, Init
    <2> QED BY <2>1, SweepAssumption DEF SweepInit, LoopsTyped, SweepTypeOK
  <1> QED BY <1>1, StepKeepsTyped, InvHolds, PTL DEF SweepSpec

\* Every variable of the loops keeps its type: no transfer takes a Safe below
\* zero, no top-up is negative, and every row is of a transaction of the loops.
THEOREM SweepTypeCorrect == SweepSpec => []SweepTypeOK
  <1>1. LoopsTyped => SweepTypeOK
    BY DEF LoopsTyped
  <1> QED BY <1>1, LoopsTypedHolds, PTL
-----------------------------------------------------------------------------
(* The ledger of the sweeps.                                                 *)

Awaited(l) == at[l] \in {"receipt", "record"}

\* A loop waits for a transaction of its own, not booked yet; a sweep is recorded
\* on its success or on that of what took its nonce.
AwaitedIsOwn ==
  \A l \in Loops :
    /\ Awaited(l) =>
         /\ calls[ref[l]] = Call(l)
         /\ \A r \in sweepRows : r.tx # ref[l]
         /\ \A k \in Loops : Awaited(k) /\ ref[k] = ref[l] => k = l
    /\ at[l] = "record" => l \in Sweepers /\ txs[ref[l]].status \in {"success", "replaced"}

RowsOwn ==
  \A r \in sweepRows :
    /\ calls[r.tx].kind = "sweep" /\ calls[r.tx].amount = r.amount
    /\ txs[r.tx].status \in {"success", "replaced"}
    /\ \A s \in sweepRows : s.tx = r.tx => s = r

\* Where a sweep stands that may still succeed, or has.
Accounted(i) ==
  \/ \E r \in sweepRows : r.tx = i
  \/ \E l \in Sweepers : Awaited(l) /\ ref[l] = i
  \/ i \in abandoned
  \/ txs[i].status \in {"reverted", "replaced"}

SweepsAccounted == \A i \in DOMAIN calls : calls[i].kind = "sweep" => Accounted(i)

LedgerInv == AwaitedIsOwn /\ RowsOwn /\ SweepsAccounted

\* A transaction that is no longer pending stays as it is.
FinalStays ==
  /\ DOMAIN txs \subseteq DOMAIN txs'
  /\ \A i \in DOMAIN txs : txs[i].status # "pending" => txs'[i].status = txs[i].status

LEMMA SubmitFinal ==
  ASSUME txs \in Seq(Tx), NEW token, NEW n, Submit(token, n)
  PROVE  FinalStays
  <1> DEFINE new == [token |-> token, nonce |-> n, status |-> "pending"]
             old == [i \in DOMAIN txs |->
                       IF i \in Standing(n) THEN [txs[i] EXCEPT !.status = "replaced"] ELSE txs[i]]
  <1>1. DOMAIN txs = 1 .. Len(txs) /\ Len(txs) \in Nat
    BY LenProperties
  <1>2. txs' = Append(old, new) /\ \A i \in Standing(n) : txs[i].status = "pending"
    BY DEF Submit
  <1>3. DOMAIN txs' = 1 .. Len(txs) + 1 /\ \A i \in DOMAIN txs : txs'[i] = old[i]
    BY <1>1, <1>2
  <1>4. \A i \in DOMAIN txs : txs[i].status # "pending" => old[i] = txs[i]
    BY <1>2
  <1>5. \A i \in DOMAIN txs : txs[i].status # "pending" => txs'[i] = txs[i]
    BY <1>3, <1>4
  <1>6. DOMAIN txs \subseteq DOMAIN txs'
    BY <1>1, <1>3
  <1> QED BY <1>5, <1>6 DEF FinalStays

LEMMA MineFinal ==
  ASSUME txs \in Seq(Tx), NEW i \in DOMAIN txs, Mine(i)
  PROVE  FinalStays
  <1>1. PICK s \in {"success", "reverted"} : txs' = [txs EXCEPT ![i].status = s]
    BY SettlementAssumption DEF Mine
  <1> QED BY <1>1 DEF Mine, FinalStays

LEMMA ServiceFinal ==
  ASSUME IInv, ServiceStep
  PROVE  FinalStays
  <1>1. txs \in Seq(Tx)
    BY DEF IInv, ChainOK
  <1>2. ASSUME UNCHANGED chain PROVE FinalStays
    BY <1>2 DEF chain, FinalStays
  <1>3. ASSUME NEW w \in Workers, Send(w) PROVE FinalStays
    BY <1>1, <1>2, <1>3, SubmitFinal DEF Send
  <1>4. ASSUME NEW w \in Workers, Process(w), ~Send(w) PROVE UNCHANGED chain
    BY <1>4 DEF Process, Check, ReadNonce, AwaitReceipt, MarkTransactionSettled, Catch
  <1>5. ASSUME NEW w \in Workers, Take(w) \/ Crash(w) \/ LockLost(w) PROVE UNCHANGED chain
    BY <1>5 DEF Take, Crash, LockLost
  <1>6. ASSUME NEW t \in Tokens, Authorize(t) PROVE UNCHANGED chain
    BY <1>6 DEF Authorize
  <1>7. ASSUME NEW job \in jobIds, Forget(job) PROVE UNCHANGED chain
    BY <1>7 DEF Forget
  <1> QED BY <1>2, <1>3, <1>4, <1>5, <1>6, <1>7 DEF ServiceStep

\* The transactions the ledger speaks of exist.
LEMMA CallsAreSent ==
  ASSUME LoopsTyped
  PROVE  /\ \A i \in DOMAIN calls : i \in DOMAIN txs
         /\ \A r \in sweepRows : r.tx \in DOMAIN calls
         /\ \A l \in Loops : Awaited(l) => ref[l] \in DOMAIN calls
         /\ \A l \in Sweepers : l \in Loops
  BY DEF LoopsTyped, SweepTypeOK, Awaited, Loops

\* A step after which no loop waits that did not, and the transaction that a
\* sweeping loop leaves is given up or did not succeed.
LEMMA LedgerCarries ==
  ASSUME LoopsTyped, LedgerInv, FinalStays, UNCHANGED <<calls, sweepRows>>,
         abandoned \subseteq abandoned',
         \A l \in Loops : Awaited(l)' => at'[l] = at[l] /\ ref'[l] = ref[l] /\ amount'[l] = amount[l],
         \A l \in Sweepers : Awaited(l) /\ ~Awaited(l)' =>
           ref[l] \in abandoned' \/ txs[ref[l]].status \in {"reverted", "replaced"}
  PROVE  LedgerInv'
  <1>1. AwaitedIsOwn'
    <2> SUFFICES ASSUME NEW l \in Loops, Awaited(l)'
                 PROVE  /\ calls'[ref'[l]] = Call(l)'
                        /\ \A r \in sweepRows' : r.tx # ref'[l]
                        /\ \A k \in Loops : Awaited(k)' /\ ref'[k] = ref'[l] => k = l
                        /\ at'[l] = "record" =>
                             l \in Sweepers /\ txs'[ref'[l]].status \in {"success", "replaced"}
      BY DEF AwaitedIsOwn, Awaited
    <2>1. \A k \in Loops : Awaited(k)' => Awaited(k) /\ ref'[k] = ref[k] /\ at'[k] = at[k]
      BY DEF Awaited
    <2>2. Call(l)' = Call(l) /\ ref'[l] = ref[l]
      BY DEF Call
    <2>3. ref[l] \in DOMAIN txs
      BY <2>1, CallsAreSent
    <2>4. at'[l] = "record" => l \in Sweepers /\ txs'[ref[l]].status \in {"success", "replaced"}
      BY <2>1, <2>3 DEF LedgerInv, AwaitedIsOwn, FinalStays
    <2> QED BY <2>1, <2>2, <2>4 DEF LedgerInv, AwaitedIsOwn
  <1>2. RowsOwn'
    BY CallsAreSent DEF LedgerInv, RowsOwn, FinalStays
  <1>3. ASSUME NEW i \in DOMAIN calls, calls[i].kind = "sweep" PROVE Accounted(i)'
    <2>1. i \in DOMAIN txs /\ Accounted(i)
      BY <1>3, CallsAreSent DEF LedgerInv, SweepsAccounted
    <2>2. txs[i].status \in {"reverted", "replaced"} => Accounted(i)'
      BY <2>1 DEF Accounted, FinalStays
    <2>3. ASSUME NEW l \in Sweepers, Awaited(l), ref[l] = i PROVE Accounted(i)'
      <3>1. CASE Awaited(l)'
        BY <2>3, <3>1, CallsAreSent DEF Accounted
      <3>2. CASE ~Awaited(l)'
        BY <2>2, <2>3, <3>2 DEF Accounted
      <3> QED BY <3>1, <3>2
    <2> QED BY <2>1, <2>2, <2>3 DEF Accounted
  <1> QED BY <1>1, <1>2, <1>3 DEF LedgerInv, SweepsAccounted

\* A loop rests.
LEMMA RestKeepsLedger ==
  ASSUME LoopsTyped, LedgerInv, NEW l \in Loops, Rests(l), UNCHANGED <<txs, calls, sweepRows>>,
         abandoned \subseteq abandoned',
         Awaited(l) /\ l \in Sweepers =>
           ref[l] \in abandoned' \/ txs[ref[l]].status \in {"reverted", "replaced"}
  PROVE  LedgerInv'
  <1>1. DOMAIN at = Loops /\ DOMAIN ref = Loops /\ DOMAIN amount = Loops /\ Sweepers \subseteq Loops
    BY DEF LoopsTyped, SweepTypeOK, Loops
  <1>2. at'[l] = "idle"
    BY <1>1 DEF Rests
  <1>3. \A k \in Loops \ {l} : at'[k] = at[k] /\ ref'[k] = ref[k] /\ amount'[k] = amount[k]
    BY <1>1 DEF Rests
  <1>4. \A k \in Loops : Awaited(k)' => at'[k] = at[k] /\ ref'[k] = ref[k] /\ amount'[k] = amount[k]
    BY <1>2, <1>3 DEF Awaited
  <1>5. \A k \in Sweepers : Awaited(k) /\ ~Awaited(k)' => k = l
    BY <1>1, <1>3 DEF Awaited
  <1>6. FinalStays
    BY DEF FinalStays
  <1> QED BY <1>4, <1>5, <1>6, LedgerCarries

\* A loop goes from one of its reads to the next.
LEMMA MoveKeepsLedger ==
  ASSUME LoopsTyped, LedgerInv, NEW l \in Loops, ~Awaited(l),
         NEW next \in {"treasury", "prepare", "send"}, Moves(l, next),
         \A k \in Loops \ {l} : ref'[k] = ref[k] /\ amount'[k] = amount[k],
         UNCHANGED <<txs, calls, sweepRows, abandoned>>
  PROVE  LedgerInv'
  <1>1. DOMAIN at = Loops /\ Sweepers \subseteq Loops
    BY DEF LoopsTyped, SweepTypeOK, Loops
  <1>2. at'[l] = next /\ \A k \in Loops \ {l} : at'[k] = at[k]
    BY <1>1 DEF Moves
  <1>3. \A k \in Loops : Awaited(k)' => at'[k] = at[k] /\ ref'[k] = ref[k] /\ amount'[k] = amount[k]
    BY <1>2 DEF Awaited
  <1>4. \A k \in Sweepers : ~(Awaited(k) /\ ~Awaited(k)')
    BY <1>1, <1>2 DEF Awaited
  <1>5. FinalStays
    BY DEF FinalStays
  <1> QED BY <1>3, <1>4, <1>5, LedgerCarries

LEMMA ReadsKeepLedger ==
  ASSUME LoopsTyped, LedgerInv, NEW l \in Loops,
         ReadBalance(l) \/ ReadIssuerBalance(l) \/ ReadTreasuryBalance(l) \/ PrepareTransaction(l)
  PROVE  LedgerInv'
  <1>1. DOMAIN ref = Loops /\ DOMAIN amount = Loops
    BY DEF LoopsTyped, SweepTypeOK
  <1>2. ~Awaited(l) /\ UNCHANGED <<txs, calls, sweepRows, abandoned>>
    BY DEF ReadBalance, ReadIssuerBalance, ReadTreasuryBalance, PrepareTransaction, Awaited, vars, chain
  <1>3. CASE Rests(l)
    BY <1>2, <1>3, RestKeepsLedger
  <1>4. CASE ReadBalance(l)
    BY <1>1, <1>2, <1>4, MoveKeepsLedger DEF ReadBalance
  <1>5. CASE ReadIssuerBalance(l)
    BY <1>1, <1>2, <1>5, MoveKeepsLedger DEF ReadIssuerBalance
  <1>6. CASE ReadTreasuryBalance(l) /\ Moves(l, "prepare") /\ UNCHANGED <<amount, ref>>
    BY <1>2, <1>6, MoveKeepsLedger
  <1>7. CASE PrepareTransaction(l) /\ Moves(l, "send") /\ ref' = [ref EXCEPT ![l] = NextNonce] /\ UNCHANGED amount
    BY <1>1, <1>2, <1>7, MoveKeepsLedger
  <1> QED BY <1>3, <1>4, <1>5, <1>6, <1>7 DEF ReadTreasuryBalance, PrepareTransaction

\* The receipt that arrives is the loop's own unless its transaction was replaced.
LEMMA AwaitKeepsLedger ==
  ASSUME IInv, OneStands, LoopsTyped, LedgerInv, NEW l \in Loops, AwaitTransactionReceipt(l)
  PROVE  LedgerInv'
  <1>1. /\ DOMAIN at = Loops /\ Sweepers \subseteq Loops /\ Awaited(l)
        /\ UNCHANGED <<txs, calls, sweepRows>>
    BY DEF LoopsTyped, SweepTypeOK, Loops, AwaitTransactionReceipt, Awaited, vars, chain
  <1>2. ref[l] \in DOMAIN txs
    BY <1>1, CallsAreSent
  <1>3. CASE Rests(l) /\ Abandon(l)
    BY <1>1, <1>3, RestKeepsLedger DEF Abandon
  <1>4. ASSUME NEW i \in ReceiptsOf(l), AfterSweepReceipt(l, txs[i].status), UNCHANGED abandoned
        PROVE  LedgerInv'
    <2>1. /\ txs[i].status \in {"success", "reverted"}
          /\ txs[ref[l]].status # "replaced" => i = ref[l]
      BY <1>2 DEF ReceiptsOf, Mined, OneStands
    <2>2. CASE txs[i].status = "success" /\ l \in Sweepers
      <3>1. at'[l] = "record" /\ UNCHANGED <<ref, amount>> /\ \A k \in Loops \ {l} : at'[k] = at[k]
        BY <1>1, <1>4, <2>2 DEF AfterSweepReceipt, Moves
      <3>2. \A k \in Loops : (Awaited(k)' <=> Awaited(k)) /\ Call(k)' = Call(k)
        BY <1>1, <3>1 DEF Awaited, Call
      <3>3. txs[ref[l]].status \in {"success", "replaced"}
        BY <2>1, <2>2
      <3>4. AwaitedIsOwn'
        BY <1>1, <2>2, <3>1, <3>2, <3>3 DEF LedgerInv, AwaitedIsOwn
      <3>5. RowsOwn'
        BY <1>1 DEF LedgerInv, RowsOwn
      <3>6. SweepsAccounted'
        BY <1>1, <1>4, <3>1, <3>2 DEF LedgerInv, SweepsAccounted, Accounted
      <3> QED BY <3>4, <3>5, <3>6 DEF LedgerInv
    <2>3. CASE ~(txs[i].status = "success" /\ l \in Sweepers)
      <3>1. Rests(l)
        BY <1>4, <2>3 DEF AfterSweepReceipt
      <3>2. l \in Sweepers => txs[ref[l]].status \in {"reverted", "replaced"}
        BY <2>1, <2>3
      <3> QED BY <1>1, <1>4, <3>1, <3>2, RestKeepsLedger
    <2> QED BY <2>2, <2>3
  <1> QED BY <1>3, <1>4 DEF AwaitTransactionReceipt

\* The row is the first of its transaction, and names what it carried.
LEMMA RecordKeepsLedger ==
  ASSUME LoopsTyped, LedgerInv, NEW l \in Loops, RecordSweep(l)
  PROVE  LedgerInv'
  <1> DEFINE new == [tx |-> ref[l], amount |-> amount[l]]
  <1>1. /\ DOMAIN at = Loops /\ DOMAIN ref = Loops /\ DOMAIN amount = Loops
        /\ Sweepers \subseteq Loops /\ Awaited(l) /\ Rests(l) /\ at[l] = "record"
        /\ UNCHANGED <<txs, calls>>
    BY DEF LoopsTyped, SweepTypeOK, Loops, RecordSweep, Awaited, vars, chain
  <1>2. CASE Abandon(l) /\ UNCHANGED sweepRows
    BY <1>1, <1>2, RestKeepsLedger DEF Abandon
  <1>3. CASE sweepRows' = sweepRows \cup {new} /\ UNCHANGED abandoned
    <2>1. /\ l \in Sweepers /\ txs[ref[l]].status \in {"success", "replaced"}
          /\ calls[ref[l]] = Call(l)
          /\ \A r \in sweepRows : r.tx # ref[l]
          /\ \A k \in Loops : Awaited(k) /\ ref[k] = ref[l] => k = l
      BY <1>1 DEF LedgerInv, AwaitedIsOwn
    <2>2. calls[ref[l]].kind = "sweep" /\ calls[ref[l]].amount = amount[l]
      BY <2>1 DEF Call, KindOf
    <2>3. /\ at'[l] = "idle"
          /\ \A k \in Loops \ {l} : at'[k] = at[k] /\ ref'[k] = ref[k] /\ amount'[k] = amount[k]
      BY <1>1 DEF Rests
    <2>4. \A k \in Loops : Awaited(k)' => k # l /\ Awaited(k) /\ Call(k)' = Call(k)
      BY <2>3 DEF Awaited, Call
    <2>5. new.tx = ref[l] /\ new.amount = amount[l]
      OBVIOUS
    <2>6. AwaitedIsOwn'
      <3> SUFFICES ASSUME NEW k \in Loops, Awaited(k)'
                   PROVE  /\ calls'[ref'[k]] = Call(k)'
                          /\ \A r \in sweepRows' : r.tx # ref'[k]
                          /\ \A j \in Loops : Awaited(j)' /\ ref'[j] = ref'[k] => j = k
                          /\ at'[k] = "record" =>
                               k \in Sweepers /\ txs'[ref'[k]].status \in {"success", "replaced"}
        BY DEF AwaitedIsOwn, Awaited
      <3>1. k # l /\ Awaited(k) /\ Call(k)' = Call(k) /\ ref'[k] = ref[k] /\ at'[k] = at[k]
        BY <2>3, <2>4
      <3>2. ref[k] # ref[l]
        BY <2>1, <3>1
      <3>3. \A r \in sweepRows' : r.tx # ref[k]
        BY <1>3, <2>5, <3>1, <3>2 DEF LedgerInv, AwaitedIsOwn
      <3>4. \A j \in Loops : Awaited(j)' => Awaited(j) /\ ref'[j] = ref[j]
        BY <2>3, <2>4
      <3> QED BY <1>1, <3>1, <3>3, <3>4 DEF LedgerInv, AwaitedIsOwn
    <2>7. RowsOwn'
      BY <1>1, <1>3, <2>1, <2>2, <2>5 DEF LedgerInv, RowsOwn
    <2>8. ASSUME NEW i \in DOMAIN calls, calls[i].kind = "sweep" PROVE Accounted(i)'
      <3>1. Accounted(i)
        BY <2>8 DEF LedgerInv, SweepsAccounted
      <3>2. i = ref[l] => Accounted(i)'
        BY <1>3, <2>5 DEF Accounted
      <3>3. \A k \in Sweepers : Awaited(k) /\ ref[k] = i /\ i # ref[l] => Awaited(k)' /\ ref'[k] = i
        BY <1>1, <2>3 DEF Awaited
      <3> QED BY <1>1, <1>3, <3>1, <3>2, <3>3 DEF Accounted
    <2> QED BY <1>1, <2>6, <2>7, <2>8 DEF LedgerInv, SweepsAccounted
  <1> QED BY <1>2, <1>3 DEF RecordSweep

\* What is sent is new: no row and no loop knows it.
LEMMA SubmitKeepsLedger ==
  ASSUME txs \in Seq(Tx), LoopsTyped, LedgerInv, NEW n, Submit(NoToken, n),
         NEW c, calls' = Carries(c), UNCHANGED sweepRows, abandoned \subseteq abandoned',
         \/ c.kind # "sweep" \/ Len(txs') \in abandoned'
         \/ \E l \in Sweepers : Awaited(l)' /\ ref'[l] = Len(txs'),
         \A l \in Loops :
           Awaited(l)' => \/ at'[l] = at[l] /\ ref'[l] = ref[l] /\ amount'[l] = amount[l]
                          \/ at'[l] = "receipt" /\ ref'[l] = Len(txs') /\ c = Call(l)',
         \A l \in Loops : Awaited(l) => Awaited(l)' /\ ref'[l] = ref[l],
         \A l, k \in Loops : Awaited(l)' /\ Awaited(k)' /\ ref'[l] = Len(txs') /\ ref'[k] = Len(txs') => l = k
  PROVE  LedgerInv'
  <1>1. Len(txs') \notin DOMAIN txs /\ FinalStays
    BY SubmitTokens, SubmitFinal
  <1>2. /\ DOMAIN calls' = DOMAIN calls \cup {Len(txs')}
        /\ \A i \in DOMAIN calls : i \in DOMAIN txs /\ i # Len(txs') /\ calls'[i] = calls[i]
        /\ calls'[Len(txs')] = c
    BY <1>1, CallsAreSent DEF Carries
  <1>3. \A r \in sweepRows : r.tx \in DOMAIN calls
    BY CallsAreSent
  <1>4. ASSUME NEW l \in Loops, Awaited(l)', ref'[l] # Len(txs')
        PROVE  /\ Awaited(l) /\ at'[l] = at[l] /\ ref'[l] = ref[l] /\ Call(l)' = Call(l)
               /\ ref[l] \in DOMAIN calls
    BY <1>4, CallsAreSent DEF Awaited, Call
  <1>5. AwaitedIsOwn'
    <2> SUFFICES ASSUME NEW l \in Loops, Awaited(l)'
                 PROVE  /\ calls'[ref'[l]] = Call(l)'
                        /\ \A r \in sweepRows : r.tx # ref'[l]
                        /\ \A k \in Loops : Awaited(k)' /\ ref'[k] = ref'[l] => k = l
                        /\ at'[l] = "record" =>
                             l \in Sweepers /\ txs'[ref'[l]].status \in {"success", "replaced"}
      BY DEF AwaitedIsOwn, Awaited
    <2>1. CASE ref'[l] = Len(txs')
      <3>1. at'[l] = "receipt" /\ c = Call(l)'
        BY <1>2, <2>1, CallsAreSent DEF Awaited
      <3> QED BY <1>2, <1>3, <2>1, <3>1
    <2>2. CASE ref'[l] # Len(txs')
      <3>1. /\ Awaited(l) /\ at'[l] = at[l] /\ ref'[l] = ref[l] /\ Call(l)' = Call(l)
            /\ ref[l] \in DOMAIN calls
        BY <1>4, <2>2
      <3>2. ASSUME NEW k \in Loops, Awaited(k)', ref'[k] = ref'[l] PROVE k = l
        BY <1>4, <2>2, <3>1, <3>2 DEF LedgerInv, AwaitedIsOwn
      <3>3. at'[l] = "record" => l \in Sweepers /\ txs'[ref[l]].status \in {"success", "replaced"}
        BY <1>1, <1>2, <3>1 DEF LedgerInv, AwaitedIsOwn, FinalStays
      <3> QED BY <1>2, <3>1, <3>2, <3>3 DEF LedgerInv, AwaitedIsOwn
    <2> QED BY <2>1, <2>2
  <1>6. RowsOwn'
    BY <1>1, <1>2, <1>3 DEF LedgerInv, RowsOwn, FinalStays
  <1>7. ASSUME NEW i \in DOMAIN calls', calls'[i].kind = "sweep" PROVE Accounted(i)'
    <2>1. CASE i = Len(txs')
      BY <1>2, <1>7, <2>1 DEF Accounted
    <2>2. CASE i \in DOMAIN calls
      <3>1. Accounted(i) /\ i \in DOMAIN txs
        BY <1>2, <1>7, <2>2 DEF LedgerInv, SweepsAccounted
      <3>2. \A l \in Sweepers : l \in Loops
        BY CallsAreSent
      <3>3. txs[i].status \in {"reverted", "replaced"} => txs'[i].status \in {"reverted", "replaced"}
        BY <1>1, <3>1 DEF FinalStays
      <3> QED BY <3>1, <3>2, <3>3 DEF Accounted
    <2> QED BY <1>2, <2>1, <2>2
  <1> QED BY <1>5, <1>6, <1>7 DEF LedgerInv, SweepsAccounted

LEMMA SendKeepsLedger ==
  ASSUME IInv, LoopsTyped, LedgerInv, NEW l \in Loops, SendTransaction(l)
  PROVE  LedgerInv'
  <1>1. /\ DOMAIN at = Loops /\ DOMAIN ref = Loops /\ DOMAIN amount = Loops
        /\ Sweepers \subseteq Loops /\ ~Awaited(l) /\ UNCHANGED sweepRows /\ txs \in Seq(Tx)
    BY DEF LoopsTyped, SweepTypeOK, Loops, SendTransaction, Awaited, IInv, ChainOK
  <1>2. Len(txs') \notin DOMAIN txs \/ ~Submit(NoToken, ref[l])
    BY <1>1, SubmitTokens
  <1>3. \A k \in Loops : Awaited(k) => ref[k] \in DOMAIN txs
    BY CallsAreSent
  <1>4. CASE Rests(l) /\ UNCHANGED <<chain, calls, abandoned>>
    BY <1>1, <1>4, RestKeepsLedger DEF chain
  <1>5. CASE /\ Submit(NoToken, ref[l]) /\ calls' = Carries(Call(l))
             /\ Moves(l, "receipt") /\ ref' = [ref EXCEPT ![l] = Len(txs')]
             /\ UNCHANGED <<amount, abandoned>>
    <2>1. /\ at'[l] = "receipt" /\ ref'[l] = Len(txs') /\ Call(l)' = Call(l)
          /\ \A k \in Loops \ {l} : at'[k] = at[k] /\ ref'[k] = ref[k] /\ amount'[k] = amount[k]
      BY <1>1, <1>5 DEF Moves, Call
    <2>2. Call(l).kind = "sweep" => l \in Sweepers /\ Awaited(l)'
      BY <2>1 DEF Call, KindOf, Awaited
    <2>3. \A k \in Loops : Awaited(k)' =>
            \/ at'[k] = at[k] /\ ref'[k] = ref[k] /\ amount'[k] = amount[k]
            \/ at'[k] = "receipt" /\ ref'[k] = Len(txs') /\ Call(l) = Call(k)'
      BY <2>1
    <2>4. \A k \in Loops : Awaited(k) => Awaited(k)' /\ ref'[k] = ref[k]
      BY <1>1, <2>1 DEF Awaited
    <2>5. \A k \in Loops : Awaited(k)' /\ ref'[k] = Len(txs') => k = l
      BY <1>2, <1>3, <1>5, <2>1 DEF Awaited
    <2> QED BY <1>1, <1>5, <2>1, <2>2, <2>3, <2>4, <2>5, SubmitKeepsLedger
  <1>6. CASE /\ Submit(NoToken, ref[l]) /\ calls' = Carries(Call(l))
             /\ Rests(l) /\ abandoned' = abandoned \cup {Len(txs')}
    <2>1. /\ at'[l] = "idle"
          /\ \A k \in Loops \ {l} : at'[k] = at[k] /\ ref'[k] = ref[k] /\ amount'[k] = amount[k]
      BY <1>1, <1>6 DEF Rests
    <2>2. \A k \in Loops : Awaited(k)' => at'[k] = at[k] /\ ref'[k] = ref[k] /\ amount'[k] = amount[k]
      BY <2>1 DEF Awaited
    <2>3. \A k \in Loops : Awaited(k) => Awaited(k)' /\ ref'[k] = ref[k]
      BY <1>1, <2>1 DEF Awaited
    <2>4. \A k \in Loops : ~(Awaited(k)' /\ ref'[k] = Len(txs'))
      BY <1>2, <1>3, <1>6, <2>2 DEF Awaited
    <2> QED BY <1>1, <1>6, <2>2, <2>3, <2>4, SubmitKeepsLedger
  <1> QED BY <1>4, <1>5, <1>6 DEF SendTransaction

LEMMA AllocationKeepsLedger ==
  ASSUME IInv, LoopsTyped, LedgerInv, AllocationSends
  PROVE  LedgerInv'
  <1> DEFINE c == [kind |-> "allocation", amount |-> PlatformShare]
  <1>1. PICK n : Submit(NoToken, n)
    BY DEF AllocationSends
  <1>2. /\ txs \in Seq(Tx) /\ c.kind # "sweep" /\ calls' = Carries(c)
        /\ UNCHANGED <<sweepRows, abandoned, at, ref, amount>>
    BY DEF AllocationSends, loops, IInv, ChainOK
  <1>3. Len(txs') \notin DOMAIN txs
    BY <1>1, <1>2, SubmitTokens
  <1>4. \A k \in Loops : ~(Awaited(k)' /\ ref'[k] = Len(txs'))
    BY <1>2, <1>3, CallsAreSent DEF Awaited
  <1>5. \A k \in Loops : (Awaited(k)' <=> Awaited(k)) /\ ref'[k] = ref[k]
    BY <1>2 DEF Awaited
  <1> HIDE DEF c
  <1> QED BY <1>1, <1>2, <1>4, <1>5, SubmitKeepsLedger

LEMMA StepKeepsLedger ==
  BInv /\ LoopsTyped /\ LedgerInv /\ [SweepNext]_<<vars, sweepVars>> => LedgerInv'
  <1> SUFFICES ASSUME BInv, LoopsTyped, LedgerInv, [SweepNext]_<<vars, sweepVars>>
               PROVE  LedgerInv'
    OBVIOUS
  <1>1. IInv /\ OneStands /\ txs \in Seq(Tx)
    BY DEF BInv, IInv, ChainOK
  <1>2. ASSUME FinalStays, UNCHANGED <<calls, loops, sweepRows, abandoned>> PROVE LedgerInv'
    <2>1. \A l \in Sweepers : Awaited(l)' <=> Awaited(l)
      BY <1>2 DEF loops, Awaited
    <2> QED BY <1>2, <2>1, LedgerCarries DEF loops
  <1>3. CASE ServiceStep /\ UNCHANGED sweepVars
    BY <1>1, <1>2, <1>3, ServiceFinal DEF sweepVars
  <1>4. ASSUME NEW i \in DOMAIN txs, MineTransaction(i) PROVE LedgerInv'
    BY <1>1, <1>2, <1>4, MineFinal DEF MineTransaction
  <1>5. ASSUME NEW l \in Loops, LoopStep(l) PROVE LedgerInv'
    <2>1. CASE LoopDies(l)
      <3>1. /\ UNCHANGED <<txs, calls, sweepRows>> /\ Rests(l) /\ abandoned \subseteq abandoned'
            /\ Awaited(l) => ref[l] \in abandoned'
        BY <2>1 DEF LoopDies, Abandon, Awaited, chain
      <3> QED BY <3>1, RestKeepsLedger
    <2> QED BY <1>1, <1>5, <2>1, ReadsKeepLedger, SendKeepsLedger, AwaitKeepsLedger,
               RecordKeepsLedger DEF LoopStep
  <1>6. CASE AllocationSends
    BY <1>1, <1>6, AllocationKeepsLedger
  <1>7. CASE Deposit \/ UNCHANGED <<vars, sweepVars>>
    <2>1. UNCHANGED <<txs, calls, loops, sweepRows, abandoned>>
      BY <1>7 DEF Deposit, vars, chain, sweepVars
    <2> QED BY <1>2, <2>1 DEF FinalStays
  <1> QED BY <1>3, <1>4, <1>5, <1>6, <1>7 DEF SweepNext

LEMMA LedgerInvHolds == SweepSpec => [](LoopsTyped /\ LedgerInv)
  <1>1. SweepInit => LedgerInv
    <2> SUFFICES ASSUME SweepInit PROVE LedgerInv
      OBVIOUS
    <2>1. DOMAIN calls = {} /\ sweepRows = {} /\ \A l \in Loops : at[l] = "idle"
      BY DEF SweepInit
    <2> QED BY <2>1 DEF LedgerInv, AwaitedIsOwn, RowsOwn, SweepsAccounted, Awaited
  <1> QED BY <1>1, StepKeepsLedger, BInvHolds, LoopsTypedHolds, PTL DEF SweepSpec

\* A row of the ledger is of a sweep that succeeded, once and in its amount, unless
\* another transaction took its nonce, for any number of loops and transactions.
THEOREM PhantomRowOnlyIfHolds == SweepSpec => []PhantomRowOnlyIf
  <1>1. LoopsTyped /\ LedgerInv => PhantomRowOnlyIf
    BY CallsAreSent DEF LedgerInv, RowsOwn, PhantomRowOnlyIf, Swept
  <1> QED BY <1>1, LedgerInvHolds, PTL

\* A sweep that moved and has no row has a loop about to write it, or a sender that
\* left, for any number of loops and transactions and whatever fails.
THEOREM UnbookedSweepOnlyIfHolds == SweepSpec => []UnbookedSweepOnlyIf
  <1>1. LedgerInv => UnbookedSweepOnlyIf
    BY DEF LedgerInv, SweepsAccounted, Accounted, Awaited, UnbookedSweepOnlyIf, Swept
  <1> QED BY <1>1, LedgerInvHolds, PTL
-----------------------------------------------------------------------------
(* The top-ups of the issuer Safe.                                           *)

\* A top-up is on its way to its transaction, or its transaction to be mined.
Heading(l) ==
  \/ at[l] \in {"treasury", "prepare", "send"}
  \/ at[l] = "receipt" /\ txs[ref[l]].status = "pending"

\* A top-up that may still be mined is the one its loop waits for, unless its
\* sender has left.
TopUpsAwaited ==
  \A i \in DOMAIN calls :
    calls[i].kind = "topUp" /\ txs[i].status = "pending" =>
      i \in abandoned \/ \E l \in ToppingUp : at[l] = "receipt" /\ ref[l] = i

NoneLeft ==
  /\ InitialUsdc["issuer"] <= ISSUER_SAFE_TOPUP_AMOUNT
  /\ \A i \in abandoned : calls[i].kind # "topUp"

\* The only loop keeps the balance, with what it is about to add, to the target.
TargetKept ==
  \A l \in ToppingUp :
    ToppingUp = {l} /\ NoneLeft =>
      /\ usdc["issuer"] <= ISSUER_SAFE_TOPUP_AMOUNT + Inflow
      /\ Heading(l) => usdc["issuer"] + amount[l] <= ISSUER_SAFE_TOPUP_AMOUNT + Inflow

TopUpInv == TopUpsAwaited /\ TargetKept

LEMMA ReceivedTyped ==
  ASSUME IInv, LoopsTyped
  PROVE  /\ IsFiniteSet(DOMAIN txs) /\ DOMAIN txs = 1 .. Len(txs) /\ Len(txs) \in Nat
         /\ \A i \in DOMAIN txs : Received(i) \in Nat
  <1>1. txs \in Seq(Tx)
    BY DEF IInv, ChainOK
  <1>2. DOMAIN txs = 1 .. Len(txs) /\ Len(txs) \in Nat /\ \A i \in DOMAIN txs : txs[i] \in Tx
    BY <1>1, LenProperties, ElementOfSeq
  <1>3. IsFiniteSet(DOMAIN txs)
    BY <1>2, FS_Interval
  <1>4. ASSUME NEW i \in DOMAIN txs PROVE Received(i) \in Nat
    <2>1. CASE txs[i].token \in Tokens
      BY <2>1, SweepAssumption DEF Received
    <2>2. CASE txs[i].token \notin Tokens
      <3>1. txs[i].token = NoToken
        BY <1>2, <2>2 DEF Tx
      <3>2. calls[i] \in [kind : Kind, amount : Nat]
        BY <3>1 DEF LoopsTyped, SweepTypeOK
      <3> QED BY <2>2, <3>2 DEF Received
    <2> QED BY <2>1, <2>2
  <1> QED BY <1>2, <1>3, <1>4

LEMMA InflowIsSum ==
  ASSUME IInv, LoopsTyped
  PROVE  /\ Inflow = SumFunctionOnSet([i \in DOMAIN txs |-> Received(i)], DOMAIN txs)
         /\ Inflow \in Nat
  <1> DEFINE f == [i \in DOMAIN txs |-> Received(i)]
  <1>1. Inflow = SumFunctionOnSet(f, DOMAIN txs)
    BY SumOfFunction DEF Inflow
  <1>2. \A i \in DOMAIN txs : f[i] \in Nat
    BY ReceivedTyped
  <1>3. IsFiniteSet(DOMAIN txs)
    BY ReceivedTyped
  <1> HIDE DEF f
  <1>4. SumFunctionOnSet(f, DOMAIN txs) \in Nat
    BY <1>2, <1>3, SumGrows
  <1> QED BY <1>1, <1>4 DEF f

\* What a step leaves of the payments that came in.
LEMMA InflowCarries ==
  ASSUME DOMAIN txs' = DOMAIN txs, \A i \in DOMAIN txs : Received(i)' = Received(i)
  PROVE  Inflow' = Inflow
  <1>1. [i \in DOMAIN txs' |-> Received(i)'] = [i \in DOMAIN txs |-> Received(i)]
    OBVIOUS
  <1> QED BY <1>1 DEF Inflow

\* A transaction that is sent brings nothing in yet, and what it replaces never did.
LEMMA SubmitBringsNothing ==
  ASSUME IInv, LoopsTyped, NEW token, NEW n, Submit(token, n),
         UNCHANGED executes, \A i \in DOMAIN calls : calls'[i] = calls[i]
  PROVE  Inflow' = Inflow
  <1> PICK m : m = Len(txs')
    OBVIOUS
  <1> DEFINE old == [i \in DOMAIN txs |->
                       IF i \in Standing(n) THEN [txs[i] EXCEPT !.status = "replaced"] ELSE txs[i]]
             new == [token |-> token, nonce |-> n, status |-> "pending"]
             f == [i \in DOMAIN txs |-> Received(i)]
             g == [i \in DOMAIN txs' |-> Received(i)']
  <1>1. txs \in Seq(Tx)
    BY DEF IInv, ChainOK
  <1>2. DOMAIN txs = 1 .. Len(txs) /\ Len(txs) \in Nat /\ \A i \in DOMAIN txs : txs[i] \in Tx
    BY <1>1, LenProperties, ElementOfSeq
  <1>3. DOMAIN txs' = DOMAIN txs \cup {m} /\ m \notin DOMAIN txs
    BY <1>1, SubmitTokens
  <1>4. txs' = Append(old, new)
    BY DEF Submit
  <1>5. /\ \A i \in DOMAIN txs : txs'[i] = old[i]
        /\ txs'[m] = new
    BY <1>2, <1>4
  <1>6. \A i \in DOMAIN txs : /\ txs'[i].token = txs[i].token
                              /\ txs'[i].status = "success" <=> txs[i].status = "success"
    <2> SUFFICES ASSUME NEW i \in DOMAIN txs
                 PROVE  /\ txs'[i].token = txs[i].token
                        /\ txs'[i].status = "success" <=> txs[i].status = "success"
      OBVIOUS
    <2>1. CASE i \in Standing(n)
      <3>1. txs[i].status = "pending"
        BY <2>1 DEF Submit
      <3> QED BY <1>2, <1>5, <2>1, <3>1 DEF Tx
    <2>2. CASE i \notin Standing(n)
      BY <1>5, <2>2
    <2> QED BY <2>1, <2>2
  <1>7. ASSUME NEW i \in DOMAIN txs PROVE Received(i)' = Received(i)
    <2>1. txs[i].token \notin Tokens => calls'[i] = calls[i]
      BY <1>2 DEF LoopsTyped, SweepTypeOK, Tx
    <2> QED BY <1>6, <2>1 DEF Received
  <1>8. Received(m)' = 0
    BY <1>5 DEF Received
  <1>9. IsFiniteSet(DOMAIN txs) /\ IsFiniteSet(DOMAIN txs')
    BY ReceivedTyped, <1>3, FS_AddElement
  <1>10. \A i \in DOMAIN txs \cup {m} : g[i] \in Int
    BY <1>3, <1>7, <1>8, ReceivedTyped
  <1>11. g[m] = 0 /\ \A i \in DOMAIN txs : g[i] = f[i]
    BY <1>3, <1>7, <1>8
  <1>12. Inflow = SumFunctionOnSet(f, DOMAIN txs) /\ Inflow \in Nat
    BY InflowIsSum
  <1>13. Inflow' = SumFunctionOnSet(g, DOMAIN txs')
    BY SumOfFunction DEF Inflow
  <1> HIDE DEF f, g
  <1>14. SumFunctionOnSet(g, DOMAIN txs) = SumFunctionOnSet(f, DOMAIN txs)
    BY <1>9, <1>11, SumSame
  <1>15. SumFunctionOnSet(g, DOMAIN txs \cup {m}) = SumFunctionOnSet(g, DOMAIN txs) + g[m]
    BY <1>3, <1>9, <1>10, SumAdds
  <1> QED BY <1>3, <1>11, <1>12, <1>13, <1>14, <1>15

\* A transaction that is mined brings in what it carries, if anything.
LEMMA MineBrings ==
  ASSUME IInv, LoopsTyped, NEW i \in DOMAIN txs, Mine(i),
         UNCHANGED <<executes, calls>>
  PROVE  Inflow' = Inflow + Received(i)'
  <1> DEFINE f == [k \in DOMAIN txs |-> Received(k)]
             g == [k \in DOMAIN txs |-> Received(k)']
  <1>1. txs \in Seq(Tx) /\ \A k \in DOMAIN txs : txs[k] \in Tx
    BY LenProperties, ElementOfSeq DEF IInv, ChainOK
  <1>2. PICK s \in {"success", "reverted"} : txs' = [txs EXCEPT ![i].status = s]
    BY SettlementAssumption DEF Mine
  <1>3. DOMAIN txs' = DOMAIN txs /\ \A k \in DOMAIN txs : k # i => txs'[k] = txs[k]
    BY <1>2
  <1>4. \A k \in DOMAIN txs : k # i => Received(k)' = Received(k)
    BY <1>3 DEF Received
  <1>5. Received(i) = 0
    BY DEF Mine, Received
  <1>6. IsFiniteSet(DOMAIN txs) /\ \A k \in DOMAIN txs : f[k] \in Int
    BY ReceivedTyped
  <1>7. \A k \in DOMAIN txs : g[k] \in Int
    <2>1. Received(i)' \in Nat
      <3>1. txs'[i].token = txs[i].token
        BY <1>1, <1>2 DEF Tx
      <3>2. txs[i].token \notin Tokens => calls[i] \in [kind : Kind, amount : Nat]
        BY <1>1 DEF LoopsTyped, SweepTypeOK, Tx
      <3> QED BY <3>1, <3>2, SweepAssumption DEF Received
    <2> QED BY <1>4, <2>1, ReceivedTyped
  <1>8. \A k \in DOMAIN txs : k # i => f[k] = g[k]
    BY <1>4
  <1>9. f[i] = 0 /\ g[i] = Received(i)'
    BY <1>5
  <1>10. Inflow = SumFunctionOnSet(f, DOMAIN txs) /\ Inflow \in Nat
    BY InflowIsSum
  <1>11. Inflow' = SumFunctionOnSet(g, DOMAIN txs)
    BY <1>3, SumOfFunction DEF Inflow
  <1>12. g[i] \in Int
    BY <1>7
  <1> HIDE DEF f, g
  <1>13. SumFunctionOnSet(g, DOMAIN txs) = SumFunctionOnSet(f, DOMAIN txs) + (g[i] - f[i])
    BY <1>6, <1>7, <1>8, SumChanges
  <1> QED BY <1>9, <1>10, <1>11, <1>12, <1>13

\* A step in which no loop takes on more than it had, and none leaves a top-up
\* that may still be mined, unless it gives it up.
LEMMA TopUpsCarry ==
  ASSUME LoopsTyped, TopUpInv, FinalStays, Inflow' = Inflow, UNCHANGED calls,
         usdc'["issuer"] = usdc["issuer"], abandoned \subseteq abandoned',
         \A l \in ToppingUp :
           /\ at'[l] \in {"treasury", "prepare", "send"} =>
                at[l] \in {"treasury", "prepare", "send"} /\ amount'[l] = amount[l]
           /\ at'[l] = "receipt" => at[l] = "receipt" /\ ref'[l] = ref[l] /\ amount'[l] = amount[l],
         \A l \in ToppingUp : at[l] = "receipt" =>
           \/ at'[l] = "receipt" /\ ref'[l] = ref[l]
           \/ ref[l] \in abandoned' \/ txs[ref[l]].status # "pending"
  PROVE  TopUpInv'
  <1>1. /\ \A i \in DOMAIN calls : i \in DOMAIN txs
        /\ \A l \in ToppingUp : at[l] = "receipt" => ref[l] \in DOMAIN txs
    BY CallsAreSent DEF Awaited, Loops
  <1>2. TopUpsAwaited'
    BY <1>1 DEF TopUpInv, TopUpsAwaited, FinalStays
  <1>3. ASSUME NEW l \in ToppingUp, ToppingUp = {l}, NoneLeft'
        PROVE  /\ usdc'["issuer"] <= ISSUER_SAFE_TOPUP_AMOUNT + Inflow'
               /\ Heading(l)' => usdc'["issuer"] + amount'[l] <= ISSUER_SAFE_TOPUP_AMOUNT + Inflow'
    <2>1. NoneLeft
      BY <1>3 DEF NoneLeft
    <2>2. Heading(l)' => Heading(l) /\ amount'[l] = amount[l]
      BY <1>1 DEF Heading, FinalStays
    <2> QED BY <1>3, <2>1, <2>2 DEF TopUpInv, TargetKept
  <1>4. TargetKept'
    BY <1>3 DEF TargetKept
  <1> QED BY <1>2, <1>4 DEF TopUpInv

\* The top-up that is read reaches the target, no more.
LEMMA ReadKeepsTopUps ==
  ASSUME IInv, LoopsTyped, TopUpInv, NEW l \in Loops, ReadIssuerBalance(l)
  PROVE  TopUpInv'
  <1>1. /\ DOMAIN at = Loops /\ DOMAIN amount = Loops /\ l \in ToppingUp
        /\ UNCHANGED <<txs, executes, calls, ref, usdc, abandoned>>
        /\ at' = [at EXCEPT ![l] = "treasury"]
        /\ amount' = [amount EXCEPT ![l] = ISSUER_SAFE_TOPUP_AMOUNT - usdc["issuer"]]
        /\ at[l] = "idle"
    BY DEF LoopsTyped, SweepTypeOK, ReadIssuerBalance, Moves, TopUpAmount, vars, chain, money
  <1>2. Inflow' = Inflow
    BY <1>1, InflowCarries DEF Received
  <1>3. TopUpsAwaited'
    BY <1>1 DEF TopUpInv, TopUpsAwaited
  <1>4. ASSUME ToppingUp = {l}, NoneLeft'
        PROVE  /\ usdc["issuer"] <= ISSUER_SAFE_TOPUP_AMOUNT + Inflow
               /\ usdc["issuer"] + amount'[l] <= ISSUER_SAFE_TOPUP_AMOUNT + Inflow
    <2>1. NoneLeft
      BY <1>1, <1>4 DEF NoneLeft
    <2>2. usdc["issuer"] <= ISSUER_SAFE_TOPUP_AMOUNT + Inflow
      BY <1>1, <1>4, <2>1 DEF TopUpInv, TargetKept
    <2>3. usdc["issuer"] \in Nat /\ Inflow \in Nat
      BY InflowIsSum DEF LoopsTyped, SweepTypeOK, Safes
    <2>4. amount'[l] = ISSUER_SAFE_TOPUP_AMOUNT - usdc["issuer"]
      BY <1>1
    <2> QED BY <2>2, <2>3, <2>4, SweepAssumption
  <1>5. TargetKept'
    BY <1>1, <1>2, <1>4 DEF TargetKept
  <1> QED BY <1>3, <1>5 DEF TopUpInv

\* What is sent is what was to be added.
LEMMA SendKeepsTopUps ==
  ASSUME IInv, LoopsTyped, TopUpInv, NEW l \in Loops, SendTransaction(l)
  PROVE  TopUpInv'
  <1>1. /\ DOMAIN at = Loops /\ DOMAIN ref = Loops /\ DOMAIN amount = Loops
        /\ ToppingUp \subseteq Loops /\ at[l] = "send" /\ UNCHANGED <<usdc, executes>>
        /\ txs \in Seq(Tx)
    BY DEF LoopsTyped, SweepTypeOK, Loops, SendTransaction, money, IInv, ChainOK
  <1>2. CASE Rests(l) /\ UNCHANGED <<chain, calls, abandoned>>
    <2>1. UNCHANGED <<txs, calls, abandoned>>
      BY <1>2 DEF chain
    <2>2. Inflow' = Inflow
      BY <1>1, <2>1, InflowCarries DEF Received
    <2>3. FinalStays
      BY <2>1 DEF FinalStays
    <2>4. \A k \in Loops : /\ k # l => at'[k] = at[k] /\ ref'[k] = ref[k] /\ amount'[k] = amount[k]
                           /\ at'[l] = "idle"
      BY <1>1, <1>2 DEF Rests
    <2> QED BY <1>1, <2>1, <2>2, <2>3, <2>4, TopUpsCarry
  <1>3. CASE Submit(NoToken, ref[l]) /\ calls' = Carries(Call(l))
    <2> PICK m : m = Len(txs')
      OBVIOUS
    <2>1. DOMAIN txs' = DOMAIN txs \cup {m} /\ m \notin DOMAIN txs /\ FinalStays
      BY <1>1, <1>3, SubmitTokens, SubmitFinal
    <2>2. /\ DOMAIN calls' = DOMAIN calls \cup {m} /\ m \notin DOMAIN calls
          /\ \A i \in DOMAIN calls : calls'[i] = calls[i] /\ i \in DOMAIN txs
          /\ calls'[m] = Call(l)
      BY <1>3, <2>1, CallsAreSent DEF Carries
    <2>3. Inflow' = Inflow
      BY <1>1, <1>3, <2>2, SubmitBringsNothing
    <2>4. \/ at' = [at EXCEPT ![l] = "receipt"] /\ ref' = [ref EXCEPT ![l] = m] /\ UNCHANGED <<amount, abandoned>>
          \/ Rests(l) /\ abandoned' = abandoned \cup {m}
      <3>1. calls' # calls
        BY <2>2
      <3> QED BY <3>1 DEF SendTransaction, Moves
    <2>5. /\ \A k \in Loops : k # l => at'[k] = at[k] /\ ref'[k] = ref[k] /\ amount'[k] = amount[k]
          /\ abandoned \subseteq abandoned'
          /\ \/ at'[l] = "receipt" /\ ref'[l] = m /\ amount'[l] = amount[l]
             \/ at'[l] = "idle" /\ m \in abandoned'
      BY <1>1, <2>4 DEF Rests
    <2>6. m \in abandoned' \/ (at'[l] = "receipt" /\ ref'[l] = m)
      BY <2>5
    <2>7. \A k \in ToppingUp : at[k] = "receipt" => k # l /\ ref[k] \in DOMAIN calls
      BY <1>1, CallsAreSent DEF Awaited
    <2>8. TopUpsAwaited'
      <3> SUFFICES ASSUME NEW i \in DOMAIN calls', calls'[i].kind = "topUp", txs'[i].status = "pending"
                   PROVE  i \in abandoned' \/ \E k \in ToppingUp : at'[k] = "receipt" /\ ref'[k] = i
        BY DEF TopUpsAwaited
      <3>1. CASE i = m
        <4>1. l \in ToppingUp
          BY <2>2, <3>1 DEF Call, KindOf, Loops
        <4> QED BY <2>6, <3>1, <4>1
      <3>2. CASE i \in DOMAIN calls
        <4>1. calls[i].kind = "topUp" /\ txs[i].status = "pending"
          BY <2>1, <2>2, <3>2 DEF FinalStays
        <4>2. i \in abandoned \/ \E k \in ToppingUp : at[k] = "receipt" /\ ref[k] = i
          BY <3>2, <4>1 DEF TopUpInv, TopUpsAwaited
        <4> QED BY <1>1, <2>5, <2>7, <4>2
      <3> QED BY <2>2, <3>1, <3>2
    <2>9. ASSUME NEW k \in ToppingUp, ToppingUp = {k}, NoneLeft'
          PROVE  /\ usdc'["issuer"] <= ISSUER_SAFE_TOPUP_AMOUNT + Inflow'
                 /\ Heading(k)' => usdc'["issuer"] + amount'[k] <= ISSUER_SAFE_TOPUP_AMOUNT + Inflow'
      <3>1. \A i \in abandoned : i \in DOMAIN calls
        BY DEF LoopsTyped, SweepTypeOK
      <3>2. NoneLeft
        BY <2>2, <2>5, <2>9, <3>1 DEF NoneLeft
      <3>3. Heading(k)' => Heading(k) /\ amount'[k] = amount[k]
        <4>1. CASE k = l
          BY <1>1, <2>5, <4>1 DEF Heading
        <4>2. CASE k # l
          <5>1. at'[k] = at[k] /\ ref'[k] = ref[k] /\ amount'[k] = amount[k]
            BY <1>1, <2>5, <4>2
          <5>2. at[k] = "receipt" => ref[k] \in DOMAIN txs
            BY <2>2, <2>7
          <5> QED BY <2>1, <5>1, <5>2 DEF Heading, FinalStays
        <4> QED BY <4>1, <4>2
      <3>4. usdc'["issuer"] = usdc["issuer"]
        BY <1>1
      <3> QED BY <2>3, <2>9, <3>2, <3>3, <3>4 DEF TopUpInv, TargetKept
    <2>10. TargetKept'
      BY <2>9 DEF TargetKept
    <2> QED BY <2>8, <2>10 DEF TopUpInv
  <1> QED BY <1>2, <1>3 DEF SendTransaction

\* An allocation is no top-up, and brings nothing in before it is mined.
LEMMA AllocationKeepsTopUps ==
  ASSUME IInv, LoopsTyped, TopUpInv, AllocationSends
  PROVE  TopUpInv'
  <1> DEFINE c == [kind |-> "allocation", amount |-> PlatformShare]
  <1> PICK m : m = Len(txs')
    OBVIOUS
  <1>1. PICK n : Submit(NoToken, n)
    BY DEF AllocationSends
  <1>2. /\ txs \in Seq(Tx) /\ calls' = Carries(c)
        /\ UNCHANGED <<usdc, executes, at, ref, amount, abandoned>>
    BY DEF AllocationSends, money, loops, IInv, ChainOK
  <1>3. DOMAIN txs' = DOMAIN txs \cup {m} /\ m \notin DOMAIN txs /\ FinalStays
    BY <1>1, <1>2, SubmitTokens, SubmitFinal
  <1>4. /\ DOMAIN calls' = DOMAIN calls \cup {m}
        /\ \A i \in DOMAIN calls : calls'[i] = calls[i] /\ i \in DOMAIN txs
        /\ calls'[m].kind # "topUp"
    BY <1>2, <1>3, CallsAreSent DEF Carries
  <1>5. Inflow' = Inflow
    BY <1>1, <1>2, <1>4, SubmitBringsNothing
  <1>6. TopUpsAwaited'
    BY <1>2, <1>3, <1>4 DEF TopUpInv, TopUpsAwaited, FinalStays
  <1>7. \A i \in abandoned : i \in DOMAIN calls
    BY DEF LoopsTyped, SweepTypeOK
  <1>8. NoneLeft' => NoneLeft
    BY <1>2, <1>4, <1>7 DEF NoneLeft
  <1>9. \A l \in ToppingUp : Heading(l)' => Heading(l)
    <2>1. \A l \in ToppingUp : at[l] = "receipt" => ref[l] \in DOMAIN txs
      BY CallsAreSent DEF Awaited, Loops
    <2> QED BY <1>2, <1>3, <2>1 DEF Heading, FinalStays
  <1>10. TargetKept'
    BY <1>2, <1>5, <1>8, <1>9 DEF TopUpInv, TargetKept
  <1> QED BY <1>6, <1>10 DEF TopUpInv

\* What is mined adds to the issuer Safe what came in, or a top-up its loop
\* counted on.
LEMMA MineKeepsTopUps ==
  ASSUME IInv, LoopsTyped, LedgerInv, TopUpInv, NEW i \in DOMAIN txs, MineTransaction(i)
  PROVE  TopUpInv'
  <1>1. /\ UNCHANGED <<executes, calls, at, amount, ref, abandoned>>
        /\ txs \in Seq(Tx) /\ txs[i].status = "pending" /\ Mine(i)
    BY DEF MineTransaction, Mine, loops, IInv, ChainOK
  <1>2. PICK s \in {"success", "reverted"} : txs' = [txs EXCEPT ![i].status = s]
    BY <1>1, SettlementAssumption DEF Mine
  <1>3. /\ DOMAIN txs' = DOMAIN txs /\ \A k \in DOMAIN txs : k # i => txs'[k] = txs[k]
        /\ txs'[i].status = s /\ txs'[i].token = txs[i].token
    <2>1. txs[i] \in Tx
      BY <1>1, LenProperties, ElementOfSeq
    <2> QED BY <1>2, <2>1 DEF Tx
  <1>4. FinalStays
    BY <1>1, MineFinal
  <1>5. Inflow' = Inflow + Received(i)' /\ Inflow \in Nat
    BY <1>1, MineBrings, InflowIsSum
  <1>6. /\ \A k \in DOMAIN calls : k \in DOMAIN txs
        /\ \A l \in ToppingUp : at[l] = "receipt" => ref[l] \in DOMAIN txs
    BY CallsAreSent DEF Awaited, Loops
  <1>7. TopUpsAwaited'
    BY <1>1, <1>4, <1>6 DEF TopUpInv, TopUpsAwaited, FinalStays
  <1>8. \A l \in ToppingUp : Heading(l)' => Heading(l)
    BY <1>1, <1>4, <1>6 DEF Heading, FinalStays
  <1>9. ASSUME NEW l \in ToppingUp, ToppingUp = {l}, NoneLeft'
        PROVE  /\ usdc'["issuer"] <= ISSUER_SAFE_TOPUP_AMOUNT + Inflow'
               /\ Heading(l)' => usdc'["issuer"] + amount[l] <= ISSUER_SAFE_TOPUP_AMOUNT + Inflow'
    <2> DEFINE target == ISSUER_SAFE_TOPUP_AMOUNT
               before == usdc["issuer"]
               after == usdc'["issuer"]
    <2>1. NoneLeft
      BY <1>1, <1>9 DEF NoneLeft
    <2>2. before <= target + Inflow /\ (Heading(l) => before + amount[l] <= target + Inflow)
      BY <1>9, <2>1 DEF TopUpInv, TargetKept
    <2>3. before \in Nat /\ amount[l] \in Nat /\ target \in Nat
      BY SweepAssumption DEF LoopsTyped, SweepTypeOK, Safes, Loops
    <2>4. CASE after = before + Received(i)' /\ Received(i)' \in Nat
      <3> PICK r \in Nat : r = Received(i)'
        BY <2>4
      <3>1. after = before + r /\ Inflow' = Inflow + r
        BY <1>5, <2>4
      <3> QED BY <1>5, <1>8, <2>2, <2>3, <3>1
    <2>5. CASE txs[i].token \in Tokens
      <3>1. CASE s = "success"
        <4>1. Received(i)' = Price[txs[i].token]
          BY <1>3, <2>5, <3>1 DEF Received
        <4>2. usdc' = Moved("m2", "issuer", Price[txs[i].token])
          BY <1>3, <2>5, <3>1, SettlementAssumption DEF MineTransaction
        <4>3. Price[txs[i].token] \in Nat
          BY <2>5, SweepAssumption
        <4>4. after = before + Price[txs[i].token]
          BY <4>2 DEF Moved, LoopsTyped, SweepTypeOK, Safes
        <4> QED BY <2>4, <4>1, <4>3, <4>4
      <3>2. CASE s = "reverted"
        <4>1. Received(i)' = 0
          BY <1>3, <3>2 DEF Received
        <4>2. UNCHANGED usdc
          BY <1>3, <2>5, <3>2, SettlementAssumption DEF MineTransaction
        <4> QED BY <2>3, <2>4, <4>1, <4>2
      <3> QED BY <3>1, <3>2
    <2>6. CASE txs[i].token = NoToken
      <3> DEFINE call == calls[i]
      <3>1. i \in DOMAIN calls /\ call \in [kind : Kind, amount : Nat]
        BY <2>6 DEF LoopsTyped, SweepTypeOK
      <3>2. txs'[i].token \notin Tokens
        BY <1>3, <2>6, SettlementAssumption
      <3>3. CASE s = "success" /\ executes
        <4>1. usdc' = Moved(From(call.kind), To(call.kind), call.amount)
          BY <1>3, <2>6, <3>3, SettlementAssumption DEF MineTransaction
        <4>2. CASE call.kind = "sweep"
          <5>1. after = before
            BY <4>1, <4>2 DEF Moved, From, To, LoopsTyped, SweepTypeOK, Safes
          <5>2. Received(i)' = 0
            BY <1>1, <3>2, <4>2 DEF Received
          <5> QED BY <2>3, <2>4, <5>1, <5>2
        <4>3. CASE call.kind = "allocation"
          <5>1. after = before + call.amount
            BY <4>1, <4>3 DEF Moved, From, To, LoopsTyped, SweepTypeOK, Safes
          <5>2. Received(i)' = call.amount
            BY <1>1, <1>3, <3>2, <3>3, <4>3 DEF Received
          <5> QED BY <2>4, <3>1, <5>1, <5>2
        <4>4. CASE call.kind = "topUp"
          <5>1. after = before + call.amount
            BY <4>1, <4>4 DEF Moved, From, To, LoopsTyped, SweepTypeOK, Safes
          <5>2. Inflow' = Inflow
            <6>1. Received(i)' = 0
              BY <1>1, <3>2, <4>4 DEF Received
            <6> QED BY <1>5, <6>1
          <5>3. i \notin abandoned
            BY <2>1, <4>4 DEF NoneLeft
          <5>4. at[l] = "receipt" /\ ref[l] = i
            BY <1>1, <1>9, <3>1, <4>4, <5>3 DEF TopUpInv, TopUpsAwaited
          <5>5. call.amount = amount[l] /\ Heading(l)
            <6>1. calls[ref[l]] = Call(l)
              BY <5>4 DEF LedgerInv, AwaitedIsOwn, Awaited, Loops
            <6> QED BY <1>1, <5>4, <6>1 DEF Call, Heading
          <5>6. ~Heading(l)'
            BY <1>1, <1>3, <3>3, <5>4 DEF Heading
          <5> QED BY <2>2, <5>1, <5>2, <5>5, <5>6
        <4> QED BY <3>1, <4>2, <4>3, <4>4 DEF Kind
      <3>4. CASE ~(s = "success" /\ executes)
        <4>1. Received(i)' = 0
          BY <1>1, <1>3, <3>2, <3>4 DEF Received
        <4>2. UNCHANGED usdc
          BY <1>3, <2>6, <3>4, SettlementAssumption DEF MineTransaction
        <4> QED BY <2>3, <2>4, <4>1, <4>2
      <3> QED BY <3>3, <3>4
    <2>7. txs[i] \in Tx
      BY <1>1, LenProperties, ElementOfSeq
    <2> QED BY <2>5, <2>6, <2>7 DEF Tx
  <1>10. TargetKept'
    BY <1>1, <1>9 DEF TargetKept
  <1> QED BY <1>7, <1>10 DEF TopUpInv

\* A settlement worker sends no top-up.
LEMMA ServiceKeepsTopUps ==
  ASSUME IInv, LoopsTyped, TopUpInv, ServiceStep, UNCHANGED sweepVars
  PROVE  TopUpInv'
  <1>1. UNCHANGED <<usdc, executes, calls, at, amount, ref, abandoned>> /\ FinalStays
    BY ServiceFinal DEF sweepVars, money, loops
  <1>2. Inflow' = Inflow
    <2>1. ASSUME UNCHANGED chain PROVE Inflow' = Inflow
      BY <1>1, <2>1, InflowCarries DEF chain, Received
    <2>2. ASSUME NEW w \in Workers, Send(w) PROVE Inflow' = Inflow
      BY <1>1, <2>1, <2>2, SubmitBringsNothing DEF Send
    <2>3. ASSUME NEW w \in Workers, Process(w), ~Send(w) PROVE UNCHANGED chain
      BY <2>3 DEF Process, Check, ReadNonce, AwaitReceipt, MarkTransactionSettled, Catch
    <2>4. ASSUME NEW w \in Workers, Take(w) \/ Crash(w) \/ LockLost(w) PROVE UNCHANGED chain
      BY <2>4 DEF Take, Crash, LockLost
    <2>5. ASSUME NEW t \in Tokens, Authorize(t) PROVE UNCHANGED chain
      BY <2>5 DEF Authorize
    <2>6. ASSUME NEW job \in jobIds, Forget(job) PROVE UNCHANGED chain
      BY <2>6 DEF Forget
    <2> QED BY <2>1, <2>2, <2>3, <2>4, <2>5, <2>6 DEF ServiceStep
  <1> QED BY <1>1, <1>2, TopUpsCarry

\* The other awaits of a loop: it moves on, or leaves.
LEMMA LoopKeepsTopUps ==
  ASSUME IInv, OneStands, LoopsTyped, TopUpInv, NEW l \in Loops, LoopStep(l),
         ~ReadIssuerBalance(l), ~SendTransaction(l)
  PROVE  TopUpInv'
  <1>1. /\ DOMAIN at = Loops /\ DOMAIN ref = Loops /\ DOMAIN amount = Loops
        /\ ToppingUp \subseteq Loops /\ ToppingUp \cap Sweepers = {}
    BY SweepAssumption DEF LoopsTyped, SweepTypeOK, Loops
  <1>2. UNCHANGED <<txs, usdc, executes, calls>> /\ abandoned \subseteq abandoned'
    BY DEF LoopStep, ReadBalance, ReadTreasuryBalance, PrepareTransaction,
       AwaitTransactionReceipt, RecordSweep, LoopDies, Abandon, vars, chain, money
  <1>3. Inflow' = Inflow /\ FinalStays
    BY <1>2, InflowCarries DEF Received, FinalStays
  <1>4. CASE Rests(l)
    <2>1. /\ at'[l] = "idle"
          /\ \A k \in Loops \ {l} : at'[k] = at[k] /\ ref'[k] = ref[k] /\ amount'[k] = amount[k]
      BY <1>1, <1>4 DEF Rests
    <2>2. at[l] = "receipt" => ref[l] \in abandoned' \/ txs[ref[l]].status # "pending"
      <3>1. CASE AwaitTransactionReceipt(l)
        <4>1. ASSUME NEW i \in ReceiptsOf(l) PROVE txs[ref[l]].status # "pending"
          BY <3>1, <4>1, CallsAreSent
             DEF ReceiptsOf, Mined, OneStands, AwaitTransactionReceipt, Awaited
        <4> QED BY <3>1, <4>1 DEF AwaitTransactionReceipt, Abandon
      <3>2. CASE LoopDies(l)
        BY <3>2 DEF LoopDies, Abandon
      <3> QED BY <3>1, <3>2 DEF LoopStep, ReadBalance, ReadTreasuryBalance, PrepareTransaction, RecordSweep
    <2> QED BY <1>1, <1>2, <1>3, <2>1, <2>2, TopUpsCarry
  <1>5. CASE ReadBalance(l)
    BY <1>1, <1>2, <1>3, <1>5, TopUpsCarry DEF ReadBalance, Moves
  <1>6. CASE ReadTreasuryBalance(l) /\ ~Rests(l)
    BY <1>1, <1>2, <1>3, <1>6, TopUpsCarry DEF ReadTreasuryBalance, Moves
  <1>7. CASE PrepareTransaction(l) /\ ~Rests(l)
    BY <1>1, <1>2, <1>3, <1>7, TopUpsCarry DEF PrepareTransaction, Moves
  <1>8. CASE AwaitTransactionReceipt(l) /\ ~Rests(l)
    <2>1. l \in Sweepers /\ at' = [at EXCEPT ![l] = "record"] /\ UNCHANGED <<amount, ref>>
      BY <1>8 DEF AwaitTransactionReceipt, AfterSweepReceipt, Moves
    <2> QED BY <1>1, <1>2, <1>3, <2>1, TopUpsCarry
  <1> QED BY <1>4, <1>5, <1>6, <1>7, <1>8 DEF LoopStep, RecordSweep, LoopDies

LEMMA StepKeepsTopUps ==
  BInv /\ LoopsTyped /\ LedgerInv /\ TopUpInv /\ [SweepNext]_<<vars, sweepVars>> => TopUpInv'
  <1> SUFFICES ASSUME BInv, LoopsTyped, LedgerInv, TopUpInv, [SweepNext]_<<vars, sweepVars>>
               PROVE  TopUpInv'
    OBVIOUS
  <1>1. IInv /\ OneStands
    BY DEF BInv
  <1>2. CASE ServiceStep /\ UNCHANGED sweepVars
    BY <1>1, <1>2, ServiceKeepsTopUps
  <1>3. ASSUME NEW i \in DOMAIN txs, MineTransaction(i) PROVE TopUpInv'
    BY <1>1, <1>3, MineKeepsTopUps
  <1>4. ASSUME NEW l \in Loops, LoopStep(l) PROVE TopUpInv'
    BY <1>1, <1>4, ReadKeepsTopUps, SendKeepsTopUps, LoopKeepsTopUps
  <1>5. CASE AllocationSends
    BY <1>1, <1>5, AllocationKeepsTopUps
  <1>6. CASE Deposit \/ UNCHANGED <<vars, sweepVars>>
    <2>1. /\ UNCHANGED <<txs, executes, calls, at, amount, ref, abandoned>>
          /\ usdc'["issuer"] = usdc["issuer"]
      BY <1>6 DEF Deposit, vars, chain, sweepVars, money, loops, LoopsTyped, SweepTypeOK, Safes
    <2>2. Inflow' = Inflow /\ FinalStays
      BY <2>1, InflowCarries DEF Received, FinalStays
    <2> QED BY <2>1, <2>2, TopUpsCarry
  <1> QED BY <1>2, <1>3, <1>4, <1>5, <1>6 DEF SweepNext

LEMMA TopUpInvHolds == SweepSpec => []TopUpInv
  <1>1. SweepInit => TopUpInv
    <2> SUFFICES ASSUME SweepInit PROVE TopUpInv
      OBVIOUS
    <2>1. DOMAIN txs = {} /\ DOMAIN calls = {} /\ \A l \in Loops : at[l] = "idle"
      BY DEF SweepInit, Init
    <2>2. Inflow = 0
      <3>1. DOMAIN [i \in DOMAIN txs |-> Received(i)] = {}
        BY <2>1
      <3> QED BY <3>1, SumOfFunction, SumEmpty DEF Inflow
    <2>3. \A l \in ToppingUp : ~Heading(l)
      BY <2>1 DEF Heading, Loops
    <2>4. usdc["issuer"] = InitialUsdc["issuer"] /\ InitialUsdc["issuer"] \in Nat
      BY SweepAssumption DEF SweepInit, Safes
    <2> QED BY <2>1, <2>2, <2>3, <2>4, SweepAssumption DEF TopUpInv, TopUpsAwaited, TargetKept, NoneLeft
  <1> QED BY <1>1, StepKeepsTopUps, BInvHolds, LedgerInvHolds, PTL DEF SweepSpec

\* One loop never takes the issuer Safe past its target with what it adds, unless
\* a top-up whose sender left is still on its way, whatever is paid in meanwhile.
THEOREM IssuerWithinTargetHolds == SweepSpec => []IssuerWithinTarget
  <1>1. TopUpInv => IssuerWithinTarget
    BY DEF TopUpInv, TargetKept, NoneLeft, IssuerWithinTarget
  <1> QED BY <1>1, TopUpInvHolds, PTL
=============================================================================
