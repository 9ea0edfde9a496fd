----------------------------- MODULE Settlement -----------------------------
(***************************************************************************)
(* SettlementService (backend/src/services/settlement-service.ts): the     *)
(* BullMQ queue of settlement jobs, one worker in each backend process,    *)
(* and the settler account's transactions on the chain.                    *)
(*                                                                         *)
(* A worker runs one job at a time.  Its actions are the awaits of         *)
(* processJob(): the isSettled() read, the two calls of writeContract()    *)
(* (the account's nonce, then the raw transaction), the receipt, and the   *)
(* database or queue update that ends the job.                             *)
(***************************************************************************)
EXTENDS Naturals, Sequences, FiniteSets

CONSTANTS
  Tokens,          \* Lithic transaction tokens
  Workers,         \* the backend processes, one settlement worker each
  MaxRetries,      \* settlementMaxRetries
  Faults,          \* the calls that may fail: a subset of Fault
  MaxDisruptions,  \* bound: crashes, lost locks, forgotten jobs
  MaxTxs,          \* bound: transactions of the settler account
  NoJob, NoToken

Fault == {"rpc", "receipt", "revert", "database", "queue"}

Job == [token : Tokens, attempt : 1 .. MaxRetries]

ASSUME SettlementAssumption ==
  /\ MaxRetries \in Nat \ {0}
  /\ Faults \subseteq Fault
  /\ MaxDisruptions \in Nat /\ MaxTxs \in Nat
  /\ NoJob \notin Job /\ NoToken \notin Tokens

VARIABLES
  waiting,          \* the jobs waiting in the queue
  jobIds,           \* the jobs BullMQ still knows, waiting, active or ended
  stalled,          \* the jobs that have stalled once
  pc,               \* pc[w]: where the worker stands
  active,           \* active[w]: the job it runs, or NoJob
  held,             \* held[w]: the nonce, then the index in txs of its transaction
  txs,              \* the settler account's transactions, in the order sent
  settledTxTokens,  \* SpendSettler.settledTxTokens
  payments,         \* payments[t]: how many times the Safe paid for t
  row,              \* row[t]: Transaction.status
  disruptions,
  dropped           \* history: the tokens whose retry or row update was lost

queue  == <<waiting, jobIds, stalled>>
worker == <<pc, active, held>>
chain  == <<txs, settledTxTokens, payments>>
vars   == <<queue, worker, chain, row, disruptions, dropped>>

Tx == [token : Tokens \cup {NoToken}, nonce : Nat \ {0},
       status : {"pending", "success", "reverted", "replaced"}]

TypeOK ==
  /\ waiting \subseteq Job /\ jobIds \subseteq Job /\ stalled \subseteq Job
  /\ waiting \subseteq jobIds
  /\ pc \in [Workers -> {"idle", "check", "nonce", "send", "receipt", "settled", "catch"}]
  /\ active \in [Workers -> Job \cup {NoJob}]
  /\ \A w \in Workers : (pc[w] = "idle") <=> (active[w] = NoJob)
  /\ held \in [Workers -> Nat]
  /\ txs \in Seq(Tx)
  /\ settledTxTokens \subseteq Tokens
  /\ payments \in [Tokens -> Nat]
  /\ row \in [Tokens -> {"approved", "settled", "failed"}]
  /\ disruptions \in 0 .. MaxDisruptions
  /\ dropped \subseteq Tokens

Init ==
  /\ waiting = {} /\ jobIds = {} /\ stalled = {}
  /\ pc = [w \in Workers |-> "idle"]
  /\ active = [w \in Workers |-> NoJob]
  /\ held = [w \in Workers |-> 0]
  /\ txs = << >>
  /\ settledTxTokens = {}
  /\ payments = [t \in Tokens |-> 0]
  /\ row = [t \in Tokens |-> "approved"]
  /\ disruptions = 0
  /\ dropped = {}

Token(w)   == active[w].token
Attempt(w) == active[w].attempt
Goto(w, next) == pc' = [pc EXCEPT ![w] = next] /\ UNCHANGED active

-----------------------------------------------------------------------------
(* The queue *)

\* BullMQ ignores a job whose jobId, the token and the attempt, it knows.
Add(job) ==
  /\ waiting' = IF job \in jobIds THEN waiting ELSE waiting \cup {job}
  /\ jobIds' = jobIds \cup {job}
  /\ UNCHANGED stalled

\* The webhook handler hands over an approved authorization, at its first
\* delivery or at a later one.
Authorize(t) ==
  /\ Add([token |-> t, attempt |-> 1])
  /\ UNCHANGED <<worker, chain, row, disruptions, dropped>>

\* The job is over for the worker.
Finish(w) ==
  /\ pc' = [pc EXCEPT ![w] = "idle"]
  /\ active' = [active EXCEPT ![w] = NoJob]
  /\ UNCHANGED held

Take(w) ==
  /\ pc[w] = "idle"
  /\ \E job \in waiting :
       /\ waiting' = waiting \ {job}
       /\ pc' = [pc EXCEPT ![w] = "check"]
       /\ active' = [active EXCEPT ![w] = job]
  /\ UNCHANGED <<jobIds, stalled, held, chain, row, disruptions, dropped>>

-----------------------------------------------------------------------------
(* The settler account *)

Mined(tx) == tx.status \in {"success", "reverted"}

\* The account's transaction count with the pending ones, from 1.
NextNonce == Cardinality({txs[i].nonce : i \in DOMAIN txs}) + 1

\* The transaction that stands at a nonce: a replaced one has made room.
Standing(n) == {i \in DOMAIN txs : txs[i].nonce = n /\ txs[i].status # "replaced"}

\* The node takes a transaction at a free nonce, or one that outbids the
\* pending transaction there.
Submit(token, n) ==
  /\ Len(txs) < MaxTxs
  /\ \A i \in Standing(n) : txs[i].status = "pending"
  /\ txs' = Append([i \in DOMAIN txs |->
                      IF i \in Standing(n) THEN [txs[i] EXCEPT !.status = "replaced"] ELSE txs[i]],
                   [token |-> token, nonce |-> n, status |-> "pending"])
  /\ UNCHANGED <<settledTxTokens, payments>>

\* SpendSettler.settle() refuses a token it has settled.
SettleRefusesMutant(t) == FALSE
SettleRefuses(t) == t \in settledTxTokens

\* Transactions are mined in the order of their nonces.  A settle() that is not
\* refused pays, or reverts for another reason (a pause, no funds, the cap).
\* Another sender's transaction succeeds or reverts.
Mine(i) ==
  /\ txs[i].status = "pending"
  /\ \A k \in DOMAIN txs : txs[k].nonce < txs[i].nonce => txs[k].status # "pending"
  /\ LET t == txs[i].token
     IN  \/ /\ t \in Tokens /\ (SettleRefuses(t) \/ "revert" \in Faults)
            /\ txs' = [txs EXCEPT ![i].status = "reverted"]
            /\ UNCHANGED <<settledTxTokens, payments>>
         \/ /\ t \in Tokens /\ ~SettleRefuses(t)
            /\ txs' = [txs EXCEPT ![i].status = "success"]
            /\ settledTxTokens' = settledTxTokens \cup {t}
            /\ payments' = [payments EXCEPT ![t] = @ + 1]
         \/ /\ t = NoToken
            /\ \E status \in {"success", "reverted"} : txs' = [txs EXCEPT ![i].status = status]
            /\ UNCHANGED <<settledTxTokens, payments>>
  /\ UNCHANGED <<queue, worker, row, disruptions, dropped>>

-----------------------------------------------------------------------------
(* processJob() *)

\* A failed read is not taken for "not settled": the attempt ends.
CheckIfSettled(w) == IF Token(w) \in settledTxTokens THEN "settled" ELSE "nonce"

Check(w) ==
  /\ pc[w] = "check"
  /\ Goto(w, CheckIfSettled(w)) \/ ("rpc" \in Faults /\ Goto(w, "catch"))
  /\ UNCHANGED <<queue, held, chain, row, disruptions, dropped>>

ReadNonce(w) ==
  /\ pc[w] = "nonce"
  /\ \/ Goto(w, "send") /\ held' = [held EXCEPT ![w] = NextNonce]
     \/ "rpc" \in Faults /\ Goto(w, "catch") /\ UNCHANGED held
  /\ UNCHANGED <<queue, chain, row, disruptions, dropped>>

\* The transaction is taken; or taken and the answer lost; or refused, because
\* its nonce is used or pending, or because the call failed.
Send(w) ==
  /\ pc[w] = "send"
  /\ \/ /\ Submit(Token(w), held[w])
        /\ Goto(w, "receipt")
        /\ held' = [held EXCEPT ![w] = Len(txs')]
     \/ /\ "rpc" \in Faults
        /\ Submit(Token(w), held[w])
        /\ Goto(w, "catch")
        /\ UNCHANGED held
     \/ /\ "rpc" \in Faults \/ Standing(held[w]) # {}
        /\ Goto(w, "catch")
        /\ UNCHANGED <<chain, held>>
  /\ UNCHANGED <<queue, row, disruptions, dropped>>

\* waitForTransactionReceipt() gives the receipt of the transaction mined at
\* the nonce, its own or the one that replaced it.
Receipts(w) == {i \in DOMAIN txs : txs[i].nonce = txs[held[w]].nonce /\ Mined(txs[i])}

AfterReceiptMutant(status) == "settled"
AfterReceipt(status) == IF status = "success" THEN "settled" ELSE "catch"

AwaitReceipt(w) ==
  /\ pc[w] = "receipt"
  /\ \/ \E i \in Receipts(w) : Goto(w, AfterReceipt(txs[i].status))
     \/ "receipt" \in Faults /\ Goto(w, "catch")
  /\ UNCHANGED <<queue, held, chain, row, disruptions, dropped>>

Drop(t) == dropped' = dropped \cup {t}

\* A row update: an error is logged and dropped.
Mark(w, status) ==
  \/ row' = [row EXCEPT ![Token(w)] = status] /\ UNCHANGED dropped
  \/ "database" \in Faults /\ Drop(Token(w)) /\ UNCHANGED row

MarkTransactionSettled(w) ==
  /\ pc[w] = "settled"
  /\ Mark(w, "settled")
  /\ Finish(w)
  /\ UNCHANGED <<queue, chain, disruptions>>

AttemptsLeftMutant(w) == Attempt(w) <= MaxRetries
AttemptsLeft(w) == Attempt(w) < MaxRetries

RetryJobMutant(w) == active[w]
RetryJob(w) == [active[w] EXCEPT !.attempt = @ + 1]

\* The catch block: a retry under a new jobId, unless the queue refuses it and
\* the exception ends the job (BullMQ has one attempt); or, after the last
\* attempt, the row is marked failed, whatever the chain says by now.
Catch(w) ==
  /\ pc[w] = "catch"
  /\ \/ /\ AttemptsLeft(w)
        /\ \/ Add(RetryJob(w)) /\ UNCHANGED dropped
           \/ "queue" \in Faults /\ Drop(Token(w)) /\ UNCHANGED queue
        /\ UNCHANGED row
     \/ /\ ~AttemptsLeft(w)
        /\ Mark(w, "failed")
        /\ UNCHANGED queue
  /\ Finish(w)
  /\ UNCHANGED <<chain, disruptions>>

-----------------------------------------------------------------------------
(* Disruptions *)

Disrupt == disruptions < MaxDisruptions /\ disruptions' = disruptions + 1

\* BullMQ puts a job whose lock ran out back in the queue, once.
Requeue(job) ==
  /\ \/ job \notin stalled /\ waiting' = waiting \cup {job} /\ UNCHANGED dropped
     \/ job \in stalled /\ Drop(job.token) /\ UNCHANGED waiting
  /\ stalled' = stalled \cup {job}
  /\ UNCHANGED jobIds

\* The process dies, or is shut down: stop() does not wait for the job.
Crash(w) ==
  /\ Disrupt
  /\ active[w] # NoJob
  /\ Requeue(active[w])
  /\ Finish(w)
  /\ UNCHANGED <<chain, row>>

\* The worker misses its lock renewal and runs on.
LockLost(w) ==
  /\ Disrupt
  /\ active[w] # NoJob
  /\ Requeue(active[w])
  /\ UNCHANGED <<worker, chain, row>>

\* removeOnComplete and removeOnFail: the queue forgets an ended job.
Forget(job) ==
  /\ Disrupt
  /\ job \in jobIds \ waiting
  /\ \A w \in Workers : active[w] # job
  /\ jobIds' = jobIds \ {job}
  /\ stalled' = stalled \ {job}
  /\ UNCHANGED <<waiting, worker, chain, row, dropped>>

-----------------------------------------------------------------------------
Process(w) ==
  \/ Check(w) \/ ReadNonce(w) \/ Send(w) \/ AwaitReceipt(w)
  \/ MarkTransactionSettled(w) \/ Catch(w)

\* The steps of the queue and its workers.
ServiceStep ==
  \/ \E t \in Tokens : Authorize(t)
  \/ \E w \in Workers : Take(w) \/ Process(w) \/ Crash(w) \/ LockLost(w)
  \/ \E job \in jobIds : Forget(job)

Next ==
  \/ ServiceStep
  \/ \E i \in DOMAIN txs : Mine(i)

Spec == Init /\ [][Next]_vars

\* Workers take jobs and run them; the chain mines what is pending.  Nothing
\* makes a webhook come or a process die.
Fairness ==
  /\ \A w \in Workers : WF_vars(Take(w)) /\ WF_vars(Process(w))
  /\ WF_vars(\E i \in DOMAIN txs : Mine(i))

FairSpec == Spec /\ Fairness

-----------------------------------------------------------------------------
(* Properties *)

\* However many attempts, workers and re-run jobs send a settle() for a token,
\* it is paid once, and the contract knows the tokens that were paid.
PaidOnce ==
  \A t \in Tokens : payments[t] = IF t \in settledTxTokens THEN 1 ELSE 0

\* Another transaction of the account took the nonce of t's settle().
Replaced(t) == \E i \in DOMAIN txs : txs[i].token = t /\ txs[i].status = "replaced"

\* A row says settled for a token that was not paid in one way only: the
\* worker took the receipt of the transaction that replaced its own for that of
\* its own (AwaitReceipt).
BookedUnpaidOnlyIf ==
  \A t \in Tokens : row[t] = "settled" /\ t \notin settledTxTokens => Replaced(t)

\* With a single sender, the service keeps the promise of SettleOnce: it books
\* as settled what was paid, through failed reads, lost answers, receipts that
\* do not come, crashes and re-run jobs.
Promise == INSTANCE SettleOnce
KeepsPromise == Promise!Spec

\* Whoever else sends from the account, it keeps the promise step by step, but
\* for the booking of a token whose own transaction was replaced: no token is
\* paid twice, none is booked as settled unpaid that was not displaced.
BooksReplaced(t) ==
  /\ Replaced(t)
  /\ row' = [row EXCEPT ![t] = "settled"]
  /\ UNCHANGED payments

PromiseOrReplaced ==
  /\ Promise!Init
  /\ [][Promise!Next \/ \E t \in Tokens : BooksReplaced(t)]_<<payments, row>>

\* Every authorization handed over is booked, one way or the other, unless the
\* queue or the database lost it: a retry is never swallowed by the jobId of
\* the attempt it follows, and a lost receipt or a crash does not end a job.
EveryJobConcludes ==
  \A t \in Tokens :
    (\E job \in jobIds : job.token = t) ~> row[t] \in {"settled", "failed"} \/ t \in dropped
=============================================================================
