--------------------------- MODULE DepositIndexer ---------------------------
(***************************************************************************)
(* The poll loop of the Watcher (backend/src/services/watcher.ts): it      *)
(* reads the chain behind a confirmation buffer, credits the deposits to   *)
(* the users' M2 Safes in BalanceLedger, stores SpendSettled events and    *)
(* moves a cursor in WatcherMeta.  Every backend process runs one.         *)
(*                                                                         *)
(* An action is the code between two awaits.  The logs of a range and the  *)
(* known Safes are read in one action: the range is beyond any reorg.      *)
(***************************************************************************)
EXTENDS Integers, FiniteSets

CONSTANTS
  Watchers,
  Deposits,             \* USDC Transfer events
  Settlements,          \* SpendSettled events
  Safes,                \* M2 Safes
  SafeOf,               \* SafeOf[d]: the recipient of a deposit
  StartBlock,           \* config.watcherStartBlock
  CONFIRMATION_BUFFER,
  MAX_CONSECUTIVE_FAILURES,
  ReorgDepth,           \* how many blocks at the head the chain may replace
  MaxBlock,             \* bound: the last block
  MaxDisruptions        \* bound: failed polls and crashes

Events == Deposits \cup Settlements

ASSUME IndexerAssumption ==
  /\ Deposits \cap Settlements = {}
  /\ SafeOf \in [Deposits -> Safes]
  /\ StartBlock \in Nat \ {0}
  /\ CONFIRMATION_BUFFER \in Nat
  /\ MAX_CONSECUTIVE_FAILURES \in Nat \ {0}
  /\ ReorgDepth \in 0 .. CONFIRMATION_BUFFER
  /\ MaxBlock \in Nat /\ MaxDisruptions \in Nat

VARIABLES
  head,         \* the number of the last block
  blockOf,      \* blockOf[e]: the block that holds the event, 0 if none does
  knownSafes,   \* the Safes of the rows of User
  cursor,       \* WatcherMeta: the last block processed
  credits,      \* credits[d]: how many BalanceLedger rows a deposit has
  rows,         \* the SpendSettledEvent table
  pc,           \* pc[w]: where the poll stands; "waiting" for its timer
  from, to,     \* from[w], to[w]: its range of blocks
  batch,        \* batch[w]: the logs it has yet to handle
  failures,     \* failures[w]: consecutiveFailures
  disruptions,
  \* History: the events whose write failed and was only logged, the deposits
  \* read while their Safe was unknown, whether a poll that held a batch was cut
  \* short, and whether two polls have read one range.
  dropped, missed, cut, overlap

chain == <<head, blockOf>>
db    == <<knownSafes, cursor, credits, rows>>
poll  == <<pc, from, to, batch, failures>>
hist  == <<dropped, missed, cut, overlap>>
vars  == <<chain, db, poll, disruptions, hist>>

TypeOK ==
  /\ head \in Nat
  /\ blockOf \in [Events -> Nat]
  /\ knownSafes \subseteq Safes
  /\ cursor \in Nat
  /\ credits \in [Deposits -> Nat]
  /\ rows \subseteq Settlements
  /\ pc \in [Watchers -> {"waiting", "cursor", "logs", "handle", "save", "paused"}]
  /\ from \in [Watchers -> Nat] /\ to \in [Watchers -> Nat]
  /\ batch \in [Watchers -> SUBSET Events]
  /\ failures \in [Watchers -> 0 .. MAX_CONSECUTIVE_FAILURES - 1]
  /\ disruptions \in 0 .. MaxDisruptions
  /\ dropped \subseteq Events /\ missed \subseteq Deposits
  /\ cut \in BOOLEAN /\ overlap \in BOOLEAN

\* Without a WatcherMeta row the first poll starts from StartBlock.
Init ==
  /\ head = 0 /\ blockOf = [e \in Events |-> 0]
  /\ knownSafes = {}
  /\ cursor = StartBlock - 1
  /\ credits = [d \in Deposits |-> 0] /\ rows = {}
  /\ pc = [w \in Watchers |-> "waiting"]
  /\ from = [w \in Watchers |-> 0] /\ to = [w \in Watchers |-> 0]
  /\ batch = [w \in Watchers |-> {}]
  /\ failures = [w \in Watchers |-> 0]
  /\ disruptions = 0
  /\ dropped = {} /\ missed = {} /\ cut = FALSE /\ overlap = FALSE

-----------------------------------------------------------------------------
(* The chain and the users *)

\* A block with some of the events that are not on the chain.
Block ==
  /\ head < MaxBlock
  /\ head' = head + 1
  /\ \E S \in SUBSET {e \in Events : blockOf[e] = 0} :
       blockOf' = [e \in Events |-> IF e \in S THEN head + 1 ELSE blockOf[e]]
  /\ UNCHANGED <<db, poll, disruptions, hist>>

\* The last blocks are replaced: their events move among them or fall out.
Reorg ==
  LET recent == {b \in 1 .. head : b > head - ReorgDepth}
  IN  /\ blockOf' \in [Events -> {0} \cup 1 .. head]
      /\ \A e \in Events :
           IF blockOf[e] \in recent THEN blockOf'[e] \in recent \cup {0}
                                    ELSE blockOf'[e] = blockOf[e]
      /\ UNCHANGED <<head, db, poll, disruptions, hist>>

\* The Safe of a user is written to its row.
Register(s) ==
  /\ knownSafes' = knownSafes \cup {s}
  /\ UNCHANGED <<chain, cursor, credits, rows, poll, disruptions, hist>>

-----------------------------------------------------------------------------
(* poll() *)

Goto(w, next) == pc' = [pc EXCEPT ![w] = next]

\* The range of blocks is local to a poll and ends with it.
EndPoll(w, next) ==
  /\ Goto(w, next)
  /\ from' = [from EXCEPT ![w] = 0]
  /\ to' = [to EXCEPT ![w] = 0]

SafeBlockMutant == head
SafeBlock == head - CONFIRMATION_BUFFER

\* A chain shorter than the buffer has nothing to read.
HasSafeBlockMutant == TRUE
HasSafeBlock == SafeBlock >= 0

\* The timer fires; the head is read.
Poll(w) ==
  /\ pc[w] = "waiting"
  /\ HasSafeBlock
  /\ to' = [to EXCEPT ![w] = SafeBlock]
  /\ Goto(w, "cursor")
  /\ UNCHANGED <<chain, db, from, batch, failures, disruptions, hist>>

NextBlockMutant == cursor + 2
NextBlock == cursor + 1

\* Then the poll ends and waits for its next timer.
NothingNewMutant(w) == NextBlock >= to[w]
NothingNew(w) == NextBlock > to[w]

GetLastProcessedBlock(w) ==
  /\ pc[w] = "cursor"
  /\ IF NothingNew(w)
     THEN EndPoll(w, "waiting")
     ELSE Goto(w, "logs") /\ from' = [from EXCEPT ![w] = NextBlock] /\ UNCHANGED to
  /\ UNCHANGED <<chain, db, batch, failures, disruptions, hist>>

InRange(w) == {e \in Events : blockOf[e] \in from[w] .. to[w]}
Unknown(w) == {d \in InRange(w) \cap Deposits : SafeOf[d] \notin knownSafes}

\* fetchDeposits and fetchSpendSettled: the transfers to unknown Safes are left out.
FetchLogs(w) ==
  /\ pc[w] = "logs"
  /\ batch' = [batch EXCEPT ![w] = InRange(w) \ Unknown(w)]
  /\ Goto(w, "handle")
  /\ missed' = missed \cup Unknown(w)
  /\ overlap' = (\/ overlap \/ from[w] # cursor + 1
                 \/ \E v \in Watchers \ {w} : pc[v] \in {"handle", "save"})
  /\ UNCHANGED <<chain, db, from, to, failures, disruptions, dropped, cut>>

\* The write of one log is done; an error is logged and the log is dropped.
Handled(w, e) == batch' = [batch EXCEPT ![w] = @ \ {e}]

\* An upsert by the Lithic token.
PersistSpendSettled(w, e) ==
  /\ pc[w] = "handle"
  /\ e \in batch[w] \cap Settlements
  /\ Handled(w, e)
  /\ \/ rows' = rows \cup {e} /\ UNCHANGED dropped
     \/ dropped' = dropped \cup {e} /\ UNCHANGED rows
  /\ UNCHANGED <<chain, knownSafes, cursor, credits, pc, from, to, failures, disruptions,
                 missed, cut, overlap>>

\* A plain insert: BalanceLedger has no key on the transfer.  What follows, the
\* cache update and the callback, changes nothing here.
HandleDeposit(w, d) ==
  /\ pc[w] = "handle"
  /\ batch[w] \cap Settlements = {}
  /\ d \in batch[w]
  /\ Handled(w, d)
  /\ \/ credits' = [credits EXCEPT ![d] = @ + 1] /\ UNCHANGED dropped
     \/ dropped' = dropped \cup {d} /\ UNCHANGED credits
  /\ UNCHANGED <<chain, knownSafes, cursor, rows, pc, from, to, failures, disruptions,
                 missed, cut, overlap>>

HandledAll(w) ==
  /\ pc[w] = "handle"
  /\ batch[w] = {}
  /\ Goto(w, "save")
  /\ UNCHANGED <<chain, db, from, to, batch, failures, disruptions, hist>>

ProcessedMutant(w) == to[w] - 1
Processed(w) == to[w]

\* The upsert of the cursor does not look at the value it replaces.
SetLastProcessedBlock(w) ==
  /\ pc[w] = "save"
  /\ cursor' = Processed(w)
  /\ failures' = [failures EXCEPT ![w] = 0]
  /\ EndPoll(w, "waiting")
  /\ UNCHANGED <<chain, knownSafes, credits, rows, batch, disruptions, hist>>

Disrupt == disruptions < MaxDisruptions /\ disruptions' = disruptions + 1

\* A call outside the writes of the logs fails: the circuit breaker counts it,
\* and trips at the MAX_CONSECUTIVE_FAILURES-th.
PollFails(w) ==
  /\ Disrupt
  /\ pc[w] \in {"waiting", "cursor", "logs", "save"}
  /\ IF failures[w] + 1 >= MAX_CONSECUTIVE_FAILURES
     THEN EndPoll(w, "paused") /\ failures' = [failures EXCEPT ![w] = 0]
     ELSE EndPoll(w, "waiting") /\ failures' = [failures EXCEPT ![w] = @ + 1]
  /\ cut' = (cut \/ pc[w] = "save")
  /\ UNCHANGED <<chain, db, batch, dropped, missed, overlap>>

PauseEnds(w) ==
  /\ pc[w] = "paused"
  /\ Goto(w, "waiting")
  /\ UNCHANGED <<chain, db, from, to, batch, failures, disruptions, hist>>

\* The process dies, or stops without waiting for its poll, and starts again.
Crash(w) ==
  /\ Disrupt
  /\ EndPoll(w, "waiting")
  /\ batch' = [batch EXCEPT ![w] = {}]
  /\ failures' = [failures EXCEPT ![w] = 0]
  /\ cut' = (cut \/ pc[w] \in {"handle", "save"})
  /\ UNCHANGED <<chain, db, dropped, missed, overlap>>

-----------------------------------------------------------------------------
Step(w) ==
  \/ Poll(w) \/ GetLastProcessedBlock(w) \/ FetchLogs(w) \/ HandledAll(w)
  \/ \E e \in Settlements : PersistSpendSettled(w, e)
  \/ \E d \in Deposits : HandleDeposit(w, d)
  \/ SetLastProcessedBlock(w) \/ PauseEnds(w)

Next ==
  \/ Block \/ Reorg
  \/ \E s \in Safes : Register(s)
  \/ \E w \in Watchers : Step(w) \/ PollFails(w) \/ Crash(w)

Spec == Init /\ [][Next]_vars

\* The loop re-arms its timer on every path and Node runs what is ready.
FairSpec == Spec /\ \A w \in Watchers : WF_vars(Step(w))

-----------------------------------------------------------------------------
(* Properties *)

Indexed(e) == IF e \in Deposits THEN credits[e] > 0 ELSE e \in rows

\* The cursor never leaves an event behind: up to it, every event is indexed,
\* unless its own write failed or its Safe was unknown when it was read.  It
\* holds for several watchers whose cursors overwrite each other, through
\* failed polls and crashes.
CursorCovers ==
  \A e \in Events :
    blockOf[e] \in StartBlock .. cursor => Indexed(e) \/ e \in dropped \cup missed

\* What was credited or stored stays on the chain: no reorganisation within
\* the confirmation buffer takes back a deposit that the ledger has.
IndexedIsFinal == \A e \in Events : Indexed(e) => blockOf[e] \in 1 .. head - ReorgDepth

\* A deposit is credited a second time only where a poll that had read its
\* logs did not save the cursor, or two watchers read one range.
CreditedTwiceOnlyIf == (\E d \in Deposits : credits[d] > 1) => cut \/ overlap

\* An event that has its confirmations gets indexed, through failed polls, the
\* circuit breaker and crashes, unless its own write failed (dropped) or its
\* Safe was unknown when it was read (missed).
FinalIsIndexed ==
  \A e \in Events :
    blockOf[e] \in StartBlock .. SafeBlock ~> Indexed(e) \/ e \in dropped \cup missed
=============================================================================
