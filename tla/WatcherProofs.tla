---------------------------- MODULE WatcherProofs ----------------------------
(* What holds of the Watcher: of its poll loop, for every number of          *)
(* processes, events and blocks and every confirmation buffer at least as    *)
(* deep as a reorg (DepositIndexer), and of its cache synchronisation, for   *)
(* every number of writers and spends and every limit (CacheSync).           *)
EXTENDS DepositIndexer, CacheSync, TLAPS

-----------------------------------------------------------------------------
(* The poll loop *)

\* An event is accounted for.
Settled(e) == Indexed(e) \/ e \in dropped \cup missed

\* Up to block b, every event is accounted for.
CoveredTo(b) == \A e \in Events : blockOf[e] \in StartBlock .. b => Settled(e)

\* The range of a poll is behind the reorgs, follows what was covered when it
\* began, and its logs are handled or in its batch.
PollOK(w) ==
  /\ pc[w] \in {"cursor", "logs", "handle", "save"} => to[w] \in 0 .. head - CONFIRMATION_BUFFER
  /\ pc[w] \in {"logs", "handle", "save"} =>
       from[w] \in StartBlock .. to[w] /\ CoveredTo(from[w] - 1)
  /\ \A e \in batch[w] : blockOf[e] \in from[w] .. to[w]
  /\ batch[w] # {} => pc[w] = "handle"
  /\ pc[w] \in {"handle", "save"} =>
       \A e \in Events : blockOf[e] \in from[w] .. to[w] => Settled(e) \/ e \in batch[w]

CursorOK ==
  /\ cursor >= StartBlock - 1
  /\ cursor >= StartBlock => cursor <= head - CONFIRMATION_BUFFER
  /\ CoveredTo(cursor)

IInv == TypeOK /\ IndexedIsFinal /\ CursorOK /\ \A w \in Watchers : PollOK(w)

\* The parts of the state that the writes of a poll leave alone, and the
\* accounting they never take back.
Grows == \A e \in Events : Settled(e) => Settled(e)'

LEMMA InitIsInv == Init => IInv
  <1> SUFFICES ASSUME Init PROVE IInv
    OBVIOUS
  <1>1. TypeOK
    <2>1. /\ 0 \in 0 .. MAX_CONSECUTIVE_FAILURES - 1 /\ 0 \in 0 .. MaxDisruptions
          /\ StartBlock - 1 \in Nat
      BY IndexerAssumption
    <2>2. /\ pc \in [Watchers -> {"waiting", "cursor", "logs", "handle", "save", "paused"}]
          /\ failures \in [Watchers -> 0 .. MAX_CONSECUTIVE_FAILURES - 1]
      BY <2>1 DEF Init
    <2> QED BY <2>1, <2>2 DEF Init, TypeOK
  <1>2. IndexedIsFinal
    BY DEF Init, IndexedIsFinal, Indexed, Events
  <1>3. CursorOK
    BY IndexerAssumption DEF Init, CursorOK, CoveredTo
  <1>4. \A w \in Watchers : PollOK(w)
    BY DEF Init, PollOK
  <1> QED BY <1>1, <1>2, <1>3, <1>4 DEF IInv

-----------------------------------------------------------------------------
\* Types.
LEMMA NextKeepsTypes ==
  ASSUME TypeOK, [Next]_vars, CursorOK, \A w \in Watchers : PollOK(w)
  PROVE  TypeOK'
  <1> USE IndexerAssumption
  <1>1. CASE Block
    BY <1>1 DEF Block, TypeOK, db, poll, hist
  <1>2. CASE Reorg
    <2>1. blockOf' \in [Events -> Nat]
      BY <1>2 DEF Reorg, TypeOK
    <2> QED BY <1>2, <2>1 DEF Reorg, TypeOK, db, poll, hist
  <1>3. ASSUME NEW s \in Safes, Register(s) PROVE TypeOK'
    BY <1>3 DEF Register, TypeOK, chain, poll, hist
  <1>4. ASSUME NEW w \in Watchers, Poll(w) PROVE TypeOK'
    <2>1. SafeBlock \in Nat
      BY <1>4 DEF Poll, HasSafeBlock, SafeBlock, TypeOK
    <2> QED BY <1>4, <2>1 DEF Poll, Goto, TypeOK, chain, db, hist
  <1>5. ASSUME NEW w \in Watchers, GetLastProcessedBlock(w) PROVE TypeOK'
    <2>1. NextBlock \in Nat
      BY DEF NextBlock, TypeOK
    <2> QED BY <1>5, <2>1 DEF GetLastProcessedBlock, Goto, EndPoll, TypeOK, chain, db, hist
  <1>6. ASSUME NEW w \in Watchers, FetchLogs(w) PROVE TypeOK'
    <2>1. Unknown(w) \subseteq Deposits /\ InRange(w) \ Unknown(w) \subseteq Events
      BY DEF Unknown, InRange
    <2> QED BY <1>6, <2>1 DEF FetchLogs, Goto, TypeOK, chain, db
  <1>7. ASSUME NEW w \in Watchers, NEW e \in Settlements, PersistSpendSettled(w, e) PROVE TypeOK'
    BY <1>7 DEF PersistSpendSettled, Handled, TypeOK, chain, Events
  <1>8. ASSUME NEW w \in Watchers, NEW d \in Deposits, HandleDeposit(w, d) PROVE TypeOK'
    BY <1>8 DEF HandleDeposit, Handled, TypeOK, chain, Events
  <1>9. ASSUME NEW w \in Watchers, HandledAll(w) PROVE TypeOK'
    BY <1>9 DEF HandledAll, Goto, TypeOK, chain, db, hist
  <1>10. ASSUME NEW w \in Watchers, SetLastProcessedBlock(w) PROVE TypeOK'
    BY <1>10 DEF SetLastProcessedBlock, Processed, Goto, EndPoll, TypeOK, chain, hist
  <1>11. ASSUME NEW w \in Watchers, PauseEnds(w) PROVE TypeOK'
    BY <1>11 DEF PauseEnds, Goto, TypeOK, chain, db, hist
  <1>12. ASSUME NEW w \in Watchers, PollFails(w) PROVE TypeOK'
    <2>1. disruptions' \in 0 .. MaxDisruptions
      BY <1>12 DEF PollFails, Disrupt, TypeOK
    <2>2. failures' \in [Watchers -> 0 .. MAX_CONSECUTIVE_FAILURES - 1]
      BY <1>12 DEF PollFails, TypeOK
    <2>3. pc' \in [Watchers -> {"waiting", "cursor", "logs", "handle", "save", "paused"}]
      BY <1>12 DEF PollFails, Goto, EndPoll, TypeOK
    <2>4. from' \in [Watchers -> Nat] /\ to' \in [Watchers -> Nat]
      BY <1>12 DEF PollFails, EndPoll, TypeOK
    <2> QED BY <1>12, <2>1, <2>2, <2>3, <2>4 DEF PollFails, TypeOK, chain, db
  <1>13. ASSUME NEW w \in Watchers, Crash(w) PROVE TypeOK'
    BY <1>13 DEF Crash, Disrupt, Goto, EndPoll, TypeOK, chain, db
  <1>14. CASE UNCHANGED vars
    BY <1>14 DEF vars, TypeOK, chain, db, poll, hist
  <1> QED BY <1>1, <1>2, <1>3, <1>4, <1>5, <1>6, <1>7, <1>8, <1>9, <1>10, <1>11, <1>12, <1>13, <1>14
          DEF Next, Step

-----------------------------------------------------------------------------
\* The chain: its final part stays as it is.
LEMMA FinalBlocksStay ==
  ASSUME TypeOK, Block \/ Reorg
  PROVE  /\ head' >= head /\ head' \in Nat
         /\ \A e \in Events, b \in 1 .. head - ReorgDepth : blockOf'[e] = b <=> blockOf[e] = b
  <1> USE IndexerAssumption
  <1>1. CASE Block
    BY <1>1 DEF Block, TypeOK
  <1>2. CASE Reorg
    <2> DEFINE recent == {b \in 1 .. head : b > head - ReorgDepth}
    <2>1. head' = head /\ head \in Nat
      BY <1>2 DEF Reorg, TypeOK
    <2>2. ASSUME NEW e \in Events, NEW b \in 1 .. head - ReorgDepth
          PROVE  blockOf'[e] = b <=> blockOf[e] = b
      <3>1. IF blockOf[e] \in recent THEN blockOf'[e] \in recent \cup {0}
                                     ELSE blockOf'[e] = blockOf[e]
        BY <1>2 DEF Reorg
      <3>2. b \notin recent \cup {0}
        BY <2>1
      <3> QED BY <3>1, <3>2
    <2> QED BY <2>1, <2>2
  <1> QED BY <1>1, <1>2

\* What is behind the buffer stays there as the chain grows.
LEMMA BehindLaterHead ==
  ASSUME NEW b \in Nat, NEW h \in Nat, NEW later \in Nat, later >= h,
         b <= h - CONFIRMATION_BUFFER
  PROVE  b <= later - CONFIRMATION_BUFFER
  BY IndexerAssumption

LEMMA ChainKeepsInv ==
  ASSUME IInv, Block \/ Reorg
  PROVE  IndexedIsFinal' /\ CursorOK' /\ \A w \in Watchers : PollOK(w)'
  <1> USE IndexerAssumption
  <1>0. TypeOK /\ head \in Nat
    BY DEF IInv, TypeOK
  <1>1. UNCHANGED <<db, poll, hist>>
    BY DEF Block, Reorg
  <1>2. \A e \in Events : Indexed(e)' <=> Indexed(e)
    BY <1>1 DEF Indexed, db
  <1>3. \A e \in Events : Settled(e)' <=> Settled(e)
    BY <1>1, <1>2 DEF Settled, hist
  <1>4. /\ head' >= head /\ head' \in Nat
        /\ \A e \in Events, b \in 1 .. head - ReorgDepth : blockOf'[e] = b <=> blockOf[e] = b
    BY <1>0, FinalBlocksStay
  <1>5. IndexedIsFinal'
    <2> SUFFICES ASSUME NEW e \in Events, Indexed(e) PROVE blockOf'[e] \in 1 .. head' - ReorgDepth
      BY <1>2 DEF IndexedIsFinal
    <2>1. blockOf[e] \in 1 .. head - ReorgDepth
      BY DEF IInv, IndexedIsFinal
    <2> QED BY <1>0, <1>4, <2>1
  \* Ranges within the buffer hold the same events.
  <1>6. ASSUME NEW a \in Nat \ {0}, NEW b \in Int, b >= a => b <= head - CONFIRMATION_BUFFER,
               NEW e \in Events
        PROVE  blockOf'[e] \in a .. b <=> blockOf[e] \in a .. b
    <2>1. \A n \in a .. b : n \in 1 .. head - ReorgDepth
      BY <1>0, <1>6
    <2> QED BY <1>4, <2>1
  <1>7. ASSUME NEW b \in Int, b >= StartBlock => b <= head - CONFIRMATION_BUFFER, CoveredTo(b)
        PROVE  \A e \in Events : blockOf'[e] \in StartBlock .. b => Settled(e)'
    BY <1>3, <1>6, <1>7 DEF CoveredTo
  <1>8. CursorOK'
    <2>1. cursor' = cursor /\ cursor \in Nat
      BY <1>0, <1>1 DEF db, TypeOK
    <2>2. \A e \in Events : blockOf'[e] \in StartBlock .. cursor => Settled(e)'
      BY <1>7, <2>1 DEF IInv, CursorOK
    <2>3. cursor' >= StartBlock - 1
      BY <2>1 DEF IInv, CursorOK
    <2>4. cursor' >= StartBlock => cursor' <= head' - CONFIRMATION_BUFFER
      <3>1. cursor' \in Nat /\ head' \in Nat /\ head \in Nat /\ head' >= head
        BY <1>0, <1>4, <2>1
      <3>2. cursor' >= StartBlock => cursor' <= head - CONFIRMATION_BUFFER
        BY <2>1 DEF IInv, CursorOK
      <3> QED BY <3>1, <3>2, BehindLaterHead
    <2> QED BY <2>1, <2>2, <2>3, <2>4 DEF CursorOK, CoveredTo
  <1>9. ASSUME NEW w \in Watchers PROVE PollOK(w)'
    <2>1. PollOK(w) /\ from[w] \in Nat /\ to[w] \in Nat /\ batch[w] \subseteq Events
      BY DEF IInv, TypeOK
    <2>2. pc' = pc /\ from' = from /\ to' = to /\ batch' = batch
      BY <1>1 DEF poll
    <2>3. pc[w] \in {"cursor", "logs", "handle", "save"} => to[w] \in 0 .. head' - CONFIRMATION_BUFFER
      BY <1>0, <1>4, <2>1 DEF PollOK
    <2>4. pc[w] \in {"logs", "handle", "save"} =>
            /\ from[w] \in StartBlock .. to[w]
            /\ \A e \in Events : blockOf'[e] \in StartBlock .. from[w] - 1 => Settled(e)'
      <3> SUFFICES ASSUME pc[w] \in {"logs", "handle", "save"}
                   PROVE  /\ from[w] \in StartBlock .. to[w]
                          /\ \A e \in Events :
                               blockOf'[e] \in StartBlock .. from[w] - 1 => Settled(e)'
        OBVIOUS
      <3>1. from[w] \in StartBlock .. to[w] /\ CoveredTo(from[w] - 1)
            /\ to[w] \in 0 .. head - CONFIRMATION_BUFFER
        BY <2>1 DEF PollOK
      <3> QED BY <1>0, <1>7, <3>1
    <2>5. pc[w] \in {"handle", "save"} =>
            \A e \in Events : blockOf'[e] \in from[w] .. to[w] <=> blockOf[e] \in from[w] .. to[w]
      <3> SUFFICES ASSUME pc[w] \in {"handle", "save"}, NEW e \in Events
                   PROVE  blockOf'[e] \in from[w] .. to[w] <=> blockOf[e] \in from[w] .. to[w]
        OBVIOUS
      <3>1. from[w] \in StartBlock .. to[w] /\ to[w] \in 0 .. head - CONFIRMATION_BUFFER
        BY <2>1 DEF PollOK
      <3> QED BY <1>0, <1>6, <3>1
    <2>6. \A e \in batch[w] : blockOf'[e] \in from[w] .. to[w]
      BY <2>1, <2>5 DEF PollOK
    <2>7. pc[w] \in {"handle", "save"} =>
            \A e \in Events : blockOf'[e] \in from[w] .. to[w] => Settled(e)' \/ e \in batch[w]
      BY <1>3, <2>1, <2>5 DEF PollOK
    <2> QED BY <2>1, <2>2, <2>3, <2>4, <2>6, <2>7 DEF PollOK, CoveredTo
  <1> QED BY <1>5, <1>8, <1>9

-----------------------------------------------------------------------------
\* The polls.  What is accounted for stays so.
LEMMA AccountingGrows ==
  ASSUME TypeOK, UNCHANGED blockOf,
         \A d \in Deposits : credits[d] > 0 => credits'[d] > 0,
         rows \subseteq rows', dropped \subseteq dropped', missed \subseteq missed'
  PROVE  Grows
  BY DEF Grows, Settled, Indexed, Events

LEMMA CoverageStays ==
  ASSUME Grows, UNCHANGED blockOf, NEW b, CoveredTo(b)
  PROVE  CoveredTo(b)'
  BY DEF Grows, CoveredTo

\* A poll that this step leaves where it was.
LEMMA PollStays ==
  ASSUME TypeOK, NEW w \in Watchers, PollOK(w), Grows, UNCHANGED chain,
         pc'[w] = pc[w], from'[w] = from[w], to'[w] = to[w], batch'[w] = batch[w]
  PROVE  PollOK(w)'
  <1>1. blockOf' = blockOf /\ head' = head
    BY DEF chain
  <1>2. pc[w] \in {"logs", "handle", "save"} =>
          \A e \in Events : blockOf'[e] \in StartBlock .. from'[w] - 1 => Settled(e)'
    BY <1>1 DEF PollOK, CoveredTo, Grows
  <1> QED BY <1>1, <1>2 DEF PollOK, CoveredTo, Grows

\* A poll that holds no range any more.
LEMMA PollEnds ==
  ASSUME NEW w \in Watchers, pc'[w] \in {"waiting", "paused"}, batch'[w] = {}
  PROVE  PollOK(w)'
  BY DEF PollOK

\* A write of one log, from the batch of one poll.
LEMMA WriteKeepsInv ==
  ASSUME IInv, NEW w \in Watchers, NEW e \in batch[w],
         \/ e \in Settlements /\ PersistSpendSettled(w, e)
         \/ e \in Deposits /\ HandleDeposit(w, e)
  PROVE  IndexedIsFinal' /\ CursorOK' /\ \A v \in Watchers : PollOK(v)'
  <1> USE IndexerAssumption
  <1>0. TypeOK /\ PollOK(w) /\ e \in Events /\ head \in Nat /\ pc[w] = "handle"
    BY DEF IInv, TypeOK, PersistSpendSettled, HandleDeposit
  <1>1. /\ UNCHANGED <<head, blockOf, cursor, pc, from, to, missed>>
        /\ batch' = [batch EXCEPT ![w] = @ \ {e}]
    BY DEF PersistSpendSettled, HandleDeposit, Handled, chain
  <1>2. Grows
    <2>1. CASE PersistSpendSettled(w, e)
      BY <1>0, <1>1, <2>1, AccountingGrows DEF PersistSpendSettled
    <2>2. CASE e \in Deposits /\ HandleDeposit(w, e)
      BY <1>0, <1>1, <2>2, AccountingGrows DEF HandleDeposit, TypeOK
    <2> QED BY <2>1, <2>2
  <1>3. Settled(e)'
    <2>1. CASE e \in Settlements /\ PersistSpendSettled(w, e)
      BY <2>1 DEF PersistSpendSettled, Settled, Indexed
    <2>2. CASE e \in Deposits /\ HandleDeposit(w, e)
      BY <1>0, <2>2 DEF HandleDeposit, Settled, Indexed, TypeOK
    <2> QED BY <2>1, <2>2
  <1>4. \A f \in Events \ {e} : Indexed(f)' <=> Indexed(f)
    <2>1. CASE e \in Settlements /\ PersistSpendSettled(w, e)
      BY <2>1 DEF PersistSpendSettled, Indexed
    <2>2. CASE e \in Deposits /\ HandleDeposit(w, e)
      BY <1>0, <2>2 DEF HandleDeposit, Indexed, TypeOK, Events
    <2> QED BY <2>1, <2>2
  <1>5. IndexedIsFinal'
    <2>1. blockOf[e] \in 1 .. head - ReorgDepth
      <3>1. blockOf[e] \in from[w] .. to[w] /\ from[w] \in StartBlock .. to[w]
            /\ to[w] \in 0 .. head - CONFIRMATION_BUFFER
        BY <1>0 DEF PollOK
      <3> QED BY <1>0, <3>1
    <2> QED BY <1>1, <1>4, <2>1 DEF IInv, IndexedIsFinal
  <1>6. CursorOK'
    <2>1. CoveredTo(cursor)'
      BY <1>1, <1>2 DEF IInv, CursorOK, CoveredTo, Grows
    <2> QED BY <1>1, <2>1 DEF IInv, CursorOK
  <1>7. ASSUME NEW v \in Watchers PROVE PollOK(v)'
    <2>1. CASE v # w
      <3>1. pc'[v] = pc[v] /\ from'[v] = from[v] /\ to'[v] = to[v] /\ batch'[v] = batch[v]
        BY <1>0, <1>1, <2>1 DEF TypeOK
      <3> QED BY <1>0, <1>1, <1>2, <3>1, PollStays DEF IInv, chain
    <2>2. CASE v = w
      <3>1. batch'[w] = batch[w] \ {e}
        BY <1>0, <1>1 DEF TypeOK
      <3>2. CoveredTo(from[w] - 1)'
        BY <1>0, <1>1, <1>2 DEF PollOK, CoveredTo, Grows
      <3> QED BY <1>0, <1>1, <1>2, <1>3, <2>2, <3>1, <3>2 DEF PollOK, Grows, CoveredTo
    <2> QED BY <2>1, <2>2
  <1> QED BY <1>5, <1>6, <1>7

\* A step of one poll that writes nothing but perhaps the cursor.
LEMMA OtherStepKeepsInv ==
  ASSUME IInv, TypeOK', NEW w \in Watchers,
         \/ Poll(w) \/ GetLastProcessedBlock(w) \/ FetchLogs(w) \/ HandledAll(w)
         \/ SetLastProcessedBlock(w) \/ PauseEnds(w) \/ PollFails(w) \/ Crash(w)
  PROVE  IndexedIsFinal' /\ CursorOK' /\ \A v \in Watchers : PollOK(v)'
  <1> USE IndexerAssumption
  <1>0. TypeOK /\ PollOK(w) /\ CursorOK /\ head \in Nat /\ cursor \in Nat
    BY DEF IInv, TypeOK
  <1>1. /\ UNCHANGED <<head, blockOf, credits, rows, dropped>> /\ missed \subseteq missed'
        /\ \A v \in Watchers \ {w} : /\ pc'[v] = pc[v] /\ from'[v] = from[v]
                                      /\ to'[v] = to[v] /\ batch'[v] = batch[v]
    BY <1>0 DEF Poll, GetLastProcessedBlock, FetchLogs, HandledAll, SetLastProcessedBlock,
                PauseEnds, PollFails, Crash, Goto, EndPoll, chain, db, hist, TypeOK
  <1>2. Grows
    BY <1>0, <1>1, AccountingGrows
  <1>3. IndexedIsFinal'
    BY <1>1 DEF IInv, IndexedIsFinal, Indexed
  <1>4. \A b : CoveredTo(b) => \A e \in Events : blockOf[e] \in StartBlock .. b => Settled(e)'
    BY <1>2 DEF CoveredTo, Grows
  <1>5. \A v \in Watchers \ {w} : PollOK(v)'
    BY <1>0, <1>1, <1>2, PollStays DEF IInv, chain
  <1>6. CASE SetLastProcessedBlock(w)
    <2>1. /\ cursor' = to[w] /\ pc[w] = "save" /\ pc'[w] = "waiting" /\ batch'[w] = batch[w]
      BY <1>0, <1>6 DEF SetLastProcessedBlock, Processed, Goto, EndPoll, TypeOK
    <2>2. /\ from[w] \in StartBlock .. to[w] /\ CoveredTo(from[w] - 1)
          /\ to[w] \in 0 .. head - CONFIRMATION_BUFFER /\ batch[w] = {}
          /\ \A e \in Events : blockOf[e] \in from[w] .. to[w] => Settled(e)
      BY <1>0, <2>1 DEF PollOK
    <2>3. \A e \in Events : blockOf[e] \in StartBlock .. to[w] => Settled(e)
      <3> SUFFICES ASSUME NEW e \in Events, blockOf[e] \in StartBlock .. to[w] PROVE Settled(e)
        OBVIOUS
      <3>1. blockOf[e] \in StartBlock .. from[w] - 1 \/ blockOf[e] \in from[w] .. to[w]
        BY <2>2
      <3> QED BY <2>2, <3>1 DEF CoveredTo
    <2>4. CursorOK'
      BY <1>0, <1>1, <1>2, <2>1, <2>2, <2>3 DEF CursorOK, CoveredTo, Grows
    <2>5. PollOK(w)'
      BY <2>1, <2>2, PollEnds
    <2> QED BY <1>3, <1>5, <2>4, <2>5
  <1>7. CASE ~SetLastProcessedBlock(w)
    <2>1. cursor' = cursor
      BY <1>7 DEF Poll, GetLastProcessedBlock, FetchLogs, HandledAll, PauseEnds, PollFails, Crash, db
    <2>2. CursorOK'
      BY <1>0, <1>1, <1>4, <2>1 DEF CursorOK, CoveredTo
    <2>3. CASE Poll(w)
      <3>1. pc'[w] = "cursor" /\ to'[w] = SafeBlock /\ batch'[w] = {}
        BY <1>0, <2>3 DEF Poll, Goto, TypeOK, PollOK
      <3>2. SafeBlock \in 0 .. head' - CONFIRMATION_BUFFER
        BY <1>0, <1>1, <2>3 DEF Poll, HasSafeBlock, SafeBlock
      <3>3. PollOK(w)'
        BY <3>1, <3>2 DEF PollOK
      <3> QED BY <1>3, <1>5, <2>2, <3>3
    <2>4. CASE GetLastProcessedBlock(w)
      <3>1. /\ batch'[w] = batch[w] /\ pc[w] = "cursor" /\ batch[w] = {}
            /\ to[w] \in 0 .. head - CONFIRMATION_BUFFER
        BY <1>0, <2>4 DEF GetLastProcessedBlock, PollOK
      <3>2. CASE NothingNew(w)
        <4>1. pc'[w] = "waiting"
          BY <1>0, <2>4, <3>2 DEF GetLastProcessedBlock, EndPoll, Goto, TypeOK
        <4>2. PollOK(w)'
          BY <3>1, <4>1, PollEnds
        <4> QED BY <1>3, <1>5, <2>2, <4>2
      <3>3. CASE ~NothingNew(w)
        <4>1. /\ from'[w] = cursor + 1 /\ to'[w] = to[w] /\ pc'[w] = "logs"
              /\ cursor + 1 <= to[w]
          BY <1>0, <2>4, <3>3 DEF GetLastProcessedBlock, NextBlock, NothingNew, Goto, TypeOK
        <4>2. from'[w] - 1 = cursor
          BY <1>0, <4>1
        <4>3. \A e \in Events : blockOf'[e] \in StartBlock .. from'[w] - 1 => Settled(e)'
          BY <1>0, <1>1, <1>4, <4>2 DEF CursorOK
        <4>4. from'[w] \in StartBlock .. to'[w]
          BY <1>0, <3>1, <4>1 DEF CursorOK
        <4>5. PollOK(w)'
          BY <1>1, <3>1, <4>1, <4>3, <4>4 DEF PollOK, CoveredTo
        <4> QED BY <1>3, <1>5, <2>2, <4>5
      <3> QED BY <3>2, <3>3
    <2>5. CASE FetchLogs(w)
      <3>1. /\ pc[w] = "logs" /\ pc'[w] = "handle" /\ from'[w] = from[w] /\ to'[w] = to[w]
            /\ batch'[w] = InRange(w) \ Unknown(w) /\ Unknown(w) \subseteq missed'
        BY <1>0, <2>5 DEF FetchLogs, Goto, TypeOK
      <3>2. from[w] \in StartBlock .. to[w] /\ CoveredTo(from[w] - 1)
            /\ to[w] \in 0 .. head - CONFIRMATION_BUFFER
        BY <1>0, <3>1 DEF PollOK
      <3>3. \A e \in Events : blockOf'[e] \in from[w] .. to[w] => Settled(e)' \/ e \in batch'[w]
        BY <1>1, <3>1 DEF InRange, Settled
      <3>4. \A e \in batch'[w] : blockOf'[e] \in from[w] .. to[w]
        BY <1>1, <3>1 DEF InRange
      <3>5. \A e \in Events : blockOf'[e] \in StartBlock .. from'[w] - 1 => Settled(e)'
        BY <1>1, <1>4, <3>1, <3>2
      <3>6. PollOK(w)'
        BY <1>1, <3>1, <3>2, <3>3, <3>4, <3>5 DEF PollOK, CoveredTo
      <3> QED BY <1>3, <1>5, <2>2, <3>6
    <2>6. CASE HandledAll(w)
      <3>1. /\ pc[w] = "handle" /\ pc'[w] = "save" /\ from'[w] = from[w] /\ to'[w] = to[w]
            /\ batch[w] = {} /\ batch'[w] = {}
        BY <1>0, <2>6 DEF HandledAll, Goto, TypeOK
      <3>2. \A e \in Events : blockOf'[e] \in StartBlock .. from'[w] - 1 => Settled(e)'
        BY <1>0, <1>1, <1>4, <3>1 DEF PollOK
      <3>3. \A e \in Events : blockOf'[e] \in from'[w] .. to'[w] => Settled(e)'
        BY <1>0, <1>1, <1>2, <3>1 DEF PollOK, Grows
      <3>4. PollOK(w)'
        BY <1>0, <1>1, <3>1, <3>2, <3>3 DEF PollOK, CoveredTo
      <3> QED BY <1>3, <1>5, <2>2, <3>4
    <2>7. CASE PauseEnds(w) \/ PollFails(w) \/ Crash(w)
      <3>1. pc'[w] \in {"waiting", "paused"} /\ batch'[w] = {}
        BY <1>0, <2>7 DEF PauseEnds, PollFails, Crash, Goto, EndPoll, TypeOK, PollOK
      <3> QED BY <1>3, <1>5, <2>2, <3>1, PollEnds
    <2> QED BY <1>7, <2>3, <2>4, <2>5, <2>6, <2>7
  <1> QED BY <1>6, <1>7

LEMMA InvHolds == Spec => []IInv
  <1>1. IInv /\ [Next]_vars => IInv'
    <2> SUFFICES ASSUME IInv, [Next]_vars PROVE IInv'
      OBVIOUS
    <2>1. TypeOK'
      BY NextKeepsTypes DEF IInv
    <2>2. CASE Block \/ Reorg
      BY <2>1, <2>2, ChainKeepsInv DEF IInv
    <2>3. ASSUME NEW s \in Safes, Register(s) PROVE IInv'
      BY <2>1, <2>3 DEF Register, chain, poll, hist, IInv, IndexedIsFinal, CursorOK, PollOK,
         CoveredTo, Settled, Indexed
    <2>4. ASSUME NEW w \in Watchers, NEW e \in Settlements, PersistSpendSettled(w, e) PROVE IInv'
      BY <2>1, <2>4, WriteKeepsInv DEF IInv, PersistSpendSettled
    <2>5. ASSUME NEW w \in Watchers, NEW d \in Deposits, HandleDeposit(w, d) PROVE IInv'
      BY <2>1, <2>5, WriteKeepsInv DEF IInv, HandleDeposit
    <2>6. ASSUME NEW w \in Watchers,
                 \/ Poll(w) \/ GetLastProcessedBlock(w) \/ FetchLogs(w) \/ HandledAll(w)
                 \/ SetLastProcessedBlock(w) \/ PauseEnds(w) \/ PollFails(w) \/ Crash(w)
          PROVE IInv'
      BY <2>1, <2>6, OtherStepKeepsInv DEF IInv
    <2>7. CASE UNCHANGED vars
      BY <2>1, <2>7 DEF vars, chain, db, poll, hist, IInv, IndexedIsFinal, CursorOK, PollOK,
         CoveredTo, Settled, Indexed
    <2> QED BY <2>2, <2>3, <2>4, <2>5, <2>6, <2>7 DEF Next, Step
  <1> QED BY <1>1, InitIsInv, PTL DEF Spec

-----------------------------------------------------------------------------
\* Every variable keeps its type: no poll reads below block 0 and the failures
\* it counts never pass the breaker's limit.
THEOREM TypeCorrect == Spec => []TypeOK
  <1>1. IInv => TypeOK
    BY DEF IInv
  <1> QED BY <1>1, InvHolds, PTL

\* The cursor leaves no event behind, for any number of watchers that overwrite
\* it, through reorganisations, failures and crashes.
THEOREM CursorCoversHolds == Spec => []CursorCovers
  <1>1. IInv => CursorCovers
    BY DEF IInv, CursorOK, CoveredTo, Settled, CursorCovers
  <1> QED BY <1>1, InvHolds, PTL

\* No reorganisation takes back what was indexed.
THEOREM IndexedIsFinalHolds == Spec => []IndexedIsFinal
  <1>1. IInv => IndexedIsFinal
    BY DEF IInv
  <1> QED BY <1>1, InvHolds, PTL

-----------------------------------------------------------------------------
\* A poll between the read of its logs and the write of the cursor.
Reading(w) == pc[w] \in {"handle", "save"}

\* While no poll was cut short and no range was read twice, only one poll reads,
\* it reads from the cursor on, and a credited deposit is behind the cursor or
\* was taken from that poll's batch.
OneReader ==
  /\ \A w \in Watchers : Reading(w) => from[w] = cursor + 1
  /\ \A v, w \in Watchers : Reading(v) /\ Reading(w) => v = w
CreditedBehind ==
  \A d \in Deposits : credits[d] > 0 =>
    \/ blockOf[d] <= cursor
    \/ \E w \in Watchers : Reading(w) /\ blockOf[d] \in from[w] .. to[w] /\ d \notin batch[w]
CreditedOnce == \A d \in Deposits : credits[d] <= 1

OnceInv == cut \/ overlap \/ (OneReader /\ CreditedBehind /\ CreditedOnce)

\* What a step needs to leave the three parts alone.
LEMMA OnceStays ==
  ASSUME OneReader, CreditedBehind, CreditedOnce, UNCHANGED <<cursor, credits>>,
         \A d \in Deposits : credits[d] > 0 => blockOf'[d] = blockOf[d],
         \A w \in Watchers : Reading(w)' <=> Reading(w),
         \A w \in Watchers :
           Reading(w) => from'[w] = from[w] /\ to'[w] = to[w] /\ batch'[w] \subseteq batch[w]
  PROVE  OneReader' /\ CreditedBehind' /\ CreditedOnce'
  <1>1. OneReader'
    BY DEF OneReader
  <1>2. CreditedBehind'
    <2> SUFFICES ASSUME NEW d \in Deposits, credits[d] > 0, ~(blockOf[d] <= cursor)
                 PROVE  \E w \in Watchers :
                          Reading(w)' /\ blockOf'[d] \in from'[w] .. to'[w] /\ d \notin batch'[w]
      BY DEF CreditedBehind
    <2>1. PICK w \in Watchers : Reading(w) /\ blockOf[d] \in from[w] .. to[w] /\ d \notin batch[w]
      BY DEF CreditedBehind
    <2>2. Reading(w)' /\ from'[w] = from[w] /\ to'[w] = to[w] /\ d \notin batch'[w]
      BY <2>1
    <2>3. blockOf'[d] \in from'[w] .. to'[w]
      BY <2>1, <2>2
    <2> QED BY <2>2, <2>3
  <1>3. CreditedOnce'
    BY DEF CreditedOnce
  <1> QED BY <1>1, <1>2, <1>3

\* A credit comes from the one batch that still held the deposit, so that it is
\* the deposit's first.
LEMMA CreditKeepsOnce ==
  ASSUME IInv, OneReader, CreditedBehind, CreditedOnce,
         NEW w \in Watchers, NEW d \in Deposits, HandleDeposit(w, d)
  PROVE  OneReader' /\ CreditedBehind' /\ CreditedOnce'
  <1>0. TypeOK /\ PollOK(w) /\ cursor \in Nat /\ from[w] \in Nat /\ to[w] \in Nat
    BY DEF IInv, TypeOK
  <1>1. /\ pc[w] = "handle" /\ d \in batch[w] /\ batch'[w] = batch[w] \ {d}
        /\ UNCHANGED <<blockOf, cursor, pc, from, to>>
        /\ credits' = [credits EXCEPT ![d] = @ + 1] \/ credits' = credits
        /\ \A v \in Watchers : batch'[v] \subseteq batch[v]
    BY <1>0 DEF HandleDeposit, Handled, TypeOK, chain
  <1>2. OneReader'
    BY <1>1 DEF OneReader, Reading
  <1>3. blockOf[d] \in from[w] .. to[w] /\ from[w] = cursor + 1
    BY <1>0, <1>1 DEF PollOK, OneReader, Reading
  <1>4. credits[d] = 0
    <2>1. ~(blockOf[d] <= cursor)
      BY <1>0, <1>3
    <2>2. ~(\E v \in Watchers : Reading(v) /\ blockOf[d] \in from[v] .. to[v] /\ d \notin batch[v])
      BY <1>1 DEF OneReader, Reading
    <2>3. ~(credits[d] > 0)
      BY <2>1, <2>2 DEF CreditedBehind
    <2> QED BY <1>0, <2>3 DEF TypeOK
  <1>5. credits'[d] \in {0, 1} /\ \A e \in Deposits \ {d} : credits'[e] = credits[e]
    BY <1>0, <1>1, <1>4 DEF TypeOK
  <1>6. CreditedOnce'
    BY <1>5 DEF CreditedOnce
  <1>7. CreditedBehind'
    <2> SUFFICES ASSUME NEW e \in Deposits, credits'[e] > 0, ~(blockOf[e] <= cursor)
                 PROVE  \E v \in Watchers :
                          Reading(v)' /\ blockOf'[e] \in from'[v] .. to'[v] /\ e \notin batch'[v]
      BY <1>1 DEF CreditedBehind
    <2>1. CASE e = d
      BY <1>1, <1>3, <2>1 DEF Reading
    <2>2. CASE e # d
      <3>1. PICK v \in Watchers : Reading(v) /\ blockOf[e] \in from[v] .. to[v] /\ e \notin batch[v]
        BY <1>5, <2>2 DEF CreditedBehind
      <3> QED BY <1>1, <3>1 DEF Reading
    <2> QED BY <2>1, <2>2
  <1> QED BY <1>2, <1>6, <1>7

\* The logs are read by a poll that no other poll disturbs, or overlap records it.
LEMMA FetchKeepsOnce ==
  ASSUME IInv, OneReader, CreditedBehind, CreditedOnce, NEW w \in Watchers, FetchLogs(w), ~overlap'
  PROVE  OneReader' /\ CreditedBehind' /\ CreditedOnce'
  <1>1. /\ pc[w] = "logs" /\ pc' = [pc EXCEPT ![w] = "handle"] /\ from[w] = cursor + 1
        /\ \A v \in Watchers \ {w} : ~Reading(v)
        /\ UNCHANGED <<blockOf, cursor, credits, from, to>>
    BY DEF FetchLogs, Goto, Reading, chain, db
  <1>2. \A v \in Watchers : Reading(v)' => v = w
    BY <1>1 DEF IInv, TypeOK, Reading
  <1>3. OneReader'
    BY <1>1, <1>2 DEF OneReader
  <1>4. \A d \in Deposits : credits[d] > 0 => blockOf[d] <= cursor
    BY <1>1 DEF CreditedBehind, Reading
  <1>5. CreditedBehind' /\ CreditedOnce'
    BY <1>1, <1>4 DEF CreditedBehind, CreditedOnce
  <1> QED BY <1>3, <1>5

\* The cursor moves over the range whose batch is done.
LEMMA SaveKeepsOnce ==
  ASSUME IInv, OneReader, CreditedBehind, CreditedOnce, NEW w \in Watchers, SetLastProcessedBlock(w)
  PROVE  OneReader' /\ CreditedBehind' /\ CreditedOnce'
  <1>0. /\ TypeOK /\ PollOK(w) /\ cursor \in Nat /\ to[w] \in Nat /\ blockOf \in [Events -> Nat]
        /\ Deposits \subseteq Events
    BY DEF IInv, TypeOK, Events
  <1>1. /\ pc[w] = "save" /\ pc' = [pc EXCEPT ![w] = "waiting"] /\ cursor' = to[w]
        /\ UNCHANGED <<blockOf, credits>>
    BY DEF SetLastProcessedBlock, Processed, EndPoll, Goto, chain
  <1>2. \A v \in Watchers : ~Reading(v)'
    BY <1>0, <1>1 DEF OneReader, Reading, TypeOK
  <1>3. from[w] = cursor + 1 /\ from[w] <= to[w]
    BY <1>0, <1>1 DEF PollOK, OneReader, Reading
  <1>4. OneReader' /\ CreditedOnce'
    BY <1>1, <1>2 DEF OneReader, CreditedOnce
  <1>5. ASSUME NEW d \in Deposits, credits[d] > 0 PROVE blockOf[d] <= to[w]
    <2>1. blockOf[d] \in Nat
      BY <1>0
    <2>2. CASE blockOf[d] <= cursor
      BY <1>0, <1>3, <2>1, <2>2
    <2>3. CASE ~(blockOf[d] <= cursor)
      <3>1. PICK v \in Watchers : Reading(v) /\ blockOf[d] \in from[v] .. to[v]
        BY <1>5, <2>3 DEF CreditedBehind
      <3>2. v = w
        BY <1>1, <3>1 DEF OneReader, Reading
      <3> QED BY <3>1, <3>2
    <2> QED BY <2>2, <2>3
  <1>6. CreditedBehind'
    BY <1>1, <1>5 DEF CreditedBehind
  <1> QED BY <1>4, <1>6

LEMMA NextKeepsOnce == ASSUME IInv, OnceInv, [Next]_vars PROVE OnceInv'
  <1> SUFFICES ASSUME ~cut', ~overlap' PROVE OneReader' /\ CreditedBehind' /\ CreditedOnce'
    BY DEF OnceInv
  <1>0. TypeOK
    BY DEF IInv
  <1>1. ~cut /\ ~overlap
    <2>1. cut => cut'
      BY DEF Next, vars, hist, Block, Reorg, Register, Step, Poll, GetLastProcessedBlock, FetchLogs,
             PersistSpendSettled, HandleDeposit, HandledAll, SetLastProcessedBlock, PollFails,
             PauseEnds, Crash
    <2>2. overlap => overlap'
      BY DEF Next, vars, hist, Block, Reorg, Register, Step, Poll, GetLastProcessedBlock, FetchLogs,
             PersistSpendSettled, HandleDeposit, HandledAll, SetLastProcessedBlock, PollFails,
             PauseEnds, Crash
    <2> QED BY <2>1, <2>2
  <1>2. OneReader /\ CreditedBehind /\ CreditedOnce
    BY <1>1 DEF OnceInv
  <1>3. CASE Block \/ Reorg
    <2>1. UNCHANGED <<cursor, credits, pc, from, to, batch>>
      BY <1>3 DEF Block, Reorg, db, poll
    <2>2. ASSUME NEW d \in Deposits, credits[d] > 0 PROVE blockOf'[d] = blockOf[d]
      <3>1. d \in Events /\ blockOf[d] \in 1 .. head - ReorgDepth
        BY <2>2 DEF IInv, IndexedIsFinal, Indexed, Events
      <3> QED BY <1>0, <1>3, <3>1, FinalBlocksStay
    <2>3. \A w \in Watchers : Reading(w)' <=> Reading(w)
      BY <2>1 DEF Reading
    <2> QED BY <1>2, <2>1, <2>2, <2>3, OnceStays
  <1>4. ASSUME NEW w \in Watchers, NEW d \in Deposits, HandleDeposit(w, d)
        PROVE  OneReader' /\ CreditedBehind' /\ CreditedOnce'
    BY <1>2, <1>4, CreditKeepsOnce
  <1>5. ASSUME NEW w \in Watchers, FetchLogs(w) PROVE OneReader' /\ CreditedBehind' /\ CreditedOnce'
    BY <1>2, <1>5, FetchKeepsOnce
  <1>6. ASSUME NEW w \in Watchers, SetLastProcessedBlock(w)
        PROVE  OneReader' /\ CreditedBehind' /\ CreditedOnce'
    BY <1>2, <1>6, SaveKeepsOnce
  <1>7. ASSUME NEW w \in Watchers, Poll(w) \/ GetLastProcessedBlock(w) \/ HandledAll(w)
                                   \/ PauseEnds(w) \/ PollFails(w) \/ Crash(w)
        PROVE  OneReader' /\ CreditedBehind' /\ CreditedOnce'
    <2>1. UNCHANGED <<cursor, credits, blockOf>>
      BY <1>7 DEF Poll, GetLastProcessedBlock, HandledAll, PauseEnds, PollFails, Crash, chain, db
    <2>2. /\ Reading(w)' <=> Reading(w)
          /\ Reading(w) => from'[w] = from[w] /\ to'[w] = to[w] /\ batch'[w] = batch[w]
      <3>1. CASE Poll(w) \/ GetLastProcessedBlock(w) \/ PauseEnds(w)
        BY <1>0, <3>1 DEF Poll, GetLastProcessedBlock, PauseEnds, Goto, EndPoll, Reading, TypeOK
      <3>2. CASE HandledAll(w)
        BY <1>0, <3>2 DEF HandledAll, Goto, Reading, TypeOK
      <3>3. CASE PollFails(w)
        <4>1. pc[w] \in {"waiting", "cursor", "logs"}
          BY <3>3 DEF PollFails
        <4>2. pc'[w] \in {"waiting", "paused"}
          BY <1>0, <3>3 DEF PollFails, EndPoll, Goto, TypeOK
        <4> QED BY <4>1, <4>2 DEF Reading
      <3>4. CASE Crash(w)
        <4>1. pc[w] \notin {"handle", "save"}
          BY <3>4 DEF Crash
        <4>2. pc'[w] = "waiting"
          BY <1>0, <3>4 DEF Crash, EndPoll, Goto, TypeOK
        <4> QED BY <4>1, <4>2 DEF Reading
      <3> QED BY <1>7, <3>1, <3>2, <3>3, <3>4
    <2>3. \A v \in Watchers \ {w} : /\ pc'[v] = pc[v] /\ from'[v] = from[v]
                                    /\ to'[v] = to[v] /\ batch'[v] = batch[v]
      BY <1>0, <1>7 DEF Poll, GetLastProcessedBlock, HandledAll, PauseEnds, PollFails, Crash, Goto,
         EndPoll, TypeOK
    <2>4. \A v \in Watchers : Reading(v)' <=> Reading(v)
      BY <2>2, <2>3 DEF Reading
    <2>5. \A v \in Watchers :
            Reading(v) => from'[v] = from[v] /\ to'[v] = to[v] /\ batch'[v] \subseteq batch[v]
      BY <2>2, <2>3
    <2> QED BY <1>2, <2>1, <2>4, <2>5, OnceStays
  <1>8. ASSUME NEW s \in Safes, Register(s) PROVE OneReader' /\ CreditedBehind' /\ CreditedOnce'
    BY <1>2, <1>8, OnceStays DEF Register, chain, poll, Reading
  <1>9. ASSUME NEW w \in Watchers, NEW e \in Settlements, PersistSpendSettled(w, e)
        PROVE  OneReader' /\ CreditedBehind' /\ CreditedOnce'
    <2>1. UNCHANGED <<cursor, credits, blockOf, pc, from, to>>
          /\ \A v \in Watchers : batch'[v] \subseteq batch[v]
      BY <1>0, <1>9 DEF PersistSpendSettled, Handled, chain, TypeOK
    <2> QED BY <1>2, <2>1, OnceStays DEF Reading
  <1>10. CASE UNCHANGED vars
    BY <1>2, <1>10, OnceStays DEF vars, chain, db, poll, Reading
  <1> QED BY <1>3, <1>4, <1>5, <1>6, <1>7, <1>8, <1>9, <1>10 DEF Next, Step

\* A deposit is credited twice only where a poll was cut short or two polls read
\* one range: in every other run, however many processes poll, fail and crash,
\* the ledger has each deposit at most once.
THEOREM CreditedTwiceOnlyIfHolds == Spec => []CreditedTwiceOnlyIf
  <1>1. Init => OnceInv
    BY DEF Init, OnceInv, OneReader, CreditedBehind, CreditedOnce, Reading
  <1>2. IInv /\ OnceInv /\ [Next]_vars => OnceInv'
    BY NextKeepsOnce
  <1>3. IInv /\ OnceInv => CreditedTwiceOnlyIf
    <2> SUFFICES ASSUME IInv, OnceInv, NEW d \in Deposits, credits[d] > 1 PROVE cut \/ overlap
      BY DEF CreditedTwiceOnlyIf
    <2>1. credits[d] \in Nat
      BY DEF IInv, TypeOK
    <2> QED BY <2>1 DEF OnceInv, CreditedOnce
  <1> QED BY <1>1, <1>2, <1>3, InvHolds, PTL DEF Spec

-----------------------------------------------------------------------------
(* The cache synchronisation *)

\* What an entry, cached or about to be written, may differ in from the spends
\* that were made.
Accounted(entry) ==
  \A p \in Period : entry.spent[p] <= total /\ total <= entry.spent[p] + atRisk + before

\* The entry the fallback of an authorization of n holds, which counts it before
\* it is charged.
AccountedWith(entry, n) ==
  \A p \in Period : entry.spent[p] <= total + n /\ total + n <= entry.spent[p] + atRisk + before

\* The writers hold entries no worse than the cached one, and while there is no
\* entry nothing is charged.
LimitsInv ==
  /\ LimitsKept
  /\ \A w \in Writers : Holding(w) /\ ~bare => held[w].limit = Limit
SpentInv ==
  /\ SpentAccounted
  /\ \A w \in Writers : stage[w] = "write" => Accounted(held[w])
  /\ \A w \in Writers, s \in Spends :
       stage[w] = "exec" /\ s \in paying[w] => AccountedWith(held[w], AmountOf[s])
  /\ before <= total /\ (authCache = Missing => total = before)

LEMMA NotMissing == ASSUME NEW entry \in AuthorizationCache PROVE entry # Missing
  BY CacheSyncAssumption

\* A charge that is not refused keeps the entry's balance natural.
LEMMA ChargedType ==
  ASSUME NEW entry \in AuthorizationCache, NEW n \in Nat, ~Refuses(entry, n)
  PROVE  Charged(entry, n) \in AuthorizationCache
  BY DEF AuthorizationCache, Refuses, Charged

\* The rebuilt entry has the type of the one it replaces.
LEMMA RebuiltType ==
  ASSUME authCache \in AuthorizationCache \cup {Missing}, NEW n \in Nat
  PROVE  [usdcBalance |-> n, spent |-> PreservedSpent(authCache),
          limit |-> PreservedLimit(authCache)] \in AuthorizationCache
  BY CacheSyncAssumption DEF AuthorizationCache, PreservedSpent, PreservedLimit

LEMMA SyncKeepsTypes == SyncTypeOK /\ [SyncNext]_syncVars => SyncTypeOK'
  <1> SUFFICES ASSUME SyncTypeOK, [SyncNext]_syncVars PROVE SyncTypeOK'
    OBVIOUS
  <1> USE CacheSyncAssumption
  <1>1. CASE Deposit \/ Credit \/ Expire
    BY <1>1 DEF Deposit, Credit, Expire, SyncTypeOK, Holding, counts, syncHist
  <1>2. ASSUME NEW s \in Spends, Settle(s) PROVE SyncTypeOK'
    BY <1>2 DEF Settle, SyncTypeOK, Holding, counts, syncHist
  <1>3. ASSUME NEW s \in Spends, Spend(s) PROVE SyncTypeOK'
    <2>1. authCache' \in AuthorizationCache
      BY <1>3, ChargedType DEF Spend, SyncTypeOK
    <2> QED BY <1>3, <2>1 DEF Spend, Count, SyncTypeOK, Holding, counts
  <1>4. ASSUME NEW w \in Writers, ReadForRefresh(w) PROVE SyncTypeOK'
    <2> DEFINE entry == [usdcBalance |-> ledger, spent |-> [p \in Period |-> 0], limit |-> Limit]
    <2>1. entry \in AuthorizationCache /\ entry # Missing
      BY NotMissing DEF SyncTypeOK, AuthorizationCache
    <2>2. held' \in [Writers -> AuthorizationCache \cup {Missing}] /\ held'[w] # Missing
      BY <1>4, <2>1 DEF ReadForRefresh, Hold, SyncTypeOK
    <2> QED BY <1>4, <2>1, <2>2
      DEF ReadForRefresh, Hold, MoveTo, SyncTypeOK, Holding, counts, syncHist
  <1>5. ASSUME NEW w \in Writers, ReadBalance(w) PROVE SyncTypeOK'
    BY <1>5 DEF ReadBalance, MoveTo, SyncTypeOK, Holding, counts, syncHist
  <1>6. ASSUME NEW w \in Writers, GetAuthCache(w) PROVE SyncTypeOK'
    <2> DEFINE entry == [usdcBalance |-> FreshBalance(w), spent |-> PreservedSpent(authCache),
                         limit |-> PreservedLimit(authCache)]
    <2>1. entry \in AuthorizationCache /\ entry # Missing
      BY RebuiltType, NotMissing DEF SyncTypeOK, FreshBalance
    <2>2. held' \in [Writers -> AuthorizationCache \cup {Missing}] /\ held'[w] # Missing
      BY <1>6, <2>1 DEF GetAuthCache, Hold, SyncTypeOK
    <2>3. \A v \in Writers : Holding(v)' => held'[v] # Missing
      BY <1>6, <2>2 DEF GetAuthCache, Hold, MoveTo, SyncTypeOK, Holding
    <2> QED BY <1>6, <2>2, <2>3 DEF GetAuthCache, MoveTo, SyncTypeOK, counts
  <1>7. ASSUME NEW w \in Writers, SetAuthCache(w) PROVE SyncTypeOK'
    BY <1>7 DEF SetAuthCache, Hold, MoveTo, SyncTypeOK, Holding, counts, syncHist
  <1>8. ASSUME NEW w \in Writers, WriterFails(w) PROVE SyncTypeOK'
    BY <1>8 DEF WriterFails, Hold, MoveTo, SyncTypeOK, Holding, counts, syncHist
  <1>9. CASE UNCHANGED syncVars
    BY <1>9 DEF syncVars, SyncTypeOK, Holding, counts, syncHist
  <1>10. ASSUME NEW w \in Writers, NEW s \in Spends, ScriptMisses(w, s) PROVE SyncTypeOK'
    BY <1>10 DEF ScriptMisses, MoveTo, SyncTypeOK, Holding, counts, syncHist
  <1>11. ASSUME NEW w \in Writers, GivesUp(w) \/ ExecRefused(w) PROVE SyncTypeOK'
    BY <1>11 DEF GivesUp, ExecRefused, Hold, MoveTo, SyncTypeOK, Holding, counts, syncHist
  <1>12. ASSUME NEW w \in Writers, GetWatched(w) PROVE SyncTypeOK'
    <2>1. PICK s \in Spends :
            ~Refuses(authCache, AmountOf[s]) /\ Hold(w, Charged(authCache, AmountOf[s]))
      BY <1>12 DEF GetWatched, SyncTypeOK
    <2>2. Charged(authCache, AmountOf[s]) \in AuthorizationCache
      BY <1>12, <2>1, ChargedType DEF GetWatched, SyncTypeOK
    <2>3. /\ held' \in [Writers -> AuthorizationCache \cup {Missing}] /\ held'[w] # Missing
          /\ \A v \in Writers \ {w} : held'[v] = held[v]
      BY <2>1, <2>2, NotMissing DEF Hold, SyncTypeOK
    <2> QED BY <1>12, <2>3 DEF GetWatched, MoveTo, SyncTypeOK, Holding, counts, syncHist
  <1>13. ASSUME NEW w \in Writers, Exec(w) PROVE SyncTypeOK'
    <2>1. PICK s \in Spends : Count(s, Writers \ {w})
      BY <1>13 DEF Exec, SyncTypeOK
    <2>2. /\ settled \subseteq charged' /\ charged' \subseteq Spends
          /\ total' \in Nat /\ atRisk' \in Nat /\ before' \in Nat /\ bare' \in BOOLEAN
      BY <2>1 DEF Count, SyncTypeOK
    <2> QED BY <1>13, <2>2 DEF Exec, Hold, MoveTo, SyncTypeOK, Holding, counts
  <1> QED BY <1>1, <1>2, <1>3, <1>4, <1>5, <1>6, <1>7, <1>8, <1>9, <1>10, <1>11, <1>12, <1>13
    DEF SyncNext, Sync, Fallback

\* Every variable keeps its type: no order of writers and spends takes the
\* cached balance below zero.
THEOREM SyncTypeCorrect == SyncSpec => []SyncTypeOK
  <1>1. SyncInit => SyncTypeOK
    <2>1. 0 \in 0 .. MaxDeposits /\ 0 \in 0 .. MaxFailures /\ 0 \in 0 .. MaxExpiries
      BY CacheSyncAssumption
    <2>2. CASE SyncInit
      <3>1. /\ stage = [w \in Writers |-> "idle"] /\ balance = [w \in Writers |-> 0]
            /\ held = [w \in Writers |-> Missing] /\ paying = [w \in Writers |-> {}]
        BY <2>2 DEF SyncInit
      <3>2. \A w \in Writers : ~Holding(w) /\ stage[w] \notin {"fallback", "exec"}
        BY <3>1 DEF Holding
      <3>3. /\ stage \in [Writers -> {"idle", "entry", "write", "fallback", "exec"}]
            /\ balance \in [Writers -> Nat]
            /\ held \in [Writers -> AuthorizationCache \cup {Missing}]
            /\ paying \in [Writers -> SUBSET Spends]
        BY <3>1
      <3>4. /\ deposits \in 0 .. MaxDeposits /\ failedSyncs \in 0 .. MaxFailures
            /\ expiries \in 0 .. MaxExpiries
        BY <2>1, <2>2 DEF SyncInit
      <3>5. /\ onChain \in Nat /\ ledger \in Nat
            /\ total \in Nat /\ atRisk \in Nat /\ before \in Nat /\ bare \in BOOLEAN
        BY <2>2, CacheSyncAssumption DEF SyncInit
      <3> QED BY <2>2, <3>2, <3>3, <3>4, <3>5 DEF SyncInit, SyncTypeOK
    <2> QED BY <2>2
  <1> QED BY <1>1, SyncKeepsTypes, PTL DEF SyncSpec

-----------------------------------------------------------------------------
\* A card's limits are lost only where the Watcher rebuilds an absent entry.
THEOREM LimitsKeptHolds == SyncSpec => []LimitsKept
  <1>1. SyncInit => LimitsInv
    BY DEF SyncInit, LimitsInv, LimitsKept, Holding
  <1>2. SyncTypeOK /\ LimitsInv /\ [SyncNext]_syncVars => LimitsInv'
    <2> SUFFICES ASSUME SyncTypeOK, LimitsInv, [SyncNext]_syncVars PROVE LimitsInv'
      OBVIOUS
    <2> USE DEF LimitsInv, LimitsKept, Holding
    <2>1. CASE Deposit \/ Credit \/ Expire
      BY <2>1 DEF Deposit, Credit, Expire, syncHist
    <2>2. ASSUME NEW s \in Spends, Settle(s) PROVE LimitsInv'
      BY <2>2 DEF Settle, syncHist
    <2>3. ASSUME NEW s \in Spends, Spend(s) PROVE LimitsInv'
      BY <2>3 DEF Spend, Count, Charged
    <2>4. ASSUME NEW w \in Writers, ReadForRefresh(w) PROVE LimitsInv'
      BY <2>4 DEF ReadForRefresh, Hold, MoveTo, syncHist, SyncTypeOK
    <2>5. ASSUME NEW w \in Writers, ReadBalance(w) PROVE LimitsInv'
      BY <2>5 DEF ReadBalance, MoveTo, syncHist, SyncTypeOK
    <2>6. ASSUME NEW w \in Writers, GetAuthCache(w) PROVE LimitsInv'
      BY <2>6 DEF GetAuthCache, Hold, MoveTo, PreservedLimit, SyncTypeOK
    <2>7. ASSUME NEW w \in Writers, SetAuthCache(w) PROVE LimitsInv'
      BY <2>7 DEF SetAuthCache, Hold, MoveTo, syncHist, SyncTypeOK
    <2>8. ASSUME NEW w \in Writers, WriterFails(w) PROVE LimitsInv'
      BY <2>8 DEF WriterFails, Hold, MoveTo, syncHist, SyncTypeOK
    <2>9. CASE UNCHANGED syncVars
      BY <2>9 DEF syncVars, syncHist
    <2>10. ASSUME NEW w \in Writers, NEW s \in Spends, ScriptMisses(w, s) PROVE LimitsInv'
      BY <2>10 DEF ScriptMisses, MoveTo, syncHist, SyncTypeOK
    <2>11. ASSUME NEW w \in Writers, GivesUp(w) \/ ExecRefused(w) PROVE LimitsInv'
      BY <2>11 DEF GivesUp, ExecRefused, Hold, MoveTo, syncHist, SyncTypeOK
    <2>12. ASSUME NEW w \in Writers, GetWatched(w) PROVE LimitsInv'
      BY <2>12 DEF GetWatched, Charged, Hold, MoveTo, syncHist, SyncTypeOK
    <2>13. ASSUME NEW w \in Writers, Exec(w) PROVE LimitsInv'
      BY <2>13 DEF Exec, Count, Hold, MoveTo, SyncTypeOK
    <2> QED BY <2>1, <2>2, <2>3, <2>4, <2>5, <2>6, <2>7, <2>8, <2>9, <2>10, <2>11, <2>12, <2>13
      DEF SyncNext, Sync, Fallback
  <1>3. LimitsInv => LimitsKept
    BY DEF LimitsInv
  <1> QED BY <1>1, <1>2, <1>3, SyncTypeCorrect, PTL DEF SyncSpec

-----------------------------------------------------------------------------
\* The spends an entry counts are those of the history: none is counted twice,
\* and it misses only what fell between another writer's read and its write, the
\* fallback of an authorization among them, or was charged before the entry last
\* expired.
THEOREM SpentAccountedHolds == SyncSpec => []SpentAccounted
  <1>1. SyncInit => SpentInv
    BY DEF SyncInit, SpentInv, SpentAccounted
  <1>2. SyncTypeOK /\ SyncTypeOK' /\ SpentInv /\ [SyncNext]_syncVars => SpentInv'
    <2> SUFFICES ASSUME SyncTypeOK, SyncTypeOK', SpentInv, [SyncNext]_syncVars PROVE SpentInv'
      OBVIOUS
    <2> USE DEF SpentInv, SpentAccounted, Accounted, AccountedWith
    <2>0. /\ total \in Nat /\ atRisk \in Nat /\ before \in Nat
          /\ total' \in Nat /\ atRisk' \in Nat /\ before' \in Nat
          /\ \A s \in Spends : AmountOf[s] \in Nat
          /\ \A w \in Writers : Holding(w) => held[w] \in AuthorizationCache
          /\ \A w \in Writers : Holding(w) =>
               \A p \in Period : held[w].spent[p] \in Nat
          /\ authCache # Missing => \A p \in Period : authCache.spent[p] \in Nat
      BY CacheSyncAssumption DEF SyncTypeOK, AuthorizationCache
    <2>1. CASE Deposit \/ Credit
      BY <2>1 DEF Deposit, Credit, syncHist
    <2>2. CASE Expire
      <3>1. /\ before' = total /\ total' = total /\ authCache' = Missing
            /\ UNCHANGED <<stage, held, paying, atRisk>>
        BY <2>2 DEF Expire
      <3>2. ASSUME NEW w \in Writers, stage'[w] = "write" PROVE Accounted(held[w])'
        BY <2>0, <3>1, <3>2 DEF Holding
      <3>3. ASSUME NEW w \in Writers, NEW s \in Spends, stage'[w] = "exec", s \in paying'[w]
            PROVE  AccountedWith(held[w], AmountOf[s])'
        <4>1. stage[w] = "exec" /\ s \in paying[w] /\ held'[w] = held[w]
          BY <3>1, <3>3
        <4>2. /\ AccountedWith(held[w], AmountOf[s]) /\ before <= total
              /\ total \in Nat /\ atRisk \in Nat /\ before \in Nat /\ AmountOf[s] \in Nat
          BY <2>0, <4>1
        <4>3. \A p \in Period : held[w].spent[p] \in Nat
          BY <2>0, <4>1 DEF Holding
        <4> HIDE DEF SpentInv, SpentAccounted, Accounted
        <4> QED BY <3>1, <4>1, <4>2, <4>3
      <3> QED BY <2>0, <3>1, <3>2, <3>3
    <2>3. ASSUME NEW s \in Spends, Settle(s) PROVE SpentInv'
      BY <2>3 DEF Settle, syncHist
    <2>4. ASSUME NEW s \in Spends, Spend(s) PROVE SpentInv'
      <3>1. /\ authCache # Missing /\ authCache' = Charged(authCache, AmountOf[s])
            /\ Count(s, Writers) /\ UNCHANGED <<stage, held, paying>>
        BY <2>4 DEF Spend
      <3>2. /\ authCache' # Missing
            /\ \A p \in Period : authCache'.spent[p] = authCache.spent[p] + AmountOf[s]
        BY <2>0, <2>4, ChargedType, NotMissing DEF Spend, Charged, SyncTypeOK
      <3>3. /\ SpentAccounted' /\ total' = total + AmountOf[s] /\ before' = before
            /\ atRisk <= atRisk'
        BY <2>0, <3>1, <3>2 DEF Count
      <3>4. \A w \in Writers : Holding(w) => atRisk' = atRisk + AmountOf[s]
        BY <3>1 DEF Count
      <3> QED BY <2>0, <3>1, <3>2, <3>3, <3>4 DEF Holding
    <2>5. ASSUME NEW w \in Writers, ReadForRefresh(w) PROVE SpentInv'
      <3>1. /\ held' = [held EXCEPT ![w] = [usdcBalance |-> ledger,
                          spent |-> [p \in Period |-> 0], limit |-> Limit]]
            /\ stage' = [stage EXCEPT ![w] = "write"]
            /\ authCache = Missing /\ UNCHANGED <<authCache, paying, total, atRisk, before>>
        BY <2>5 DEF ReadForRefresh, Hold, MoveTo, syncHist
      <3>2. Accounted(held[w])'
        BY <2>0, <3>1 DEF SyncTypeOK
      <3> QED BY <3>1, <3>2 DEF SyncTypeOK
    <2>6. ASSUME NEW w \in Writers, ReadBalance(w) PROVE SpentInv'
      BY <2>6 DEF ReadBalance, MoveTo, syncHist, SyncTypeOK
    <2>7. ASSUME NEW w \in Writers, GetAuthCache(w) PROVE SpentInv'
      <3>1. /\ held'[w].spent = PreservedSpent(authCache) /\ stage'[w] = "write"
            /\ \A v \in Writers \ {w} : held'[v] = held[v] /\ stage'[v] = stage[v]
            /\ UNCHANGED <<authCache, paying, total, atRisk, before>>
        BY <2>7 DEF GetAuthCache, Hold, MoveTo, SyncTypeOK
      <3>2. Accounted(held[w])'
        BY <2>0, <3>1 DEF PreservedSpent
      <3> QED BY <3>1, <3>2
    <2>8. ASSUME NEW w \in Writers, SetAuthCache(w) PROVE SpentInv'
      <3>1. /\ authCache' = held[w] /\ Accounted(held[w]) /\ held[w] # Missing
            /\ \A v \in Writers : Holding(v)' => stage'[v] = stage[v] /\ held'[v] = held[v]
            /\ UNCHANGED <<paying, total, atRisk, before>>
        BY <2>8 DEF SetAuthCache, Hold, MoveTo, Holding, syncHist, SyncTypeOK
      <3> QED BY <3>1 DEF Holding
    <2>9. ASSUME NEW w \in Writers, WriterFails(w) PROVE SpentInv'
      BY <2>9 DEF WriterFails, Hold, MoveTo, syncHist, SyncTypeOK
    <2>10. CASE UNCHANGED syncVars
      BY <2>10 DEF syncVars, syncHist
    <2>11. ASSUME NEW w \in Writers, NEW s \in Spends, ScriptMisses(w, s) PROVE SpentInv'
      BY <2>11 DEF ScriptMisses, MoveTo, syncHist, SyncTypeOK
    <2>12. ASSUME NEW w \in Writers, GivesUp(w) \/ ExecRefused(w) PROVE SpentInv'
      BY <2>12 DEF GivesUp, ExecRefused, Hold, MoveTo, syncHist, SyncTypeOK
    <2>13. ASSUME NEW w \in Writers, GetWatched(w) PROVE SpentInv'
      <3>1. PICK s \in Spends : s \in paying[w] /\ Hold(w, Charged(authCache, AmountOf[s]))
        BY <2>13 DEF GetWatched, SyncTypeOK
      <3>2. paying[w] = {s}
        BY <2>13, <3>1 DEF GetWatched, SyncTypeOK
      <3>3. /\ held'[w] = Charged(authCache, AmountOf[s]) /\ stage'[w] = "exec"
            /\ \A v \in Writers \ {w} : held'[v] = held[v] /\ stage'[v] = stage[v]
            /\ authCache # Missing /\ UNCHANGED <<authCache, paying, total, atRisk, before>>
        BY <2>13, <3>1 DEF GetWatched, Hold, MoveTo, syncHist, SyncTypeOK
      <3>4. AccountedWith(held[w], AmountOf[s])'
        BY <2>0, <3>3 DEF Charged
      <3> QED BY <3>2, <3>3, <3>4
    <2>14. ASSUME NEW w \in Writers, Exec(w) PROVE SpentInv'
      <3>1. PICK s \in Spends : s \in paying[w] /\ Count(s, Writers \ {w})
        BY <2>14 DEF Exec, SyncTypeOK
      <3>2. /\ authCache' = held[w] /\ held[w] # Missing /\ stage[w] = "exec" /\ stage'[w] = "idle"
            /\ \A v \in Writers \ {w} : /\ held'[v] = held[v] /\ stage'[v] = stage[v]
                                        /\ paying'[v] = paying[v]
        BY <2>14 DEF Exec, Hold, MoveTo, Holding, SyncTypeOK
      <3>3. AccountedWith(held[w], AmountOf[s])
        BY <3>1, <3>2
      <3>4. total' = total + AmountOf[s] /\ before' = before /\ atRisk <= atRisk'
        BY <2>0, <3>1 DEF Count
      <3>5. SpentAccounted'
        BY <2>0, <3>2, <3>3, <3>4 DEF Holding
      <3>6. \A v \in Writers \ {w} : Holding(v) => atRisk' = atRisk + AmountOf[s]
        BY <3>1 DEF Count
      <3>7. ASSUME NEW v \in Writers, stage'[v] = "write" PROVE Accounted(held[v])'
        BY <2>0, <3>2, <3>4, <3>6, <3>7 DEF Holding
      <3>8. ASSUME NEW v \in Writers, NEW u \in Spends, stage'[v] = "exec", u \in paying'[v]
            PROVE  AccountedWith(held[v], AmountOf[u])'
        <4>1. /\ v # w /\ Holding(v) /\ AccountedWith(held[v], AmountOf[u])
              /\ held'[v] = held[v]
          BY <3>2, <3>8 DEF Holding
        <4>2. /\ total' = total + AmountOf[s] /\ before' = before /\ atRisk' = atRisk + AmountOf[s]
              /\ total \in Nat /\ atRisk \in Nat /\ before \in Nat
              /\ AmountOf[s] \in Nat /\ AmountOf[u] \in Nat
          BY <2>0, <3>4, <3>6, <4>1
        <4>3. \A p \in Period : held[v].spent[p] \in Nat
          BY <2>0, <4>1
        <4> HIDE DEF SpentInv, SpentAccounted, Accounted
        <4> QED BY <4>1, <4>2, <4>3
      <3> QED BY <2>0, <3>2, <3>4, <3>5, <3>7, <3>8
    <2> QED BY <2>1, <2>2, <2>3, <2>4, <2>5, <2>6, <2>7, <2>8, <2>9, <2>10, <2>11, <2>12, <2>13,
               <2>14 DEF SyncNext, Sync, Fallback
  <1>3. SpentInv => SpentAccounted
    BY DEF SpentInv
  <1> QED BY <1>1, <1>2, <1>3, SyncTypeCorrect, PTL DEF SyncSpec
=============================================================================
