------------------------- MODULE AuthorizationProofs -------------------------
(* What holds of CardAuth, an authorization and the entry it is charged to,   *)
(* and of CardGate, the statuses its first steps look at: for every number of *)
(* deliveries, transactions, processes, PATCHes and reviews, every balance    *)
(* and limit, with failures, expiries and crashes.                            *)
EXTENDS CardAuth, CardGate, TLAPS

USE DEF hist, books, host, other

\* A request holds a whole entry before it writes one, it has tested the entry
\* it is about to charge in a WATCH transaction, and it marks a verdict.
ReadyToWrite ==
  \A d \in Deliveries :
    /\ pc[d] = "fill" => seen[d] \in AuthorizationCache
    /\ pc[d] = "exec" => seen[d] \in AuthorizationCache /\ ~Refuses(seen[d], Cents(d))
    /\ pc[d] = "mark" => answer[d] \in {"APPROVED", "DECLINED"}

Typed == TypeOK /\ ReadyToWrite

LEMMA CentsAreNatural ==
  ASSUME NEW d \in Deliveries
  PROVE  Token(d) \in TxTokens /\ Cents(d) \in Nat /\ AmountOf[Token(d)] \in Nat
  BY CardAuthAssumption DEF Token, Cents

LEMMA ConnIsAProcess ==
  ASSUME TypeOK, NEW d \in Deliveries
  PROVE  Conn(d) \in Processes
  BY DEF TypeOK, Conn

\* refreshCache builds a whole entry, and storing it keeps the books in type.
LEMMA DatabaseIsTyped ==
  ASSUME TypeOK
  PROVE  FromDatabase \in AuthorizationCache
  BY DEF TypeOK, AuthorizationCache, FromDatabase

\* A spend the test lets through leaves a well-typed entry.
LEMMA ChargedIsTyped ==
  ASSUME NEW cache \in AuthorizationCache, NEW spend \in Nat, ~Refuses(cache, spend)
  PROVE  /\ Charged(cache, spend) \in AuthorizationCache
         /\ Charged(cache, spend).usdcBalance = cache.usdcBalance - spend
         /\ \A p \in Period : Charged(cache, spend).spent[p] = cache.spent[p] + spend
         /\ Charged(cache, spend).limit = cache.limit
  <1>1. cache.usdcBalance - spend \in Nat
    BY DEF Refuses, AuthorizationCache
  <1>2. [p \in Period |-> cache.spent[p] + spend] \in [Period -> Nat]
    BY DEF AuthorizationCache
  <1> QED BY <1>1, <1>2 DEF AuthorizationCache, Charged

\* Another attempt is within the bound, and the last one declines.
LEMMA RetryKeepsTypes ==
  ASSUME TypeOK, NEW d \in Deliveries, RetryWatch(d)
  PROVE  /\ pc' \in [Deliveries -> {"idle", "done"} \cup Engine \cup Handler]
         /\ tries' \in [Deliveries -> 0 .. MAX_ATOMIC_RETRIES - 1]
         /\ answer' \in [Deliveries -> Answer]
         /\ \A e \in Deliveries \ {d} : pc'[e] = pc[e] /\ answer'[e] = answer[e]
         /\ pc'[d] \in {"watch", "mark"}
         /\ pc'[d] = "mark" => answer'[d] = "DECLINED"
  <1>1. CASE AttemptsLeft(d)
    BY <1>1, CardAuthAssumption DEF RetryWatch, AttemptsLeft, Goto, TypeOK, Engine
  <1>2. CASE ~AttemptsLeft(d)
    BY <1>2 DEF RetryWatch, Decide, Goto, TypeOK, Handler, Answer
  <1> QED BY <1>1, <1>2

\* Where the local code of a request can take it.
LEMMA DecideKeepsTypes ==
  ASSUME TypeOK, NEW d \in Deliveries, NEW result \in {"APPROVED", "DECLINED"}, Decide(d, result)
  PROVE  /\ pc' \in [Deliveries -> {"idle", "done"} \cup Engine \cup Handler]
         /\ answer' \in [Deliveries -> Answer]
         /\ \A e \in Deliveries \ {d} : pc'[e] = pc[e] /\ answer'[e] = answer[e]
         /\ pc'[d] = "mark" /\ answer'[d] = result
  BY DEF Decide, Goto, TypeOK, Handler, Answer

LEMMA GotoKeepsTypes ==
  ASSUME TypeOK, NEW d \in Deliveries,
         NEW next \in {"idle", "done"} \cup Engine \cup Handler, Goto(d, next)
  PROVE  /\ pc' \in [Deliveries -> {"idle", "done"} \cup Engine \cup Handler]
         /\ \A e \in Deliveries \ {d} : pc'[e] = pc[e]
         /\ pc'[d] = next
  BY DEF Goto, TypeOK

LEMMA DirtiedIsTyped ==
  ASSUME NEW w \in [Processes -> {"none", "clean", "dirty"}]
  PROVE  Dirtied(w) \in [Processes -> {"none", "clean", "dirty"}]
  BY DEF Dirtied

LEMMA OverwriteKeepsTypes ==
  ASSUME TypeOK, NEW entry \in AuthorizationCache, Overwrite(entry)
  PROVE  /\ authCache' \in AuthorizationCache \cup {Missing}
         /\ watch' \in [Processes -> {"none", "clean", "dirty"}]
         /\ epoch' \in AuthorizationCache \cup {Missing}
         /\ since' \in Nat /\ blind' \in BOOLEAN /\ lapsed' \in BOOLEAN
  BY DirtiedIsTyped DEF Overwrite, TypeOK

\* Only the request that moved has its claims to make good.
LEMMA OneRequestMoves ==
  ASSUME ReadyToWrite, NEW d \in Deliveries,
         \A e \in Deliveries \ {d} : pc'[e] = pc[e] /\ seen'[e] = seen[e] /\ answer'[e] = answer[e],
         pc'[d] = "fill" => seen'[d] \in AuthorizationCache,
         pc'[d] = "exec" => seen'[d] \in AuthorizationCache /\ ~Refuses(seen'[d], Cents(d)),
         pc'[d] = "mark" => answer'[d] \in {"APPROVED", "DECLINED"}
  PROVE  ReadyToWrite'
  BY DEF ReadyToWrite, Cents, Token

-----------------------------------------------------------------------------
(* Type correctness, one lemma for each part of the request's life. *)

LEMMA HandlerKeepsTypes ==
  ASSUME Typed, NEW d \in Deliveries,
         Receive(d) \/ Deduplicate(d) \/ MarkProcessed(d) \/ LoadContext(d) \/ HandlerThrows(d)
  PROVE  Typed'
  <1> USE CentsAreNatural DEF Typed
  <1>1. CASE Receive(d)
    <2>1. Goto(d, "received") BY <1>1 DEF Receive
    <2>2. TypeOK' BY <1>1, <2>1, GotoKeepsTypes DEF Receive, TypeOK, Handler, redis, db, hist
    <2>3. ReadyToWrite'
      BY <1>1, <2>1, GotoKeepsTypes, OneRequestMoves DEF Receive, Handler
    <2> QED BY <2>2, <2>3
  <1>2. CASE Deduplicate(d)
    <2>1. CASE processed[Token(d)] # "none"
      <3>1. /\ Goto(d, "done")
            /\ answer' = [answer EXCEPT ![d] = processed[Token(d)]]
            /\ UNCHANGED <<redis, db, jobs, seen, tries, background, host, hist>>
        BY <1>2, <2>1 DEF Deduplicate
      <3>2. answer' \in [Deliveries -> Answer]
        BY <3>1 DEF TypeOK, Answer
      <3>3. TypeOK' BY <3>1, <3>2, GotoKeepsTypes DEF TypeOK, redis, db, hist
      <3>4. ReadyToWrite'
        BY <3>1, GotoKeepsTypes, OneRequestMoves DEF TypeOK
      <3> QED BY <3>3, <3>4
    <2>2. CASE processed[Token(d)] = "none" /\ Token(d) \in Authorizations /\ Cents(d) > 0
      <3>1. /\ Goto(d, "lookup")
            /\ UNCHANGED answer
            /\ UNCHANGED <<redis, db, jobs, seen, tries, background, host, hist>>
        BY <1>2, <2>2 DEF Deduplicate
      <3>2. TypeOK' BY <3>1, GotoKeepsTypes DEF TypeOK, Engine, redis, db, hist
      <3>3. ReadyToWrite' BY <3>1, GotoKeepsTypes, OneRequestMoves DEF Engine
      <3> QED BY <3>2, <3>3
    <2>3. CASE processed[Token(d)] = "none" /\ ~(Token(d) \in Authorizations /\ Cents(d) > 0)
      <3>1. /\ Decide(d, "DECLINED")
            /\ UNCHANGED <<redis, db, jobs, seen, tries, background, host, hist>>
        BY <1>2, <2>3 DEF Deduplicate
      <3>2. TypeOK' BY <3>1, DecideKeepsTypes DEF TypeOK, redis, db, hist
      <3>3. ReadyToWrite' BY <3>1, DecideKeepsTypes, OneRequestMoves
      <3> QED BY <3>2, <3>3
    <2> QED BY <2>1, <2>2, <2>3
  <1>3. CASE MarkProcessed(d)
    <2>1. Goto(d, "context") /\ pc[d] = "mark" BY <1>3 DEF MarkProcessed
    <2>2. processed' \in [TxTokens -> {"none", "APPROVED", "DECLINED"}]
      BY <1>3, <2>1 DEF MarkProcessed, TypeOK, ReadyToWrite
    <2>3. TypeOK' BY <1>3, <2>1, <2>2, GotoKeepsTypes DEF MarkProcessed, TypeOK, Handler, db, hist
    <2>4. ReadyToWrite'
      BY <1>3, <2>1, GotoKeepsTypes, OneRequestMoves DEF MarkProcessed, Handler
    <2> QED BY <2>3, <2>4
  <1>4. CASE LoadContext(d)
    <2>1. Goto(d, "done") BY <1>4 DEF LoadContext
    <2>2. background' \in [Deliveries -> {"none", "create", "enqueue", "lost"}]
      BY <1>4 DEF LoadContext, TypeOK
    <2>3. TypeOK' BY <1>4, <2>1, <2>2, GotoKeepsTypes DEF LoadContext, TypeOK, redis, db, hist
    <2>4. ReadyToWrite' BY <1>4, <2>1, GotoKeepsTypes, OneRequestMoves DEF LoadContext
    <2> QED BY <2>3, <2>4
  <1>5. CASE HandlerThrows(d)
    <2>1. Goto(d, "done") /\ answer' = [answer EXCEPT ![d] = "DECLINED"]
      BY <1>5 DEF HandlerThrows
    <2>2. answer' \in [Deliveries -> Answer] BY <2>1 DEF TypeOK, Answer
    <2>0. background' \in [Deliveries -> {"none", "create", "enqueue", "lost"}]
      BY <1>5 DEF HandlerThrows, TypeOK
    <2>3. TypeOK'
      BY <1>5, <2>0, <2>1, <2>2, GotoKeepsTypes DEF HandlerThrows, TypeOK, redis, db, hist
    <2>4. ReadyToWrite'
      BY <1>5, <2>1, GotoKeepsTypes, OneRequestMoves DEF HandlerThrows, TypeOK
    <2> QED BY <2>3, <2>4
  <1> QED BY <1>1, <1>2, <1>3, <1>4, <1>5

\* The steps of authorize() that only decide where to go.
LEMMA ChecksKeepTypes ==
  ASSUME Typed, NEW d \in Deliveries,
         \/ LookupCard(d) \/ CheckKycStatus(d) \/ GetAuthCache(d) \/ ReloadAuthCache(d)
         \/ CheckMccBlacklist(d) \/ Approve(d) \/ AuthorizeThrows(d)
  PROVE  Typed'
  <1>1. /\ \/ \E next \in Engine \ {"fill", "exec"} : Goto(d, next) /\ UNCHANGED answer
           \/ \E result \in {"APPROVED", "DECLINED"} : Decide(d, result)
        /\ UNCHANGED <<redis, db, jobs, seen, tries, background, host, hist>>
    BY DEF LookupCard, CheckKycStatus, GetAuthCache, ReloadAuthCache, CheckMccBlacklist,
           Approve, AuthorizeThrows, CheckBalanceAndLimits, Engine
  <1>2. ASSUME NEW next \in Engine \ {"fill", "exec"}, Goto(d, next), UNCHANGED answer
        PROVE  Typed'
    <2>1. TypeOK' BY <1>1, <1>2, GotoKeepsTypes DEF Typed, TypeOK, redis, db, hist
    <2>2. ReadyToWrite' BY <1>1, <1>2, GotoKeepsTypes, OneRequestMoves DEF Typed, Engine
    <2> QED BY <2>1, <2>2 DEF Typed
  <1>3. ASSUME NEW result \in {"APPROVED", "DECLINED"}, Decide(d, result)
        PROVE  Typed'
    <2>1. TypeOK' BY <1>1, <1>3, DecideKeepsTypes DEF Typed, TypeOK, redis, db, hist
    <2>2. ReadyToWrite' BY <1>1, <1>3, DecideKeepsTypes, OneRequestMoves DEF Typed
    <2> QED BY <2>1, <2>2 DEF Typed
  <1> QED BY <1>1, <1>2, <1>3

\* getOrBuildAuthCache builds an entry from the database and stores it.
LEMMA RefreshKeepsTypes ==
  ASSUME Typed, NEW d \in Deliveries,
         ReadForRefresh(d) \/ FillAuthCache(d) \/ RefreshMapping(d)
  PROVE  Typed'
  <1> USE DEF Typed
  <1>1. CASE ReadForRefresh(d)
    <2>1. CASE card.status = "active"
      <3>1. FromDatabase \in AuthorizationCache
        BY DatabaseIsTyped
      <3>2. /\ seen' = [seen EXCEPT ![d] = FromDatabase]
            /\ Goto(d, "fill") /\ UNCHANGED answer
            /\ UNCHANGED <<redis, db, jobs, tries, background, host, hist>>
        BY <1>1, <2>1 DEF ReadForRefresh
      <3>3. TypeOK' BY <3>1, <3>2, GotoKeepsTypes DEF TypeOK, Engine, redis, db, hist
      <3>4. ReadyToWrite' BY <3>1, <3>2, GotoKeepsTypes, OneRequestMoves DEF TypeOK, Engine
      <3> QED BY <3>3, <3>4
    <2>2. CASE card.status # "active"
      <3>1. /\ Decide(d, "DECLINED")
            /\ UNCHANGED <<redis, db, jobs, seen, tries, background, host, hist>>
        BY <1>1, <2>2 DEF ReadForRefresh
      <3>2. TypeOK' BY <3>1, DecideKeepsTypes DEF TypeOK, redis, db, hist
      <3>3. ReadyToWrite' BY <3>1, DecideKeepsTypes, OneRequestMoves
      <3> QED BY <3>2, <3>3
    <2> QED BY <2>1, <2>2
  <1>2. CASE FillAuthCache(d)
    <2>1. Goto(d, "map") /\ seen[d] \in AuthorizationCache
      BY <1>2 DEF FillAuthCache, ReadyToWrite
    <2>2. /\ authCache' \in AuthorizationCache \cup {Missing}
          /\ watch' \in [Processes -> {"none", "clean", "dirty"}]
          /\ epoch' \in AuthorizationCache \cup {Missing}
          /\ since' \in Nat /\ blind' \in BOOLEAN /\ lapsed' \in BOOLEAN
      BY <1>2, <2>1, OverwriteKeepsTypes DEF FillAuthCache
    <2>3. TypeOK'
      BY <1>2, <2>1, <2>2, GotoKeepsTypes DEF FillAuthCache, TypeOK, Engine, db
    <2>4. ReadyToWrite'
      BY <1>2, <2>1, GotoKeepsTypes, OneRequestMoves DEF FillAuthCache, Engine
    <2> QED BY <2>3, <2>4
  <1>3. CASE RefreshMapping(d)
    <2>1. Goto(d, "reload") BY <1>3 DEF RefreshMapping
    <2>2. TypeOK'
      BY <1>3, <2>1, GotoKeepsTypes DEF RefreshMapping, TypeOK, Engine, Status, db, hist
    <2>3. ReadyToWrite' BY <1>3, <2>1, GotoKeepsTypes, OneRequestMoves DEF RefreshMapping, Engine
    <2> QED BY <2>2, <2>3
  <1> QED BY <1>1, <1>2, <1>3

\* A charge on an entry the test let through.
LEMMA ChargeKeepsTypes ==
  ASSUME TypeOK, NEW d \in Deliveries, NEW entry \in AuthorizationCache, NEW unwatched \in BOOLEAN,
         ~Refuses(entry, Cents(d)), authCache' = Charged(entry, Cents(d)), Charge(d, unwatched)
  PROVE  /\ authCache' \in AuthorizationCache \cup {Missing}
         /\ epoch' \in AuthorizationCache \cup {Missing}
         /\ since' \in Nat /\ total' \in Nat /\ chargedBy' \subseteq Deliveries
         /\ blind' \in BOOLEAN /\ lapsed' \in BOOLEAN
  BY ChargedIsTyped, CentsAreNatural DEF TypeOK, Charge

\* Step 9: the script and its WATCH fallback.
LEMMA SpendKeepsTypes ==
  ASSUME Typed, NEW d \in Deliveries,
         AtomicAuthSpend(d) \/ Watch(d) \/ GetWatched(d) \/ Exec(d)
  PROVE  Typed'
  <1> USE DEF Typed
  <1> DEFINE W == [Processes -> {"none", "clean", "dirty"}]
  <1>0. Unwatched(d) \in W /\ StillWatching(d) \subseteq Deliveries
    BY ConnIsAProcess DEF Unwatched, StillWatching, TypeOK
  <1>1. CASE AtomicAuthSpend(d)
    <2>0. UNCHANGED <<cardMapping, processed, db, jobs, seen, tries, background, host>>
      BY <1>1 DEF AtomicAuthSpend
    <2>1. CASE Goto(d, "watch") /\ UNCHANGED <<authCache, watch, answer, hist>>
      <3>1. TypeOK' BY <2>0, <2>1, GotoKeepsTypes DEF TypeOK, Engine, db, hist
      <3>2. ReadyToWrite' BY <2>0, <2>1, GotoKeepsTypes, OneRequestMoves DEF Engine
      <3> QED BY <3>1, <3>2
    <2>2. CASE Decide(d, "DECLINED") /\ UNCHANGED <<authCache, watch, hist>>
      <3>1. TypeOK' BY <2>0, <2>2, DecideKeepsTypes DEF TypeOK, db, hist
      <3>2. ReadyToWrite' BY <2>0, <2>2, DecideKeepsTypes, OneRequestMoves
      <3> QED BY <3>1, <3>2
    <2>3. CASE /\ authCache # Missing /\ ~ScriptRefuses(d)
               /\ authCache' = Charged(authCache, Cents(d))
               /\ watch' = Dirtied(watch)
               /\ Charge(d, FALSE)
               /\ Goto(d, "approve")
               /\ UNCHANGED <<answer, watching>>
      <3>1. /\ authCache' \in AuthorizationCache \cup {Missing}
            /\ epoch' \in AuthorizationCache \cup {Missing}
            /\ since' \in Nat /\ total' \in Nat /\ chargedBy' \subseteq Deliveries
            /\ blind' \in BOOLEAN /\ lapsed' \in BOOLEAN
        BY <2>3, ChargeKeepsTypes DEF TypeOK, ScriptRefuses
      <3>2. watch' \in W
        BY <2>3, DirtiedIsTyped DEF TypeOK
      <3>3. TypeOK' BY <2>0, <2>3, <3>1, <3>2, GotoKeepsTypes DEF TypeOK, Engine, db
      <3>4. ReadyToWrite' BY <2>0, <2>3, GotoKeepsTypes, OneRequestMoves DEF Engine
      <3> QED BY <3>3, <3>4
    <2> QED BY <1>1, <2>1, <2>2, <2>3 DEF AtomicAuthSpend
  <1>2. CASE Watch(d)
    <2>1. Goto(d, "get") BY <1>2 DEF Watch
    <2>2. watch' \in W /\ watching' \subseteq Deliveries
      BY <1>2, ConnIsAProcess DEF Watch, TypeOK
    <2>3. TypeOK' BY <1>2, <2>1, <2>2, GotoKeepsTypes DEF Watch, TypeOK, Engine, db, hist
    <2>4. ReadyToWrite' BY <1>2, <2>1, GotoKeepsTypes, OneRequestMoves DEF Watch, Engine
    <2> QED BY <2>3, <2>4
  <1>3. CASE GetWatched(d)
    <2>0. UNCHANGED <<authCache, cardMapping, processed, db, jobs, background, host, books>>
      BY <1>3 DEF GetWatched
    <2>1. CASE Unwatch(d) /\ RetryWatch(d) /\ UNCHANGED seen
      <3>1. TypeOK' BY <1>0, <2>0, <2>1, RetryKeepsTypes DEF TypeOK, db, Unwatch
      <3>2. ReadyToWrite' BY <2>0, <2>1, RetryKeepsTypes, OneRequestMoves
      <3> QED BY <3>1, <3>2
    <2>2. CASE Unwatch(d) /\ Decide(d, "DECLINED") /\ UNCHANGED <<seen, tries>>
      <3>1. TypeOK' BY <1>0, <2>0, <2>2, DecideKeepsTypes DEF TypeOK, db, Unwatch
      <3>2. ReadyToWrite' BY <2>0, <2>2, DecideKeepsTypes, OneRequestMoves
      <3> QED BY <3>1, <3>2
    <2>3. CASE /\ authCache # Missing /\ ~Refuses(authCache, Cents(d))
               /\ seen' = [seen EXCEPT ![d] = authCache]
               /\ Goto(d, "exec")
               /\ UNCHANGED <<watch, watching, tries, answer>>
      <3>1. TypeOK' BY <2>0, <2>3, GotoKeepsTypes DEF TypeOK, Engine, db, hist
      <3>2. ReadyToWrite'
        BY <2>0, <2>3, GotoKeepsTypes, OneRequestMoves DEF TypeOK, Engine
      <3> QED BY <3>1, <3>2
    <2> QED BY <1>3, <2>1, <2>2, <2>3 DEF GetWatched
  <1>4. CASE Exec(d)
    <2>0. UNCHANGED <<cardMapping, processed, db, jobs, seen, background, host>> /\ pc[d] = "exec"
      BY <1>4 DEF Exec
    <2>1. CASE Unwatch(d) /\ RetryWatch(d) /\ UNCHANGED <<authCache, books>>
      <3>1. TypeOK' BY <1>0, <2>0, <2>1, RetryKeepsTypes DEF TypeOK, db, Unwatch
      <3>2. ReadyToWrite' BY <2>0, <2>1, RetryKeepsTypes, OneRequestMoves
      <3> QED BY <3>1, <3>2
    <2>2. CASE /\ authCache' = Charged(seen[d], Cents(d))
               /\ watch' = Dirtied(Unwatched(d))
               /\ watching' = StillWatching(d)
               /\ Charge(d, d \notin watching)
               /\ Goto(d, "approve")
               /\ UNCHANGED <<tries, answer>>
      <3>1. seen[d] \in AuthorizationCache /\ ~Refuses(seen[d], Cents(d))
        BY <2>0 DEF ReadyToWrite
      <3>2. /\ authCache' \in AuthorizationCache \cup {Missing}
            /\ epoch' \in AuthorizationCache \cup {Missing}
            /\ since' \in Nat /\ total' \in Nat /\ chargedBy' \subseteq Deliveries
            /\ blind' \in BOOLEAN /\ lapsed' \in BOOLEAN
        BY <2>2, <3>1, ChargeKeepsTypes
      <3>3. watch' \in W
        BY <1>0, <2>2, DirtiedIsTyped
      <3>4. TypeOK' BY <1>0, <2>0, <2>2, <3>2, <3>3, GotoKeepsTypes DEF TypeOK, Engine, db
      <3>5. ReadyToWrite' BY <2>0, <2>2, GotoKeepsTypes, OneRequestMoves DEF Engine
      <3> QED BY <3>4, <3>5
    <2> QED BY <1>4, <2>1, <2>2 DEF Exec
  <1> QED BY <1>1, <1>2, <1>3, <1>4

\* The promise chain left running after the answer.
LEMMA BackgroundKeepsTypes ==
  ASSUME Typed, NEW d \in Deliveries, Background(d)
  PROVE  Typed'
  <1> USE CentsAreNatural DEF Typed
  <1>1. UNCHANGED <<redis, card, kycApproved, ledger, pc, seen, tries, answer, host, hist>>
    BY DEF Background, CreateTransaction, Enqueue, BackgroundFails, db
  <1>2. background' \in [Deliveries -> {"none", "create", "enqueue", "lost"}]
    BY DEF Background, CreateTransaction, Enqueue, BackgroundFails, AfterCreate, TypeOK
  <1>3. /\ transactions' \in [TxTokens -> {"none", "approved", "declined"}]
        /\ spentInDb' \in Nat
        /\ jobs' \subseteq [token : TxTokens, amount : Nat]
    <2>1. CASE CreateTransaction(d)
      <3>1. \/ UNCHANGED <<transactions, spentInDb>>
            \/ \E status \in {"approved", "declined"} :
                 transactions' = [transactions EXCEPT ![Token(d)] = status]
        BY <2>1 DEF CreateTransaction
      <3>2. transactions' \in [TxTokens -> {"none", "approved", "declined"}]
        BY <3>1 DEF TypeOK
      <3>3. spentInDb' = spentInDb + Cents(d) \/ spentInDb' = spentInDb
        BY <2>1 DEF CreateTransaction
      <3>4. jobs' = jobs
        BY <2>1 DEF CreateTransaction
      <3> QED BY <3>2, <3>3, <3>4 DEF TypeOK
    <2>2. CASE Enqueue(d)
      BY <2>2 DEF Enqueue, TypeOK, db
    <2>3. CASE BackgroundFails(d)
      BY <2>3 DEF BackgroundFails, TypeOK, db
    <2> QED BY <2>1, <2>2, <2>3 DEF Background
  <1>4. TypeOK' BY <1>1, <1>2, <1>3 DEF TypeOK, redis, hist
  <1>5. ReadyToWrite' BY <1>1 DEF ReadyToWrite, Cents, Token
  <1> QED BY <1>4, <1>5

LEMMA EnvironmentKeepsTypes ==
  ASSUME Typed, Expires \/ OthersRefill \/ \E p \in Processes : Crash(p)
  PROVE  Typed'
  <1> USE DEF Typed
  <1>1. CASE AuthCacheExpires
    <2>1. watch' \in [Processes -> {"none", "clean", "dirty"}]
      BY <1>1, DirtiedIsTyped DEF AuthCacheExpires, TypeOK
    <2>2. TypeOK' BY <1>1, <2>1 DEF AuthCacheExpires, TypeOK, db, local, hist
    <2>3. ReadyToWrite' BY <1>1 DEF AuthCacheExpires, ReadyToWrite, local, Cents, Token
    <2> QED BY <2>2, <2>3
  <1>2. CASE MappingExpires
    <2>1. TypeOK' BY <1>2 DEF MappingExpires, TypeOK, db, local, hist
    <2>2. ReadyToWrite' BY <1>2 DEF MappingExpires, ReadyToWrite, local, Cents, Token
    <2> QED BY <2>1, <2>2
  <1>3. ASSUME NEW t \in TxTokens, ProcessedExpires(t) PROVE Typed'
    <2>1. processed' \in [TxTokens -> {"none", "APPROVED", "DECLINED"}]
      BY <1>3 DEF ProcessedExpires, TypeOK
    <2>2. TypeOK' BY <1>3, <2>1 DEF ProcessedExpires, TypeOK, db, local, hist
    <2>3. ReadyToWrite' BY <1>3 DEF ProcessedExpires, ReadyToWrite, local, Cents, Token
    <2> QED BY <2>2, <2>3
  <1>4. ASSUME NEW p \in Processes, Crash(p) PROVE Typed'
    <2>1. pc' \in [Deliveries -> {"idle", "done"} \cup Engine \cup Handler]
      BY <1>4 DEF Crash, TypeOK
    <2>2. answer' \in [Deliveries -> Answer]
      BY <1>4 DEF Crash, TypeOK, Answer
    <2>3. background' \in [Deliveries -> {"none", "create", "enqueue", "lost"}]
      BY <1>4 DEF Crash, TypeOK
    <2>4. /\ watch' \in [Processes -> {"none", "clean", "dirty"}] /\ crashes' \in 0 .. MaxCrashes
          /\ watching' \subseteq Deliveries
      BY <1>4, CardAuthAssumption DEF Crash, TypeOK
    <2>5. TypeOK' BY <1>4, <2>1, <2>2, <2>3, <2>4 DEF Crash, TypeOK, db, hist
    <2>6. \A d \in Deliveries : pc'[d] # "done" => pc'[d] = pc[d] /\ answer'[d] = answer[d]
      BY <1>4 DEF Crash
    <2>7. ReadyToWrite' BY <1>4, <2>6 DEF Crash, ReadyToWrite, Cents, Token
    <2> QED BY <2>5, <2>7
  <1>5. CASE OtherReads
    <2>1. otherSeen' \in AuthorizationCache /\ refills' \in 0 .. MaxRefills
      BY <1>5, DatabaseIsTyped, CardAuthAssumption DEF OtherReads, TypeOK
    <2>2. TypeOK' BY <1>5, <2>1, CardAuthAssumption DEF OtherReads, TypeOK, redis, db, local
    <2>3. ReadyToWrite' BY <1>5 DEF OtherReads, ReadyToWrite, local, Cents, Token
    <2> QED BY <2>2, <2>3
  <1>6. CASE OtherFills
    <2>1. otherSeen \in AuthorizationCache
      BY <1>6 DEF OtherFills, TypeOK
    <2>2. /\ authCache' \in AuthorizationCache \cup {Missing}
          /\ watch' \in [Processes -> {"none", "clean", "dirty"}]
          /\ epoch' \in AuthorizationCache \cup {Missing}
          /\ since' \in Nat /\ blind' \in BOOLEAN /\ lapsed' \in BOOLEAN
      BY <1>6, <2>1, OverwriteKeepsTypes DEF OtherFills
    <2>3. TypeOK' BY <1>6, <2>2 DEF OtherFills, TypeOK, db, local
    <2>4. ReadyToWrite' BY <1>6 DEF OtherFills, ReadyToWrite, local, Cents, Token
    <2> QED BY <2>3, <2>4
  <1>7. CASE OtherMaps
    <2>1. TypeOK' BY <1>7 DEF OtherMaps, TypeOK, Status, db, local
    <2>2. ReadyToWrite' BY <1>7 DEF OtherMaps, ReadyToWrite, local, Cents, Token
    <2> QED BY <2>1, <2>2
  <1>8. CASE Expires
    BY <1>1, <1>2, <1>3, <1>8 DEF Expires
  <1>9. CASE OthersRefill
    BY <1>5, <1>6, <1>7, <1>9 DEF OthersRefill
  <1> QED BY <1>4, <1>8, <1>9

LEMMA StartsTyped == Init => Typed
  <1> SUFFICES ASSUME Init PROVE Typed
    OBVIOUS
  <1>0. /\ refills \in 0 .. MaxRefills /\ crashes \in 0 .. MaxCrashes
        /\ tries \in [Deliveries -> 0 .. MAX_ATOMIC_RETRIES - 1]
        /\ InitialLedger \in Nat /\ InitialLimits \in [Period -> Nat]
    BY CardAuthAssumption DEF Init
  <1>1. blind \in BOOLEAN /\ lapsed \in BOOLEAN /\ settles \in BOOLEAN /\ kycApproved \in BOOLEAN
    BY DEF Init
  <1>2. TypeOK
    BY <1>0, <1>1 DEF Init, TypeOK, Status, Answer
  <1>3. ReadyToWrite
    BY DEF Init, ReadyToWrite
  <1> QED BY <1>2, <1>3 DEF Typed

LEMMA TypedIsInductive == Typed /\ [Next]_vars => Typed'
  <1> SUFFICES ASSUME Typed, [Next]_vars PROVE Typed'
    OBVIOUS
  <1>1. ASSUME NEW d \in Deliveries, Receive(d) \/ Step(d) \/ Background(d) PROVE Typed'
    BY <1>1, HandlerKeepsTypes, ChecksKeepTypes, RefreshKeepsTypes, SpendKeepsTypes,
       BackgroundKeepsTypes DEF Step, Serve
  <1>2. CASE Expires \/ OthersRefill \/ \E p \in Processes : Crash(p)
    BY <1>2, EnvironmentKeepsTypes
  <1>3. CASE UNCHANGED vars
    BY <1>3 DEF vars, redis, db, local, hist, Typed, TypeOK, ReadyToWrite, Cents, Token
  <1> QED BY <1>1, <1>2, <1>3 DEF Next

\* Every variable keeps its type: in particular no charge takes a balance below
\* zero, on either path of step 9, and the retries stay within their bound.
THEOREM TypeCorrect == Spec => []TypeOK
  <1>1. Typed => TypeOK BY DEF Typed
  <1> QED BY <1>1, StartsTyped, TypedIsInductive, PTL DEF Spec

-----------------------------------------------------------------------------
(* A charge is lost from the entry only by an EXEC that runs without its      *)
(* WATCH, and only where requests share a connection.                         *)

Books ==
  /\ authCache # Missing => epoch \in AuthorizationCache
  /\ authCache # Missing /\ ~blind => AddsUp
  /\ since > 0 /\ ~blind =>
       /\ since <= epoch.usdcBalance
       /\ \A p \in Period : epoch.limit[p] > 0 => epoch.spent[p] + since <= epoch.limit[p]
  /\ blind => lapsed

\* What has been charged in all is what the entry's last full write counted and
\* what was charged since, and every entry written has the card's limits.
Totals ==
  /\ ~lapsed /\ epoch # Missing => \A p \in Period : epoch.spent[p] + since = total
  /\ ~lapsed => \A p \in Period : card.limit[p] > 0 => total <= card.limit[p]
  /\ epoch # Missing => epoch.limit = card.limit
  /\ \A d \in Deliveries : pc[d] = "fill" => seen[d].limit = card.limit
  /\ otherPc = "fill" => otherSeen.limit = card.limit
  /\ \A d \in Deliveries : pc[d] = "exec" => epoch # Missing

\* A request whose WATCH stands has its key watched, and as long as the watch
\* is clean the entry it read is the entry in Redis; a request between WATCH and
\* EXEC has its WATCH, or shares its connection.
WatchGuards ==
  /\ \A d \in watching : watch[Conn(d)] # "none"
  /\ \A d \in watching : pc[d] = "exec" /\ watch[Conn(d)] = "clean" => authCache = seen[d]
  /\ \A d \in Deliveries : pc[d] \in {"get", "exec"} => d \in watching \/ Shared
  /\ blind => Shared

IInv == Typed /\ Books /\ Totals /\ WatchGuards

\* A charge the test lets through, on the entry as it is, is booked exactly
\* and stays within the funds and limits of the last full write.
LEMMA ChargeIsBooked ==
  ASSUME Typed, Books, Totals, NEW d \in Deliveries, authCache \in AuthorizationCache,
         ~Refuses(authCache, Cents(d)), authCache' = Charged(authCache, Cents(d)),
         Charge(d, FALSE)
  PROVE  /\ Books'
         /\ ~lapsed' /\ epoch' # Missing => \A p \in Period : epoch'.spent[p] + since' = total'
         /\ ~lapsed' => \A p \in Period : card.limit[p] > 0 => total' <= card.limit[p]
         /\ blind' = blind
  <1> DEFINE c == Cents(d)
  <1>1. /\ c \in Nat /\ since \in Nat /\ total \in Nat /\ epoch \in AuthorizationCache
        /\ authCache # Missing /\ authCache' # Missing
        /\ epoch' = epoch /\ since' = since + c /\ total' = total + c
        /\ blind' = blind /\ lapsed' = lapsed /\ blind \in BOOLEAN /\ lapsed \in BOOLEAN
        /\ card.limit \in [Period -> Nat]
    BY CentsAreNatural, ChargedIsTyped, CardAuthAssumption DEF Books, Charge, Typed, TypeOK
  <1>2. /\ authCache'.usdcBalance = authCache.usdcBalance - c
        /\ \A p \in Period : authCache'.spent[p] = authCache.spent[p] + c
        /\ authCache'.limit = authCache.limit
    BY <1>1, ChargedIsTyped
  <1>3. /\ c <= authCache.usdcBalance
        /\ \A p \in Period : authCache.limit[p] > 0 => authCache.spent[p] + c <= authCache.limit[p]
    BY <1>1 DEF Refuses, OverLimit, AuthorizationCache
  <1> HIDE DEF c
  <1>4. ASSUME ~blind
        PROVE  /\ AddsUp'
               /\ since' <= epoch'.usdcBalance
               /\ \A p \in Period :
                    epoch'.limit[p] > 0 => epoch'.spent[p] + since' <= epoch'.limit[p]
    <2>1. /\ authCache.usdcBalance + since = epoch.usdcBalance
          /\ \A p \in Period : authCache.spent[p] = epoch.spent[p] + since
          /\ authCache.limit = epoch.limit
      BY <1>1, <1>4 DEF Books, AddsUp
    <2>2. AddsUp'
      BY <1>1, <1>2, <2>1 DEF AddsUp, AuthorizationCache
    <2>3. /\ since' <= epoch'.usdcBalance
          /\ \A p \in Period : epoch'.limit[p] > 0 => epoch'.spent[p] + since' <= epoch'.limit[p]
      BY <1>1, <1>3, <2>1 DEF AuthorizationCache
    <2> QED BY <2>2, <2>3
  <1>5. ASSUME ~lapsed
        PROVE  /\ \A p \in Period : epoch'.spent[p] + since' = total'
               /\ \A p \in Period : card.limit[p] > 0 => total' <= card.limit[p]
    <2>1. ~blind /\ epoch # Missing
      BY <1>1, <1>5, CardAuthAssumption DEF Books
    <2>2. /\ \A p \in Period : epoch.spent[p] + since = total
          /\ epoch.limit = card.limit
      BY <1>5, <2>1 DEF Totals
    <2>3. \A p \in Period : epoch'.spent[p] + since' = total'
      BY <1>1, <2>2 DEF AuthorizationCache
    <2>4. \A p \in Period : epoch'.limit[p] > 0 => epoch'.spent[p] + since' <= epoch'.limit[p]
      BY <1>4, <2>1
    <2> QED BY <1>1, <2>2, <2>3, <2>4
  <1>6. Books'
    BY <1>1, <1>4 DEF Books
  <1> QED BY <1>1, <1>5, <1>6

\* A refill starts the books anew; where it missed a charge they have lapsed.
LEMMA OverwriteIsBooked ==
  ASSUME Typed, Totals, NEW entry \in AuthorizationCache, Overwrite(entry), total' = total
  PROVE  /\ Books'
         /\ ~lapsed' => \A p \in Period : epoch'.spent[p] + since' = total'
         /\ ~lapsed' => \A p \in Period : card.limit[p] > 0 => total' <= card.limit[p]
         /\ epoch' = entry /\ ~blind'
  <1>1. /\ authCache' = entry /\ epoch' = entry /\ since' = 0 /\ blind' = FALSE
        /\ lapsed' = (lapsed \/ \E p \in Period : entry.spent[p] # total)
        /\ total \in Nat
    BY DEF Overwrite, Typed, TypeOK
  <1>2. Books'
    BY <1>1 DEF Books, AddsUp, AuthorizationCache
  <1>3. \A p \in Period : entry.spent[p] \in Nat
    BY DEF AuthorizationCache
  <1>4. ~lapsed' => ~lapsed /\ \A p \in Period : entry.spent[p] = total
    BY <1>1
  <1> QED BY <1>1, <1>2, <1>3, <1>4 DEF Totals

LEMMA BooksUntouched ==
  ASSUME Books, UNCHANGED books, authCache' \in {authCache, Missing}
  PROVE  Books'
  BY DEF Books, AddsUp

\* Only FillAuthCache, OtherFills, the script and EXEC write the entry; the TTL
\* drops it.
LEMMA OtherStepsLeaveBooks ==
  ASSUME Typed, NEW d \in Deliveries,
         \/ Receive(d) \/ Deduplicate(d) \/ LookupCard(d) \/ CheckKycStatus(d) \/ GetAuthCache(d)
         \/ RefreshMapping(d) \/ ReloadAuthCache(d) \/ CheckMccBlacklist(d)
         \/ Watch(d) \/ Approve(d) \/ AuthorizeThrows(d)
         \/ MarkProcessed(d) \/ LoadContext(d) \/ HandlerThrows(d) \/ Background(d)
  PROVE  /\ UNCHANGED <<authCache, books, card, otherPc, otherSeen>>
         /\ \A e \in Deliveries :
              pc'[e] \in {"fill", "exec"} => pc'[e] = pc[e] /\ seen'[e] = seen[e]
  <1>1. CASE \/ Receive(d) \/ Deduplicate(d) \/ LookupCard(d) \/ CheckKycStatus(d)
             \/ GetAuthCache(d) \/ RefreshMapping(d) \/ ReloadAuthCache(d) \/ CheckMccBlacklist(d)
             \/ Watch(d) \/ Approve(d) \/ AuthorizeThrows(d)
             \/ MarkProcessed(d) \/ LoadContext(d) \/ HandlerThrows(d)
    <2>1. UNCHANGED <<authCache, books, card, otherPc, otherSeen, seen>>
      BY <1>1 DEF Receive, Deduplicate, LookupCard, CheckKycStatus, GetAuthCache,
         RefreshMapping, ReloadAuthCache, CheckMccBlacklist, Watch, Approve,
         AuthorizeThrows, MarkProcessed, LoadContext, HandlerThrows, redis, db
    <2>2. \E next \in ({"idle", "done"} \cup Engine \cup Handler) \ {"fill", "exec"} : Goto(d, next)
      BY <1>1 DEF Receive, Deduplicate, LookupCard, CheckKycStatus, GetAuthCache,
         RefreshMapping, ReloadAuthCache, CheckMccBlacklist, Watch, Approve, AuthorizeThrows, Decide,
         CheckBalanceAndLimits, MarkProcessed, LoadContext, HandlerThrows, Engine, Handler
    <2> QED BY <2>1, <2>2, GotoKeepsTypes DEF Typed
  <1>2. CASE Background(d)
    BY <1>2 DEF Background, CreateTransaction, Enqueue, BackgroundFails, redis, db
  <1> QED BY <1>1, <1>2

LEMMA TotalsUntouched ==
  ASSUME Totals, UNCHANGED <<books, card, otherPc, otherSeen>>,
         \A d \in Deliveries :
           pc'[d] \in {"fill", "exec"} => pc'[d] = pc[d] /\ seen'[d] = seen[d]
  PROVE  Totals'
  BY DEF Totals

LEMMA StepKeepsBooks ==
  ASSUME IInv, NEW d \in Deliveries, Receive(d) \/ Step(d) \/ Background(d)
  PROVE  Books' /\ Totals'
  <1> USE DEF IInv
  <1>1. CASE ReadForRefresh(d)
    <2>1. UNCHANGED <<authCache, books, card, otherPc, otherSeen>>
      BY <1>1 DEF ReadForRefresh, redis, db
    <2>2. /\ \A e \in Deliveries : pc'[e] = "fill" => seen'[e].limit = card.limit
          /\ \A e \in Deliveries : pc'[e] = "exec" => pc[e] = "exec"
      <3>1. CASE card.status = "active"
        <4>1. Goto(d, "fill") /\ seen' = [seen EXCEPT ![d] = FromDatabase]
          BY <1>1, <3>1 DEF ReadForRefresh
        <4>2. FromDatabase.limit = card.limit
          BY DEF FromDatabase
        <4> QED BY <4>1, <4>2 DEF Goto, Totals, Typed, TypeOK
      <3>2. CASE card.status # "active"
        BY <1>1, <3>2 DEF ReadForRefresh, Decide, Goto, Totals, Typed, TypeOK
      <3> QED BY <3>1, <3>2
    <2>3. Books' BY <2>1, BooksUntouched
    <2>4. Totals' BY <2>1, <2>2 DEF Totals
    <2> QED BY <2>3, <2>4
  <1>2. CASE FillAuthCache(d)
    <2>1. /\ seen[d] \in AuthorizationCache /\ seen[d].limit = card.limit
          /\ Overwrite(seen[d]) /\ UNCHANGED <<total, card, seen, otherPc, otherSeen>>
          /\ \A e \in Deliveries : pc'[e] \in {"fill", "exec"} => pc'[e] = pc[e]
      BY <1>2 DEF FillAuthCache, Typed, ReadyToWrite, Totals, db, Goto, TypeOK
    <2>2. Books' /\ epoch' = seen[d]
      BY <2>1, OverwriteIsBooked
    <2>3. /\ ~lapsed' => \A p \in Period : epoch'.spent[p] + since' = total'
          /\ ~lapsed' => \A p \in Period : card.limit[p] > 0 => total' <= card.limit[p]
      BY <2>1, OverwriteIsBooked
    <2>4. epoch' # Missing
      BY <2>1, <2>2, CardAuthAssumption
    <2>5. Totals' BY <2>1, <2>2, <2>3, <2>4 DEF Totals
    <2> QED BY <2>2, <2>5
  <1>3. CASE AtomicAuthSpend(d)
    <2>0. /\ UNCHANGED <<card, seen, otherPc, otherSeen>>
          /\ \A e \in Deliveries : pc'[e] \in {"fill", "exec"} => pc'[e] = pc[e]
      BY <1>3 DEF AtomicAuthSpend, Decide, Goto, db, Typed, TypeOK
    <2>1. CASE UNCHANGED <<authCache, hist>>
      BY <2>0, <2>1, BooksUntouched, TotalsUntouched
    <2>2. CASE /\ authCache # Missing /\ ~ScriptRefuses(d)
               /\ authCache' = Charged(authCache, Cents(d)) /\ Charge(d, FALSE)
      <3>1. Books' BY <2>2, ChargeIsBooked DEF ScriptRefuses, Typed, TypeOK
      <3>2. Totals'
        <4>1. epoch' = epoch BY <2>2 DEF Charge
        <4> QED BY <2>0, <2>2, <4>1, ChargeIsBooked DEF ScriptRefuses, Typed, TypeOK, Totals
      <3> QED BY <3>1, <3>2
    <2> QED BY <1>3, <2>1, <2>2 DEF AtomicAuthSpend
  <1>4. CASE Exec(d)
    <2>0. /\ UNCHANGED <<card, seen, otherPc, otherSeen>>
          /\ \A e \in Deliveries : pc'[e] \in {"fill", "exec"} => pc'[e] = pc[e]
      BY <1>4 DEF Exec, RetryWatch, Decide, Goto, db, Typed, TypeOK
    <2>1. CASE ExecFails(d)
      BY <1>4, <2>0, <2>1, BooksUntouched, TotalsUntouched DEF Exec
    <2>2. CASE ~ExecFails(d) /\ d \in watching
      <3>1. watch[Conn(d)] = "clean"
        BY <2>2, ConnIsAProcess DEF ExecFails, WatchGuards, Typed, TypeOK
      <3>2. /\ authCache = seen[d]
            /\ seen[d] \in AuthorizationCache /\ ~Refuses(seen[d], Cents(d))
        BY <1>4, <2>2, <3>1 DEF Exec, WatchGuards, Typed, ReadyToWrite
      <3>3. authCache' = Charged(seen[d], Cents(d)) /\ Charge(d, FALSE)
        BY <1>4, <2>2 DEF Exec
      <3>4. Books' BY <3>2, <3>3, ChargeIsBooked
      <3>5. Totals'
        <4>1. epoch' = epoch BY <3>3 DEF Charge
        <4> QED BY <2>0, <3>2, <3>3, <4>1, ChargeIsBooked DEF Totals
      <3> QED BY <3>4, <3>5
    <2>3. CASE ~ExecFails(d) /\ d \notin watching
      <3>1. blind' /\ lapsed' /\ epoch' = epoch
        BY <1>4, <2>3 DEF Exec, Charge
      <3>2. epoch' \in AuthorizationCache
        BY <1>4, <3>1 DEF Exec, Typed, TypeOK, Totals
      <3> QED BY <2>0, <3>1, <3>2 DEF Books, Totals
    <2> QED BY <2>1, <2>2, <2>3
  <1>5. CASE GetWatched(d)
    <2>1. UNCHANGED <<authCache, books, card, otherPc, otherSeen>>
      BY <1>5 DEF GetWatched, db
    <2>2. /\ \A e \in Deliveries \ {d} : pc'[e] = pc[e] /\ seen'[e] = seen[e]
          /\ pc'[d] # "fill"
          /\ pc'[d] = "exec" => authCache # Missing
      BY <1>5 DEF GetWatched, RetryWatch, Decide, Goto, Typed, TypeOK
    <2>3. authCache # Missing => epoch # Missing
      BY CardAuthAssumption DEF Books
    <2>4. Books' BY <2>1, BooksUntouched
    <2>5. Totals' BY <2>1, <2>2, <2>3 DEF Totals
    <2> QED BY <2>4, <2>5
  <1> QED BY <1>1, <1>2, <1>3, <1>4, <1>5, OtherStepsLeaveBooks, BooksUntouched, TotalsUntouched
          DEF Step, Serve

\* Two requests of one connection make it a shared one.
LEMMA SharedIsFixed ==
  ASSUME UNCHANGED processOf
  PROVE  /\ \A d \in Deliveries : Conn(d)' = Conn(d)
         /\ Shared' <=> Shared
  BY DEF Shared, Conn

\* Request d may set its WATCH or drop its connection's; the keys still watched
\* are watched, and nothing read under a clean watch has changed unnoticed.
LEMMA OneWatchMoves ==
  ASSUME Typed, WatchGuards, NEW d \in Deliveries, UNCHANGED processOf,
         watching' \subseteq watching \cup {d}, blind' => blind \/ Shared,
         \A e \in watching' : watch'[Conn(e)] # "none",
         \A e \in watching' \ {d} :
           \/ watch'[Conn(e)] = watch[Conn(e)] /\ authCache' = authCache
           \/ watch'[Conn(e)] # "clean",
         \A e \in Deliveries \ {d} : pc'[e] = pc[e] /\ seen'[e] = seen[e],
         \A e \in watching : e \in watching' \/ Conn(e) = Conn(d),
         pc'[d] \in {"get", "exec"} => d \in watching' \/ Shared,
         d \in watching' /\ pc'[d] = "exec" /\ watch'[Conn(d)] = "clean" => authCache' = seen'[d]
  PROVE  WatchGuards'
  <1> USE DEF Typed
  <1>1. watching \subseteq Deliveries /\ watching' \subseteq Deliveries
    BY DEF TypeOK
  <1>2. \A e \in Deliveries : Conn(e)' = Conn(e)
    BY SharedIsFixed
  <1>3. \A e \in watching' : watch'[Conn(e)'] # "none"
    BY <1>1, <1>2
  <1>4. ASSUME NEW e \in watching', pc'[e] = "exec", watch'[Conn(e)] = "clean"
        PROVE  authCache' = seen'[e]
    <2>1. CASE e = d
      BY <1>4, <2>1
    <2>2. CASE e # d
      BY <1>1, <1>4, <2>2 DEF WatchGuards
    <2> QED BY <2>1, <2>2
  <1>5. ASSUME NEW e \in Deliveries, pc'[e] \in {"get", "exec"}
        PROVE  e \in watching' \/ Shared
    <2>1. CASE e = d
      BY <1>5, <2>1
    <2>2. CASE e # d
      BY <1>5, <2>2 DEF WatchGuards, Shared
    <2> QED BY <2>1, <2>2
  <1>6. blind' => Shared
    BY DEF WatchGuards
  <1>7. \A e \in watching' : pc'[e] = "exec" /\ watch'[Conn(e)'] = "clean" => authCache' = seen'[e]
    BY <1>1, <1>2, <1>4
  <1> QED BY <1>3, <1>5, <1>6, <1>7, SharedIsFixed DEF WatchGuards

\* A write by a request that watches nothing of its own afterwards.
LEMMA WritesDirtyWatches ==
  ASSUME Typed, WatchGuards, UNCHANGED <<processOf, watching>>, watch' = Dirtied(watch),
         blind' => blind,
         \A e \in Deliveries :
           pc'[e] \in {"get", "exec"} => pc'[e] = pc[e] /\ seen'[e] = seen[e]
  PROVE  WatchGuards'
  <1>1. watching \subseteq Deliveries /\ \A e \in watching : Conn(e) \in Processes /\ Conn(e)' = Conn(e)
    BY ConnIsAProcess, SharedIsFixed DEF Typed, TypeOK
  <1>2. \A e \in watching : watch'[Conn(e)'] = "dirty"
    BY <1>1 DEF Dirtied, WatchGuards, Typed, TypeOK
  <1> QED BY <1>1, <1>2, SharedIsFixed DEF WatchGuards

\* After an UNWATCH or an EXEC of request d only other connections watch.
LEMMA DroppedWatches ==
  ASSUME Typed, WatchGuards, NEW d \in Deliveries, UNCHANGED <<processOf, seen>>,
         watching' = StillWatching(d), blind' => blind \/ Shared,
         \/ watch' = Unwatched(d) /\ authCache' = authCache
         \/ watch' = Dirtied(Unwatched(d)),
         pc'[d] \in {"watch", "mark", "approve"},
         \A e \in Deliveries \ {d} : pc'[e] = pc[e]
  PROVE  WatchGuards'
  <1> USE DEF Typed
  <1>1. /\ watching \subseteq Deliveries /\ Conn(d) \in Processes
        /\ \A e \in watching : Conn(e) \in Processes
    BY ConnIsAProcess DEF TypeOK
  <1>2. \A e \in watching' : e \in watching /\ Conn(e) # Conn(d) /\ e # d /\ watch[Conn(e)] # "none"
    BY DEF StillWatching, WatchGuards
  <1>3. \A e \in watching' :
          /\ Unwatched(d)[Conn(e)] = watch[Conn(e)]
          /\ Dirtied(Unwatched(d))[Conn(e)] =
               (IF watch[Conn(e)] = "clean" THEN "dirty" ELSE watch[Conn(e)])
    BY <1>1, <1>2 DEF Unwatched, Dirtied, TypeOK
  <1>4. \A e \in watching' :
          \/ watch'[Conn(e)] = watch[Conn(e)] /\ authCache' = authCache
          \/ watch'[Conn(e)] # "clean" /\ watch'[Conn(e)] # "none"
    BY <1>2, <1>3
  <1>5. \A e \in watching : e \in watching' \/ Conn(e) = Conn(d)
    BY DEF StillWatching
  <1> QED BY <1>2, <1>4, <1>5, OneWatchMoves

LEMMA StepKeepsWatchGuards ==
  ASSUME IInv, NEW d \in Deliveries, Receive(d) \/ Step(d) \/ Background(d)
  PROVE  WatchGuards'
  <1> USE DEF IInv, Typed
  <1>0. /\ watching \subseteq Deliveries /\ Conn(d) \in Processes
        /\ \A e \in watching : Conn(e) \in Processes
    BY ConnIsAProcess DEF TypeOK
  <1>1. CASE Background(d)
    <2>1. UNCHANGED <<processOf, watching, watch, authCache, blind, pc, seen>>
      BY <1>1 DEF Background, CreateTransaction, Enqueue, BackgroundFails, redis
    <2> QED BY <2>1, SharedIsFixed DEF WatchGuards, Conn
  <1>2. CASE \/ Receive(d) \/ Deduplicate(d) \/ LookupCard(d) \/ CheckKycStatus(d)
             \/ GetAuthCache(d) \/ ReadForRefresh(d) \/ RefreshMapping(d) \/ ReloadAuthCache(d)
             \/ CheckMccBlacklist(d) \/ Approve(d) \/ AuthorizeThrows(d) \/ MarkProcessed(d)
             \/ LoadContext(d) \/ HandlerThrows(d)
    <2>1. /\ UNCHANGED <<processOf, watching, watch, authCache, blind>>
          /\ \A e \in Deliveries \ {d} : seen'[e] = seen[e]
      BY <1>2 DEF Receive, Deduplicate, LookupCard, CheckKycStatus, GetAuthCache, ReadForRefresh,
         RefreshMapping, ReloadAuthCache, CheckMccBlacklist, Approve, AuthorizeThrows,
         MarkProcessed, LoadContext, HandlerThrows, redis, TypeOK
    <2>2. \E next \in ({"idle", "done"} \cup Engine \cup Handler) \ {"get", "exec"} : Goto(d, next)
      BY <1>2 DEF Receive, Deduplicate, LookupCard, CheckKycStatus, GetAuthCache, ReadForRefresh,
         RefreshMapping, ReloadAuthCache, CheckMccBlacklist, Approve, AuthorizeThrows, Decide,
         CheckBalanceAndLimits, MarkProcessed, LoadContext, HandlerThrows, Engine, Handler
    <2>3. pc'[d] \notin {"get", "exec"} /\ \A e \in Deliveries \ {d} : pc'[e] = pc[e]
      BY <2>2, GotoKeepsTypes
    <2>4. \A e \in watching : watch[Conn(e)] # "none"
      BY DEF WatchGuards
    <2> QED BY <2>1, <2>3, <2>4, OneWatchMoves
  <1>3. CASE FillAuthCache(d)
    <2>1. /\ UNCHANGED <<processOf, watching, seen>> /\ watch' = Dirtied(watch) /\ ~blind'
          /\ Goto(d, "map")
      BY <1>3 DEF FillAuthCache, Overwrite
    <2>2. pc'[d] = "map" /\ \A e \in Deliveries \ {d} : pc'[e] = pc[e]
      BY <2>1, GotoKeepsTypes DEF Engine
    <2> QED BY <2>1, <2>2, WritesDirtyWatches
  <1>4. CASE AtomicAuthSpend(d)
    <2>1. /\ UNCHANGED <<processOf, watching, seen, blind>>
          /\ UNCHANGED <<authCache, watch>> \/ watch' = Dirtied(watch)
      BY <1>4 DEF AtomicAuthSpend, Charge, TypeOK
    <2>2. \E next \in {"watch", "mark", "approve"} : Goto(d, next)
      BY <1>4 DEF AtomicAuthSpend, Decide
    <2>3. pc'[d] \notin {"get", "exec"} /\ \A e \in Deliveries \ {d} : pc'[e] = pc[e]
      BY <2>2, GotoKeepsTypes DEF Engine, Handler
    <2>4. CASE UNCHANGED <<authCache, watch>>
      <3>1. \A e \in watching : watch[Conn(e)] # "none"
        BY DEF WatchGuards
      <3> QED BY <2>1, <2>3, <2>4, <3>1, OneWatchMoves
    <2>5. CASE watch' = Dirtied(watch)
      BY <2>1, <2>3, <2>5, WritesDirtyWatches
    <2> QED BY <2>1, <2>4, <2>5
  <1>5. CASE Watch(d)
    <2>1. /\ Goto(d, "get") /\ UNCHANGED <<processOf, seen, authCache, blind>>
          /\ watch' = [watch EXCEPT ![Conn(d)] = IF @ = "none" THEN "clean" ELSE @]
          /\ watching' = watching \cup {d}
      BY <1>5 DEF Watch
    <2>2. pc'[d] = "get" /\ \A e \in Deliveries \ {d} : pc'[e] = pc[e]
      BY <2>1, GotoKeepsTypes DEF Engine
    <2>3. \A e \in watching : watch[Conn(e)] # "none"
      BY DEF WatchGuards
    <2>4. \A e \in watching : watch'[Conn(e)] = watch[Conn(e)]
      BY <1>0, <2>1, <2>3 DEF TypeOK
    <2>5. watch'[Conn(d)] # "none"
      BY <1>0, <2>1 DEF TypeOK
    <2> QED BY <2>1, <2>2, <2>3, <2>4, <2>5, OneWatchMoves
  <1>6. CASE GetWatched(d)
    <2>1. UNCHANGED <<processOf, authCache, blind>> /\ pc[d] = "get"
      BY <1>6 DEF GetWatched
    <2>2. CASE /\ Unwatch(d) /\ UNCHANGED seen /\ pc'[d] \in {"watch", "mark"}
               /\ \A e \in Deliveries \ {d} : pc'[e] = pc[e]
      BY <2>1, <2>2, DroppedWatches DEF Unwatch, WatchGuards
    <2>3. CASE /\ seen' = [seen EXCEPT ![d] = authCache]
               /\ Goto(d, "exec")
               /\ UNCHANGED <<watch, watching>>
      <3>1. /\ \A e \in watching : watch[Conn(e)] # "none"
            /\ d \in watching \/ Shared
        BY <2>1 DEF WatchGuards
      <3>2. pc'[d] = "exec" /\ \A e \in Deliveries \ {d} : pc'[e] = pc[e]
        BY <2>3, GotoKeepsTypes DEF Engine
      <3>3. seen'[d] = authCache /\ \A e \in Deliveries \ {d} : seen'[e] = seen[e]
        BY <2>3 DEF TypeOK
      <3> QED BY <2>1, <2>3, <3>1, <3>2, <3>3, OneWatchMoves
    <2> QED BY <1>6, <2>2, <2>3, RetryKeepsTypes, DecideKeepsTypes DEF GetWatched
  <1>7. CASE Exec(d)
    <2>1. /\ UNCHANGED <<processOf, seen>> /\ pc[d] = "exec"
          /\ pc'[d] \in {"watch", "mark", "approve"}
          /\ \A e \in Deliveries \ {d} : pc'[e] = pc[e]
      BY <1>7, RetryKeepsTypes, GotoKeepsTypes DEF Exec, Engine
    <2>2. CASE Unwatch(d) /\ UNCHANGED <<authCache, blind>>
      BY <2>1, <2>2, DroppedWatches DEF Unwatch, WatchGuards
    <2>3. CASE /\ watch' = Dirtied(Unwatched(d)) /\ watching' = StillWatching(d)
               /\ Charge(d, d \notin watching)
      <3>1. blind' => blind \/ Shared
        BY <2>1, <2>3 DEF Charge, WatchGuards
      <3> QED BY <2>1, <2>3, <3>1, DroppedWatches
    <2> QED BY <1>7, <2>2, <2>3 DEF Exec
  <1> QED BY <1>1, <1>2, <1>3, <1>4, <1>5, <1>6, <1>7 DEF Step, Serve

LEMMA EnvironmentKeepsBooks ==
  ASSUME IInv, Expires \/ OthersRefill \/ \E p \in Processes : Crash(p)
  PROVE  Books' /\ Totals' /\ WatchGuards'
  <1> USE DEF IInv, Typed
  <1>1. CASE AuthCacheExpires
    <2>1. UNCHANGED <<books, card, otherPc, otherSeen, pc, seen, processOf, watching>>
      BY <1>1 DEF AuthCacheExpires, local, db
    <2>2. authCache' = Missing /\ watch' = Dirtied(watch)
      BY <1>1 DEF AuthCacheExpires
    <2>3. Books' /\ Totals' BY <2>1, <2>2, BooksUntouched, TotalsUntouched
    <2>4. WatchGuards' BY <2>1, <2>2, WritesDirtyWatches
    <2> QED BY <2>3, <2>4
  <1>2. CASE MappingExpires \/ OtherMaps \/ \E t \in TxTokens : ProcessedExpires(t)
    <2>1. /\ UNCHANGED <<authCache, watch, pc, seen, card, hist, processOf>>
          /\ UNCHANGED <<otherPc, otherSeen>> \/ (otherPc' = "idle" /\ UNCHANGED otherSeen)
      BY <1>2 DEF MappingExpires, ProcessedExpires, OtherMaps, local, db
    <2>2. Books' BY <2>1, BooksUntouched
    <2>3. Totals' BY <2>1 DEF Totals
    <2>4. WatchGuards' BY <2>1, SharedIsFixed DEF WatchGuards, Conn
    <2> QED BY <2>2, <2>3, <2>4
  <1>3. CASE OtherReads
    <2>1. /\ UNCHANGED <<authCache, watch, pc, seen, card, hist, processOf>>
          /\ otherSeen'.limit = card.limit
      BY <1>3 DEF OtherReads, FromDatabase, local, db, redis
    <2>2. Books' BY <2>1, BooksUntouched
    <2>3. Totals' BY <2>1 DEF Totals
    <2>4. WatchGuards' BY <2>1, SharedIsFixed DEF WatchGuards, Conn
    <2> QED BY <2>2, <2>3, <2>4
  <1>4. CASE OtherFills
    <2>1. /\ Overwrite(otherSeen) /\ otherSeen \in AuthorizationCache
          /\ otherSeen.limit = card.limit
          /\ UNCHANGED <<total, card, pc, seen, processOf, watching>> /\ otherPc' = "map"
      BY <1>4 DEF OtherFills, Totals, TypeOK, local, db
    <2>2. Books' /\ epoch' = otherSeen /\ ~blind'
      BY <2>1, OverwriteIsBooked
    <2>3. /\ ~lapsed' => \A p \in Period : epoch'.spent[p] + since' = total'
          /\ ~lapsed' => \A p \in Period : card.limit[p] > 0 => total' <= card.limit[p]
      BY <2>1, OverwriteIsBooked
    <2>4. epoch' # Missing
      BY <2>1, <2>2, CardAuthAssumption
    <2>5. Totals' BY <2>1, <2>2, <2>3, <2>4 DEF Totals
    <2>6. watch' = Dirtied(watch) BY <2>1 DEF Overwrite
    <2>7. WatchGuards' BY <2>1, <2>2, <2>6, WritesDirtyWatches
    <2> QED BY <2>2, <2>5, <2>7
  <1>5. ASSUME NEW p \in Processes, Crash(p) PROVE Books' /\ Totals' /\ WatchGuards'
    <2>1. /\ UNCHANGED <<authCache, seen, card, otherPc, otherSeen, books, processOf>>
          /\ watch' = [watch EXCEPT ![p] = "none"]
          /\ watching' = {d \in watching : Conn(d) # p}
          /\ \A d \in Deliveries :
               pc'[d] \in {"fill", "get", "exec"} => pc'[d] = pc[d] /\ Conn(d) # p
      BY <1>5 DEF Crash, db
    <2>2. Books' BY <2>1, BooksUntouched
    <2>3. Totals' BY <2>1 DEF Totals
    <2>4. watching \subseteq Deliveries /\ \A d \in watching : Conn(d) \in Processes
      BY ConnIsAProcess DEF TypeOK
    <2>5. \A d \in watching' : d \in watching /\ watch'[Conn(d)] = watch[Conn(d)]
      BY <2>1, <2>4 DEF TypeOK
    <2>6. /\ \A d \in watching' : Conn(d)' = Conn(d)
          /\ Shared' <=> Shared
      BY <2>1, <2>4, SharedIsFixed
    <2>7. WatchGuards' BY <2>1, <2>4, <2>5, <2>6 DEF WatchGuards
    <2> QED BY <2>2, <2>3, <2>7
  <1>6. CASE Expires
    BY <1>1, <1>2, <1>6 DEF Expires
  <1>7. CASE OthersRefill
    BY <1>2, <1>3, <1>4, <1>7 DEF OthersRefill
  <1> QED BY <1>5, <1>6, <1>7

LEMMA BooksAreInductive == IInv /\ [Next]_vars => IInv'
  <1> SUFFICES ASSUME IInv, [Next]_vars PROVE IInv'
    OBVIOUS
  <1>1. Typed' BY TypedIsInductive DEF IInv
  <1>2. ASSUME NEW d \in Deliveries, Receive(d) \/ Step(d) \/ Background(d)
        PROVE  IInv'
    BY <1>1, <1>2, StepKeepsBooks, StepKeepsWatchGuards DEF IInv
  <1>3. CASE Expires \/ OthersRefill \/ \E p \in Processes : Crash(p)
    BY <1>1, <1>3, EnvironmentKeepsBooks DEF IInv
  <1>4. CASE UNCHANGED vars
    <2>1. UNCHANGED <<authCache, watch, pc, seen, card, hist, processOf, otherPc, otherSeen>>
      BY <1>4 DEF vars, redis, local, db
    <2>2. Books' BY <2>1, BooksUntouched DEF IInv
    <2>3. Totals' BY <2>1 DEF Totals, IInv
    <2>4. WatchGuards' BY <2>1, SharedIsFixed DEF IInv, WatchGuards, Conn
    <2> QED BY <1>1, <2>2, <2>3, <2>4 DEF IInv
  <1> QED BY <1>2, <1>3, <1>4 DEF Next

LEMMA StartsBalanced == Init => IInv
  <1> SUFFICES ASSUME Init PROVE IInv
    OBVIOUS
  <1>1. Books /\ WatchGuards
    BY DEF Init, Books, WatchGuards
  <1>2. Totals
    BY CardAuthAssumption DEF Init, Totals
  <1> QED BY <1>1, <1>2, StartsTyped DEF IInv

\* Whatever interleaving of Lua scripts and WATCH transactions of any number of
\* requests and processes, whatever fails, runs out or crashes, a charge is
\* missing from the entry only through an EXEC that ran without its WATCH, and
\* there is none of those where no two requests share a connection.
THEOREM SpendLostOnlyIfHolds == Spec => []SpendLostOnlyIf
  <1>1. IInv => SpendLostOnlyIf BY DEF IInv, Books, WatchGuards, SpendLostOnlyIf
  <1> QED BY <1>1, StartsBalanced, BooksAreInductive, PTL DEF Spec

\* Together the authorizations charged to one full write of the entry fit its
\* balance and its limits unless an EXEC ran so, and all of them ever charged
\* fit the card's limits unless one did or a refill missed a charge.
THEOREM OverLimitOnlyIfHolds == Spec => []OverLimitOnlyIf
  <1>1. IInv => OverLimitOnlyIf BY DEF IInv, Books, Totals, OverLimitOnlyIf
  <1> QED BY <1>1, StartsBalanced, BooksAreInductive, PTL DEF Spec

-----------------------------------------------------------------------------
(* An approval rests on a spend: no sharing of connections, failure or crash  *)
(* matters here.                                                              *)

SpentFor(t) == \E d \in chargedBy : Token(d) = t

\* Everything that stands for an approval on its way from the spend to the
\* job, in memory, in Redis, in the database and in the queue.
ApprovalsSpent ==
  /\ \A d \in Deliveries :
       /\ pc[d] = "approve" => d \in chargedBy
       /\ answer[d] = "APPROVED" \/ background[d] = "enqueue" => SpentFor(Token(d))
  /\ \A t \in TxTokens :
       processed[t] = "APPROVED" \/ transactions[t] = "approved" => SpentFor(t)
  /\ \A j \in jobs : SpentFor(j.token)

\* Spends stay made, so only what the step made anew has a spend to show.
LEMMA NewApprovalsSpent ==
  ASSUME ApprovalsSpent, NEW d \in Deliveries, chargedBy \subseteq chargedBy',
         \A e \in Deliveries \ {d} :
           pc'[e] = pc[e] /\ answer'[e] = answer[e] /\ background'[e] = background[e],
         pc'[d] = "approve" => d \in chargedBy',
         answer'[d] = "APPROVED" \/ background'[d] = "enqueue" => SpentFor(Token(d))',
         \A t \in TxTokens : processed'[t] = "APPROVED" => processed[t] = "APPROVED" \/ SpentFor(t)',
         \A t \in TxTokens :
           transactions'[t] = "approved" => transactions[t] = "approved" \/ SpentFor(t)',
         \A j \in jobs' : j \in jobs \/ SpentFor(j.token)'
  PROVE  ApprovalsSpent'
  <1>1. \A t : SpentFor(t) => SpentFor(t)'
    BY DEF SpentFor, Token
  <1>2. ASSUME NEW e \in Deliveries
        PROVE  /\ pc'[e] = "approve" => e \in chargedBy'
               /\ answer'[e] = "APPROVED" \/ background'[e] = "enqueue" => SpentFor(Token(e))'
    <2>1. CASE e = d
      BY <2>1
    <2>2. CASE e # d
      <3>1. SpentFor(Token(e)) => SpentFor(Token(e))'
        BY DEF SpentFor, Token
      <3> QED BY <2>2, <3>1 DEF ApprovalsSpent
    <2> QED BY <2>1, <2>2
  <1>3. ASSUME NEW t \in TxTokens, processed'[t] = "APPROVED" \/ transactions'[t] = "approved"
        PROVE  SpentFor(t)'
    BY <1>1, <1>3 DEF ApprovalsSpent
  <1>4. \A j \in jobs' : SpentFor(j.token)'
    BY <1>1 DEF ApprovalsSpent
  <1> QED BY <1>2, <1>3, <1>4 DEF ApprovalsSpent

LEMMA StepKeepsApprovals ==
  ASSUME Typed, ApprovalsSpent, NEW d \in Deliveries, Receive(d) \/ Step(d) \/ Background(d)
  PROVE  ApprovalsSpent'
  <1> USE CentsAreNatural DEF Typed
  <1>1. CASE \/ Receive(d) \/ LookupCard(d) \/ CheckKycStatus(d) \/ GetAuthCache(d)
             \/ ReadForRefresh(d) \/ FillAuthCache(d) \/ RefreshMapping(d) \/ ReloadAuthCache(d)
             \/ CheckMccBlacklist(d) \/ Watch(d) \/ GetWatched(d) \/ AuthorizeThrows(d)
    <2>1. UNCHANGED <<processed, transactions, jobs, background, chargedBy>>
      BY <1>1 DEF Receive, LookupCard, CheckKycStatus, GetAuthCache, ReadForRefresh, FillAuthCache,
         RefreshMapping, ReloadAuthCache, CheckMccBlacklist, Watch, GetWatched, AuthorizeThrows,
         Overwrite, redis, db, hist
    <2>2. \/ \E next \in ({"received"} \cup Engine) \ {"approve"} : Goto(d, next) /\ UNCHANGED answer
          \/ Decide(d, "DECLINED")
      BY <1>1 DEF Receive, LookupCard, CheckKycStatus, GetAuthCache, ReadForRefresh, FillAuthCache,
         RefreshMapping, ReloadAuthCache, CheckMccBlacklist, Watch, GetWatched, AuthorizeThrows,
         CheckBalanceAndLimits, RetryWatch, Engine
    <2>3. /\ pc'[d] # "approve" /\ answer'[d] \in {answer[d], "DECLINED"}
          /\ \A e \in Deliveries \ {d} : pc'[e] = pc[e] /\ answer'[e] = answer[e]
      BY <2>2 DEF Goto, Decide, TypeOK
    <2>4. answer'[d] = "APPROVED" \/ background'[d] = "enqueue" => SpentFor(Token(d))'
      BY <2>1, <2>3 DEF ApprovalsSpent, SpentFor, Token
    <2> QED BY <2>1, <2>3, <2>4, NewApprovalsSpent
  <1>2. CASE Deduplicate(d)
    <2>1. UNCHANGED <<processed, transactions, jobs, background, chargedBy>>
      BY <1>2 DEF Deduplicate, redis, db, hist
    <2>2. /\ pc'[d] # "approve" /\ answer'[d] \in {answer[d], "DECLINED", processed[Token(d)]}
          /\ \A e \in Deliveries \ {d} : pc'[e] = pc[e] /\ answer'[e] = answer[e]
      BY <1>2 DEF Deduplicate, Goto, Decide, TypeOK
    <2>3. answer'[d] = "APPROVED" \/ background'[d] = "enqueue" => SpentFor(Token(d))'
      BY <2>1, <2>2 DEF ApprovalsSpent, SpentFor, Token
    <2> QED BY <2>1, <2>2, <2>3, NewApprovalsSpent
  <1>3. CASE AtomicAuthSpend(d) \/ Exec(d)
    <2>1. UNCHANGED <<processed, transactions, jobs, background>>
      BY <1>3 DEF AtomicAuthSpend, Exec, db
    <2>2. CASE UNCHANGED chargedBy /\ (RetryWatch(d) \/ Decide(d, "DECLINED")
                                  \/ (Goto(d, "watch") /\ UNCHANGED answer))
      <3>1. /\ pc'[d] # "approve" /\ answer'[d] \in {answer[d], "DECLINED"}
            /\ \A e \in Deliveries \ {d} : pc'[e] = pc[e] /\ answer'[e] = answer[e]
        BY <2>2 DEF RetryWatch, Goto, Decide, TypeOK
      <3>2. answer'[d] = "APPROVED" \/ background'[d] = "enqueue" => SpentFor(Token(d))'
        BY <2>1, <2>2, <3>1 DEF ApprovalsSpent, SpentFor, Token, hist
      <3> QED BY <2>1, <2>2, <3>1, <3>2, NewApprovalsSpent DEF hist
    <2>3. CASE /\ Charge(d, FALSE) \/ Charge(d, d \notin watching)
               /\ Goto(d, "approve") /\ UNCHANGED answer
      <3>1. chargedBy' = chargedBy \cup {d}
        BY <2>3 DEF Charge
      <3>2. SpentFor(Token(d))'
        BY <3>1 DEF SpentFor, Token
      <3>3. \A e \in Deliveries \ {d} : pc'[e] = pc[e] /\ answer'[e] = answer[e]
        BY <2>3 DEF Goto, TypeOK
      <3> QED BY <2>1, <3>1, <3>2, <3>3, NewApprovalsSpent
    <2> QED BY <1>3, <2>2, <2>3 DEF AtomicAuthSpend, Exec
  <1>4. CASE Approve(d)
    <2>1. UNCHANGED <<processed, transactions, jobs, background, chargedBy>> /\ d \in chargedBy
      BY <1>4 DEF Approve, ApprovalsSpent, redis, db, hist
    <2>2. SpentFor(Token(d))'
      BY <2>1 DEF SpentFor, Token
    <2>3. pc'[d] # "approve" /\ \A e \in Deliveries \ {d} : pc'[e] = pc[e] /\ answer'[e] = answer[e]
      BY <1>4 DEF Approve, Decide, Goto, TypeOK
    <2> QED BY <2>1, <2>2, <2>3, NewApprovalsSpent
  <1>5. CASE MarkProcessed(d)
    <2>1. /\ UNCHANGED <<transactions, jobs, background, chargedBy, answer>>
          /\ processed' = [processed EXCEPT ![Token(d)] = answer[d]]
      BY <1>5 DEF MarkProcessed, db, hist
    <2>2. pc'[d] # "approve" /\ \A e \in Deliveries \ {d} : pc'[e] = pc[e]
      BY <1>5 DEF MarkProcessed, Goto, TypeOK
    <2>3. answer[d] = "APPROVED" \/ background[d] = "enqueue" => SpentFor(Token(d))'
      BY <2>1 DEF ApprovalsSpent, SpentFor, Token
    <2>4. \A t \in TxTokens : processed'[t] = "APPROVED" => processed[t] = "APPROVED" \/ SpentFor(t)'
      BY <2>1, <2>3 DEF TypeOK
    <2> QED BY <2>1, <2>2, <2>3, <2>4, NewApprovalsSpent
  <1>6. CASE LoadContext(d) \/ HandlerThrows(d)
    <2>1. UNCHANGED <<processed, transactions, jobs, chargedBy>>
      BY <1>6 DEF LoadContext, HandlerThrows, redis, db, hist
    <2>2. /\ pc'[d] # "approve" /\ answer'[d] \in {answer[d], "DECLINED"}
          /\ background'[d] # "enqueue"
          /\ \A e \in Deliveries \ {d} :
               pc'[e] = pc[e] /\ answer'[e] = answer[e] /\ background'[e] = background[e]
      BY <1>6 DEF LoadContext, HandlerThrows, Goto, TypeOK
    <2>3. answer'[d] = "APPROVED" \/ background'[d] = "enqueue" => SpentFor(Token(d))'
      BY <2>1, <2>2 DEF ApprovalsSpent, SpentFor, Token
    <2> QED BY <2>1, <2>2, <2>3, NewApprovalsSpent
  <1>7. CASE Background(d)
    <2>1. UNCHANGED <<processed, pc, answer, chargedBy>>
      BY <1>7 DEF Background, CreateTransaction, Enqueue, BackgroundFails, redis, hist
    <2>2. /\ background'[d] = "enqueue" => answer[d] = "APPROVED"
          /\ \A e \in Deliveries \ {d} : background'[e] = background[e]
      BY <1>7 DEF Background, CreateTransaction, Enqueue, BackgroundFails, AfterCreate, TypeOK
    <2>3. answer'[d] = "APPROVED" \/ background'[d] = "enqueue" => SpentFor(Token(d))'
      BY <2>1, <2>2 DEF ApprovalsSpent, SpentFor, Token
    <2>4. ASSUME NEW t \in TxTokens, transactions'[t] = "approved", transactions[t] # "approved"
          PROVE  SpentFor(t)'
      <3>1. CreateTransaction(d)
        BY <1>7, <2>4 DEF Background, Enqueue, BackgroundFails, db
      <3>2. t = Token(d) /\ answer[d] = "APPROVED"
        BY <2>4, <3>1 DEF CreateTransaction, TypeOK
      <3>3. SpentFor(Token(d))'
        BY <2>1, <2>3, <3>2
      <3>4. SpentFor(Token(d))' <=> \E e \in chargedBy' : TokenOf[e] = TokenOf[d]
        BY DEF SpentFor, Token
      <3>5. SpentFor(t)' <=> \E e \in chargedBy' : TokenOf[e] = t
        BY DEF SpentFor, Token
      <3> QED BY <3>2, <3>3, <3>4, <3>5 DEF Token
    <2>5. ASSUME NEW j \in jobs', j \notin jobs PROVE SpentFor(j.token)'
      <3>1. Enqueue(d)
        BY <1>7, <2>5 DEF Background, CreateTransaction, BackgroundFails
      <3>2. j.token = Token(d) /\ background[d] = "enqueue"
        BY <2>5, <3>1 DEF Enqueue
      <3>3. SpentFor(Token(d))
        BY <3>2 DEF ApprovalsSpent
      <3> QED BY <2>1, <3>2, <3>3 DEF SpentFor, Token
    <2>6. \A t \in TxTokens :
            transactions'[t] = "approved" => transactions[t] = "approved" \/ SpentFor(t)'
      BY <2>4
    <2>7. \A j \in jobs' : j \in jobs \/ SpentFor(j.token)'
      BY <2>5
    <2>8. \A e \in Deliveries \ {d} :
            pc'[e] = pc[e] /\ answer'[e] = answer[e] /\ background'[e] = background[e]
      BY <2>1, <2>2
    <2>9. pc'[d] = "approve" => d \in chargedBy'
      BY <2>1 DEF ApprovalsSpent
    <2> QED BY <2>1, <2>3, <2>6, <2>7, <2>8, <2>9, NewApprovalsSpent
  <1> QED BY <1>1, <1>2, <1>3, <1>4, <1>5, <1>6, <1>7 DEF Step, Serve

LEMMA ApprovalsInductive == Typed /\ ApprovalsSpent /\ [Next]_vars => ApprovalsSpent'
  <1> SUFFICES ASSUME Typed, ApprovalsSpent, [Next]_vars PROVE ApprovalsSpent'
    OBVIOUS
  <1>1. ASSUME NEW d \in Deliveries, Receive(d) \/ Step(d) \/ Background(d) PROVE ApprovalsSpent'
    BY <1>1, StepKeepsApprovals
  <1>2. CASE Expires \/ OthersRefill \/ UNCHANGED vars
    <2>1. /\ UNCHANGED <<local, jobs, transactions, chargedBy>>
          /\ \A t \in TxTokens : processed'[t] = "APPROVED" => processed[t] = "APPROVED"
      BY <1>2 DEF Expires, AuthCacheExpires, MappingExpires, ProcessedExpires, OthersRefill, OtherReads,
                  OtherFills, OtherMaps, vars, redis, db, local, Typed, TypeOK
    <2> QED BY <2>1 DEF ApprovalsSpent, SpentFor, Token, local
  <1>3. ASSUME NEW p \in Processes, Crash(p) PROVE ApprovalsSpent'
    <2>1. UNCHANGED <<processed, transactions, jobs, chargedBy>>
      BY <1>3 DEF Crash, db, hist
    <2>2. \A d \in Deliveries :
            /\ pc'[d] = "approve" => pc[d] = "approve"
            /\ answer'[d] = "APPROVED" => answer[d] = "APPROVED"
            /\ background'[d] = "enqueue" => background[d] = "enqueue"
      BY <1>3 DEF Crash
    <2> QED BY <2>1, <2>2 DEF ApprovalsSpent, SpentFor, Token
  <1> QED BY <1>1, <1>2, <1>3 DEF Next

\* No answer, record, row or job stands for an approval without a spend that
\* was made for its transaction.
THEOREM ApprovedIsChargedHolds == Spec => []ApprovedIsCharged
  <1>1. Init => ApprovalsSpent
    BY DEF Init, ApprovalsSpent
  <1>2. Typed /\ ApprovalsSpent => ApprovedIsCharged
    BY DEF ApprovalsSpent, ApprovedIsCharged, SpentFor
  <1> QED BY <1>1, <1>2, StartsTyped, TypedIsInductive, ApprovalsInductive, PTL DEF Spec

-----------------------------------------------------------------------------
(* CardGate: the copies of a card's status and the KYC status                *)

\* Nothing is under way before the card is issued, and PATCHes and refreshes only
\* for a card that is there.
Issued ==
  /\ issue = "idle" => lithic = "none" /\ row = "none" /\ mapping = "none"
  /\ issue = "create" => row = "none" /\ mapping = "none"
  /\ \A r \in Patches :
       /\ patch[r] # "idle" => row # "none"
       /\ patch[r] = "idle" => asked[r] = "limits"
  /\ \A a \in Charges : charge[a] = "map" => row # "none"

\* A PATCH that asked for a cancellation, or is to write one, has closed the card.
CancelInv ==
  /\ CancelledIsClosed
  /\ \A r \in Patches : asked[r] = "cancel" \/ updated[r] = "cancelled" => lithic = "CLOSED"

\* Who is writing: nobody, or one writer alone.
Issuing == issue \in {"create", "map"}
Patching(r) == patch[r] \in {"update", "map"}
Refreshing(a) == charge[a] = "map"

NoneWrites ==
  ~Issuing /\ (\A r \in Patches : ~Patching(r)) /\ (\A a \in Charges : ~Refreshing(a))
OnlyIssue ==
  Issuing /\ (\A r \in Patches : ~Patching(r)) /\ (\A a \in Charges : ~Refreshing(a))
OnlyPatch(r) ==
  /\ ~Issuing /\ Patching(r)
  /\ \A q \in Patches : Patching(q) => q = r
  /\ \A a \in Charges : ~Refreshing(a)
OnlyCharge(a) ==
  /\ ~Issuing /\ Refreshing(a)
  /\ \A r \in Patches : ~Patching(r)
  /\ \A b \in Charges : Refreshing(b) => b = a

Paired ==
  <<row, lithic>> \in
    {<<"none", "none">>, <<"active", "OPEN">>, <<"frozen", "PAUSED">>, <<"cancelled", "CLOSED">>}
Agree == Paired /\ mapping \in {row, "none"}

\* What the copies are while the one writer that is under way has written some
\* of them.
CopiesInv ==
  ~disturbed =>
    \/ NoneWrites /\ Agree
    \/ /\ OnlyIssue
       /\ lithic = "OPEN" /\ mapping = "none"
       /\ row = IF issue = "create" THEN "none" ELSE "active"
    \/ \E r \in Patches :
         /\ OnlyPatch(r)
         /\ patch[r] = "update" =>
              IF asked[r] = "limits" THEN Agree ELSE lithic = LithicState(asked[r])
         /\ patch[r] = "map" => Paired /\ updated[r] = row
    \/ \E a \in Charges : OnlyCharge(a) /\ Agree /\ row = "active"

\* One handler of the KYC status at a time, or an overlap that is remembered.
KycInv ==
  /\ lastReview \in {kyc, "unknown"}
  /\ overlapped => Deciding # {} /\ lastReview = "unknown"
  /\ ~overlapped => \A x, y \in Deciding : x = y
  /\ ~overlapped => \A n \in Sessions : session[n] # "idle" => kyc = "pending"

GateIInv == GateTypeOK /\ Issued /\ CancelInv /\ CopiesInv /\ KycInv

LEMMA WritingNone == Writing = {} <=> NoneWrites
  BY DEF Writing, NoneWrites, Issuing, Patching, Refreshing

LEMMA GateNextKeepsTypes == GateTypeOK /\ Issued /\ [GateNext]_gateVars => GateTypeOK'
  <1> SUFFICES ASSUME GateTypeOK, Issued, [GateNext]_gateVars PROVE GateTypeOK'
    OBVIOUS
  <1> USE DEF GateTypeOK, copies, requests, kycVars, CardStatus, Action
  <1>1. CASE CreateCard
    BY <1>1 DEF CreateCard
  <1>2. CASE IssueStep
    BY <1>2 DEF IssueStep, CreateRow, MapNewCard, IssueFails
  <1>3. ASSUME NEW r \in Patches, SkipLithic(r) PROVE GateTypeOK'
    <2>1. disturbed' \in BOOLEAN
      BY <1>3 DEF SkipLithic
    <2> QED BY <1>3, <2>1 DEF SkipLithic, ToPatch
  <1>4. ASSUME NEW r \in Patches, NEW action \in Action, UpdateLithic(r, action) PROVE GateTypeOK'
    <2>1. disturbed' \in BOOLEAN
      BY <1>4 DEF UpdateLithic
    <2>2. LithicState(action) \in {"none", "OPEN", "PAUSED", "CLOSED"}
      BY DEF LithicState
    <2> QED BY <1>4, <2>1, <2>2 DEF UpdateLithic, ToPatch
  <1>5. ASSUME NEW r \in Patches, UpdateRow(r) PROVE GateTypeOK'
    <2>1. NewStatus(r) \in CardStatus
      BY <1>5 DEF UpdateRow, NewStatus, Issued
    <2> QED BY <1>5, <2>1 DEF UpdateRow, ToPatch
  <1>6. ASSUME NEW r \in Patches, SetCardMapping(r) \/ PatchFails(r) PROVE GateTypeOK'
    BY <1>6 DEF SetCardMapping, PatchFails, ForgetPatch, ToPatch, MappedStatus
  <1>7. ASSUME NEW a \in Charges, AuthorizeLooksUp(a) \/ ChargeStep(a) PROVE GateTypeOK'
    <2>1. disturbed' \in BOOLEAN
      BY <1>7 DEF AuthorizeLooksUp, ChargeStep, AuthorizeChecksKyc, AuthorizeReads, AuthorizeMaps,
                  AuthorizeEnds
    <2> QED
      BY <1>7, <2>1 DEF AuthorizeLooksUp, ChargeStep, AuthorizeChecksKyc, AuthorizeReads, AuthorizeMaps,
                AuthorizeEnds, ToCharge
  <1>8. ASSUME NEW v \in Reviews, ReceiveReview(v) PROVE GateTypeOK'
    <2>1. overlapped' \in BOOLEAN
      BY <1>8 DEF ReceiveReview, Overlap
    <2> QED BY <1>8, <2>1 DEF ReceiveReview, Overlap, MustWrite, Result, KycStatus
  <1>9. ASSUME NEW v \in Reviews, ApplyReview(v) \/ ReviewFails(v) PROVE GateTypeOK'
    <2>1. overlapped' \in BOOLEAN
      BY <1>9 DEF ApplyReview, ReviewFails, EndDeciding
    <2>2. review[v] \in KycStatus
      BY <1>9 DEF ApplyReview, ReviewFails
    <2> QED BY <1>9, <2>1, <2>2 DEF ApplyReview, ReviewFails
  <1>10. ASSUME NEW n \in Sessions, StartSession(n) \/ SetPending(n) \/ SessionFails(n)
         PROVE GateTypeOK'
    <2>1. overlapped' \in BOOLEAN
      BY <1>10 DEF StartSession, SetPending, SessionFails, Overlap, EndDeciding
    <2> QED BY <1>10, <2>1 DEF StartSession, SetPending, SessionFails, Overlap, KycStatus
  <1>11. CASE ExpireMapping
    BY <1>11 DEF ExpireMapping
  <1>12. CASE UNCHANGED gateVars
    BY <1>12 DEF gateVars
  <1> QED BY <1>1, <1>2, <1>3, <1>4, <1>5, <1>6, <1>7, <1>8, <1>9, <1>10, <1>11, <1>12
          DEF GateNext, PatchStep

LEMMA GateNextKeepsCancelled ==
  GateTypeOK /\ Issued /\ CancelInv /\ [GateNext]_gateVars => (Issued /\ CancelInv)'
  <1> SUFFICES ASSUME GateTypeOK, Issued, CancelInv, [GateNext]_gateVars
               PROVE  Issued' /\ CancelInv'
    OBVIOUS
  <1> USE DEF GateTypeOK, Issued, CancelInv, CancelledIsClosed, copies, requests, kycVars
  <1>1. CASE CreateCard
    BY <1>1 DEF CreateCard
  <1>2. CASE IssueStep
    BY <1>2 DEF IssueStep, CreateRow, MapNewCard, IssueFails
  <1>3. ASSUME NEW r \in Patches, SkipLithic(r) PROVE Issued' /\ CancelInv'
    BY <1>3 DEF SkipLithic, ToPatch
  <1>4. ASSUME NEW r \in Patches, NEW action \in Action, UpdateLithic(r, action)
        PROVE  Issued' /\ CancelInv'
    <2>1. Issued'
      BY <1>4 DEF UpdateLithic, ToPatch
    <2>2. CancelInv'
      BY <1>4 DEF UpdateLithic, ToPatch, LithicState, LithicAccepts
    <2> QED BY <2>1, <2>2
  <1>5. ASSUME NEW r \in Patches, UpdateRow(r) PROVE Issued' /\ CancelInv'
    <2>1. row # "none" /\ NewStatus(r) # "none"
      BY <1>5 DEF UpdateRow, NewStatus
    <2>2. NewStatus(r) = "cancelled" => lithic = "CLOSED"
      BY DEF NewStatus
    <2> QED BY <1>5, <2>1, <2>2 DEF UpdateRow, ToPatch
  <1>6. ASSUME NEW r \in Patches, SetCardMapping(r) \/ PatchFails(r) PROVE Issued' /\ CancelInv'
    BY <1>6 DEF SetCardMapping, PatchFails, ForgetPatch, ToPatch, MappedStatus
  <1>7. ASSUME NEW a \in Charges, AuthorizeMaps(a) PROVE Issued' /\ CancelInv'
    BY <1>7 DEF AuthorizeMaps, ToCharge
  <1>8. CASE UNCHANGED <<copies, requests>>
    BY <1>8
  <1>9. CASE ExpireMapping
    BY <1>9 DEF ExpireMapping
  <1>10. ASSUME NEW a \in Charges,
                AuthorizeLooksUp(a) \/ AuthorizeChecksKyc(a) \/ AuthorizeReads(a) \/ AuthorizeEnds(a)
         PROVE  Issued' /\ CancelInv'
    <2>1. UNCHANGED <<copies, issue, patch, asked, updated>>
      BY <1>10 DEF AuthorizeLooksUp, AuthorizeChecksKyc, AuthorizeReads, AuthorizeEnds
    <2>2. \A b \in Charges : charge'[b] = "map" => charge[b] = "map" \/ row = "active"
      BY <1>10 DEF AuthorizeLooksUp, AuthorizeChecksKyc, AuthorizeReads, AuthorizeEnds, ToCharge,
                   FoundActive
    <2> QED BY <2>1, <2>2
  <1>11. ASSUME NEW v \in Reviews, ReceiveReview(v) \/ ApplyReview(v) \/ ReviewFails(v)
         PROVE  UNCHANGED <<copies, requests>>
    BY <1>11 DEF ReceiveReview, ApplyReview, ReviewFails
  <1>12. ASSUME NEW n \in Sessions, StartSession(n) \/ SetPending(n) \/ SessionFails(n)
         PROVE  UNCHANGED <<copies, requests>>
    BY <1>12 DEF StartSession, SetPending, SessionFails
  <1>13. CASE UNCHANGED gateVars
    BY <1>13 DEF gateVars
  <1> QED BY <1>1, <1>2, <1>3, <1>4, <1>5, <1>6, <1>7, <1>8, <1>9, <1>10, <1>11, <1>12, <1>13
          DEF GateNext, PatchStep, ChargeStep

LEMMA GateNextKeepsKyc ==
  GateTypeOK /\ KycInv /\ [GateNext]_gateVars => KycInv'
  <1> SUFFICES ASSUME GateTypeOK, KycInv, [GateNext]_gateVars PROVE KycInv'
    OBVIOUS
  <1> USE GateAssumption DEF GateTypeOK, KycInv
  <1>1. ASSUME NEW v \in Reviews, ReceiveReview(v) PROVE KycInv'
    <2>1. CASE UNCHANGED <<review, overlapped>>
      <3>1. UNCHANGED <<kyc, session, Deciding>>
        BY <1>1, <2>1 DEF ReceiveReview, Deciding
      <3>2. lastReview' \in {lastReview, kyc, "unknown"}
            /\ (Deciding # {} => lastReview' \in {lastReview, "unknown"})
        BY <1>1, <2>1 DEF ReceiveReview, MustWrite, Overlap
      <3> QED BY <2>1, <3>1, <3>2
    <2>2. CASE Overlap /\ review[v] = "idle"
               /\ \E result \in Result : MustWrite(result) /\ review' = [review EXCEPT ![v] = result]
      <3>1. Deciding' = Deciding \cup {v}
        BY <1>1, <2>2 DEF ReceiveReview, MustWrite, Deciding, Result, KycStatus
      <3>2. UNCHANGED <<kyc, session>>
        BY <1>1 DEF ReceiveReview
      <3> QED BY <2>2, <3>1, <3>2 DEF Overlap
    <2> QED BY <1>1, <2>1, <2>2 DEF ReceiveReview
  <1>2. ASSUME NEW v \in Reviews, ApplyReview(v) \/ ReviewFails(v) PROVE KycInv'
    <2>1. v \in Deciding /\ Deciding' = Deciding \ {v}
      BY <1>2 DEF ApplyReview, ReviewFails, Deciding
    <2>2. overlapped' = (overlapped /\ Deciding' # {}) /\ session' = session
      BY <1>2, <2>1 DEF ApplyReview, ReviewFails, EndDeciding
    <2>3. ~overlapped => Deciding = {v} /\ \A n \in Sessions : session[n] = "idle"
      BY <2>1 DEF Deciding
    <2>4. overlapped => lastReview' = "unknown"
      BY <1>2 DEF ApplyReview, ReviewFails
    <2>5. ~overlapped => lastReview' \in {kyc', "unknown"}
      BY <1>2 DEF ApplyReview, ReviewFails
    <2> QED BY <2>1, <2>2, <2>3, <2>4, <2>5 DEF Deciding
  <1>3. ASSUME NEW n \in Sessions, StartSession(n) PROVE KycInv'
    <2>1. Deciding' = Deciding \cup {n}
      BY <1>3 DEF StartSession, Deciding
    <2>2. kyc' = kyc /\ kyc = "pending" /\ Overlap
      BY <1>3 DEF StartSession
    <2> QED BY <2>1, <2>2 DEF Overlap
  <1>4. ASSUME NEW n \in Sessions, SetPending(n) \/ SessionFails(n) PROVE KycInv'
    <2>1. n \in Deciding /\ Deciding' = Deciding \ {n}
      BY <1>4 DEF SetPending, SessionFails, Deciding
    <2>2. overlapped' = (overlapped /\ Deciding' # {}) /\ lastReview' = lastReview
      BY <1>4, <2>1 DEF SetPending, SessionFails, EndDeciding
    <2>3. ~overlapped => kyc' = kyc
      BY <1>4 DEF SetPending, SessionFails
    <2>4. \A m \in Sessions : session'[m] # "idle" => session[m] # "idle"
      BY <1>4 DEF SetPending, SessionFails
    <2>5. ~overlapped => Deciding = {n}
      BY <2>1
    <2>6. overlapped /\ Deciding' = {} => \A m \in Sessions : session'[m] = "idle"
      BY DEF Deciding
    <2> QED BY <2>1, <2>2, <2>3, <2>4, <2>5, <2>6
  <1>5. CASE UNCHANGED kycVars
    BY <1>5 DEF kycVars, Deciding
  <1>6. ASSUME NEW r \in Patches, SkipLithic(r) \/ PatchStep(r)
               \/ \E action \in Action : UpdateLithic(r, action)
        PROVE  UNCHANGED kycVars
    BY <1>6 DEF SkipLithic, PatchStep, UpdateRow, SetCardMapping, PatchFails, UpdateLithic
  <1>7. ASSUME NEW a \in Charges, AuthorizeLooksUp(a) \/ ChargeStep(a)
        PROVE  UNCHANGED kycVars
    BY <1>7 DEF AuthorizeLooksUp, ChargeStep, AuthorizeChecksKyc, AuthorizeReads, AuthorizeMaps,
                AuthorizeEnds
  <1>8. CASE CreateCard \/ IssueStep \/ ExpireMapping \/ UNCHANGED gateVars
    BY <1>5, <1>8 DEF CreateCard, IssueStep, CreateRow, MapNewCard, IssueFails, ExpireMapping, gateVars
  <1> QED BY <1>1, <1>2, <1>3, <1>4, <1>5, <1>6, <1>7, <1>8 DEF GateNext

LEMMA GateNextKeepsCopies ==
  GateTypeOK /\ Issued /\ CancelInv /\ CopiesInv /\ [GateNext]_gateVars => CopiesInv'
  <1> SUFFICES ASSUME GateTypeOK, Issued, CancelInv, CopiesInv, [GateNext]_gateVars, ~disturbed'
               PROVE  CopiesInv'
    BY DEF CopiesInv
  <1> USE DEF GateTypeOK, Issued, copies, requests, kycVars
  <1> USE DEF NoneWrites, OnlyIssue, OnlyPatch, OnlyCharge, Issuing, Patching, Refreshing, Agree, Paired
  <1>1. CASE CreateCard
    BY <1>1 DEF CreateCard, CopiesInv
  <1>2. CASE CreateRow
    BY <1>2 DEF CreateRow, CopiesInv
  <1>3. CASE MapNewCard
    BY <1>3 DEF MapNewCard, CopiesInv
  <1>4. CASE IssueFails
    BY <1>4 DEF IssueFails
  <1>5. ASSUME NEW r \in Patches, SkipLithic(r) PROVE CopiesInv'
    <2>1. ~disturbed /\ NoneWrites
      BY <1>5, WritingNone DEF SkipLithic
    <2> QED BY <1>5, <2>1 DEF SkipLithic, ToPatch, CopiesInv
  <1>6. ASSUME NEW r \in Patches, NEW action \in Action, UpdateLithic(r, action) PROVE CopiesInv'
    <2>1. NoneWrites /\ (disturbed => action # "limits")
      BY <1>6, WritingNone DEF UpdateLithic
    <2>2. OnlyPatch(r)' /\ patch'[r] = "update" /\ asked'[r] = action
      BY <1>6, <2>1 DEF UpdateLithic, ToPatch
    <2>3. CASE action = "limits"
      <3>1. lithic' = lithic
        BY <1>6, <2>3 DEF UpdateLithic, LithicState
      <3>2. Agree
        BY <2>1, <2>3 DEF CopiesInv
      <3> QED BY <1>6, <2>2, <2>3, <3>1, <3>2 DEF UpdateLithic, CopiesInv
    <2>4. CASE action # "limits"
      <3>1. lithic' = LithicState(action)'
        BY <1>6, <2>4 DEF UpdateLithic, LithicState, Action
      <3> QED BY <2>2, <2>4, <3>1 DEF CopiesInv
    <2> QED BY <2>3, <2>4
  <1>7. ASSUME NEW r \in Patches, UpdateRow(r) PROVE CopiesInv'
    <2>1. ~disturbed /\ OnlyPatch(r)
          /\ IF asked[r] = "limits" THEN Agree ELSE lithic = LithicState(asked[r])
      BY <1>7 DEF UpdateRow, CopiesInv
    <2>2. OnlyPatch(r)' /\ patch'[r] = "map" /\ updated'[r] = row'
      BY <1>7, <2>1 DEF UpdateRow, ToPatch
    <2>3. Paired'
      BY <1>7, <2>1 DEF UpdateRow, NewStatus, LithicState, Action
    <2> QED BY <2>2, <2>3 DEF CopiesInv
  <1>8. ASSUME NEW r \in Patches, SetCardMapping(r) PROVE CopiesInv'
    <2>1. ~disturbed /\ OnlyPatch(r) /\ Paired /\ updated[r] = row
      BY <1>8 DEF SetCardMapping, CopiesInv
    <2> QED BY <1>8, <2>1 DEF SetCardMapping, ForgetPatch, ToPatch, MappedStatus, CopiesInv
  <1>9. ASSUME NEW r \in Patches, PatchFails(r) PROVE CopiesInv'
    BY <1>9 DEF PatchFails
  <1>10. ASSUME NEW a \in Charges, AuthorizeLooksUp(a) \/ AuthorizeChecksKyc(a) PROVE CopiesInv'
    <2>1. \A b \in Charges : (charge'[b] = "map") <=> (charge[b] = "map")
      BY <1>10 DEF AuthorizeLooksUp, AuthorizeChecksKyc, ToCharge
    <2>2. UNCHANGED <<lithic, row, mapping, issue, patch, asked, updated, disturbed>>
      BY <1>10 DEF AuthorizeLooksUp, AuthorizeChecksKyc
    <2> QED BY <2>1, <2>2 DEF CopiesInv, LithicState
  <1>11. ASSUME NEW a \in Charges, AuthorizeReads(a) PROVE CopiesInv'
    <2>1. ~disturbed /\ NoneWrites /\ Agree /\ row = "active"
      BY <1>11, WritingNone DEF AuthorizeReads, FoundActive, CopiesInv
    <2> QED BY <1>11, <2>1 DEF AuthorizeReads, ToCharge, CopiesInv
  <1>12. ASSUME NEW a \in Charges, AuthorizeMaps(a) PROVE CopiesInv'
    <2>1. ~disturbed /\ OnlyCharge(a) /\ Agree /\ row = "active"
      BY <1>12 DEF AuthorizeMaps, CopiesInv
    <2> QED BY <1>12, <2>1 DEF AuthorizeMaps, ToCharge, CopiesInv
  <1>13. ASSUME NEW a \in Charges, AuthorizeEnds(a) PROVE CopiesInv'
    <2>1. UNCHANGED <<lithic, row, mapping, issue, patch, asked, updated, disturbed>>
      BY <1>13 DEF AuthorizeEnds
    <2>2. charge' = [charge EXCEPT ![a] = "idle"]
      BY <1>13 DEF AuthorizeEnds, ToCharge
    <2>3. CASE charge[a] = "map"
      <3>1. OnlyCharge(a) /\ Agree
        BY <2>1, <2>3 DEF CopiesInv
      <3> QED BY <2>1, <2>2, <3>1 DEF CopiesInv
    <2>4. CASE charge[a] # "map"
      <3>1. \A b \in Charges : (charge'[b] = "map") <=> (charge[b] = "map")
        BY <2>2, <2>4
      <3> QED BY <2>1, <3>1 DEF CopiesInv, LithicState
    <2> QED BY <2>3, <2>4
  <1>14. CASE ExpireMapping
    BY <1>14 DEF ExpireMapping, CopiesInv, LithicState
  <1>15. CASE UNCHANGED <<copies, requests, disturbed>>
    BY <1>15 DEF CopiesInv, LithicState
  <1>16. ASSUME NEW v \in Reviews, ReceiveReview(v) \/ ApplyReview(v) \/ ReviewFails(v)
         PROVE  UNCHANGED <<copies, requests, disturbed>>
    BY <1>16 DEF ReceiveReview, ApplyReview, ReviewFails
  <1>17. ASSUME NEW n \in Sessions, StartSession(n) \/ SetPending(n) \/ SessionFails(n)
         PROVE  UNCHANGED <<copies, requests, disturbed>>
    BY <1>17 DEF StartSession, SetPending, SessionFails
  <1>18. CASE UNCHANGED gateVars
    BY <1>15, <1>18 DEF gateVars
  <1> QED BY <1>1, <1>2, <1>3, <1>4, <1>5, <1>6, <1>7, <1>8, <1>9, <1>10, <1>11, <1>12, <1>13,
             <1>14, <1>15, <1>16, <1>17, <1>18
          DEF GateNext, IssueStep, PatchStep, ChargeStep

THEOREM GateInvHolds == GateSpec => []GateIInv
  <1>1. GateInit => GateIInv
    <2> SUFFICES ASSUME GateInit PROVE GateIInv
      OBVIOUS
    <2> USE DEF GateInit
    <2>1. GateTypeOK
      BY DEF GateTypeOK, CardStatus, KycStatus, Action
    <2>2. Issued /\ CancelInv
      BY DEF Issued, CancelInv, CancelledIsClosed
    <2>3. CopiesInv
      BY DEF CopiesInv, NoneWrites, Issuing, Patching, Refreshing, Agree, Paired
    <2>4. KycInv
      BY DEF KycInv, Deciding
    <2> QED BY <2>1, <2>2, <2>3, <2>4 DEF GateIInv
  <1>2. GateIInv /\ [GateNext]_gateVars => GateIInv'
    BY GateNextKeepsTypes, GateNextKeepsCancelled, GateNextKeepsCopies, GateNextKeepsKyc DEF GateIInv
  <1> QED BY <1>1, <1>2, PTL DEF GateSpec

\* The variables of the gate keep their types: no PATCH writes a status that is none.
THEOREM GateTypeCorrect == GateSpec => []GateTypeOK
  <1>1. GateIInv => GateTypeOK
    BY DEF GateIInv
  <1> QED BY <1>1, GateInvHolds, PTL

\* However many PATCHes race, a card cancelled in the database or in Redis is
\* closed at Lithic.
THEOREM CancelledIsClosedHolds == GateSpec => []CancelledIsClosed
  <1>1. GateIInv => CancelledIsClosed
    BY DEF GateIInv, CancelInv
  <1> QED BY <1>1, GateInvHolds, PTL

\* The three copies of the status agree between writers that ran one at a time.
THEOREM CopiesAgreeHolds == GateSpec => []CopiesAgree
  <1>1. GateIInv => CopiesAgree
    <2> SUFFICES ASSUME GateIInv, Writing = {}, ~disturbed PROVE Agree
      BY DEF CopiesAgree, Agree, Paired
    <2>1. NoneWrites
      BY WritingNone
    <2> QED BY <2>1 DEF GateIInv, CopiesInv, NoneWrites, OnlyIssue, OnlyPatch, OnlyCharge
  <1> QED BY <1>1, GateInvHolds, PTL

\* The user's KYC status is that of the last review applied, unless handlers
\* overlapped.
THEOREM KycFollowsReviewsHolds == GateSpec => []KycFollowsReviews
  <1>1. GateIInv => KycFollowsReviews
    BY DEF GateIInv, KycInv, KycFollowsReviews
  <1> QED BY <1>1, GateInvHolds, PTL

=============================================================================
