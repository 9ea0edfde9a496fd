------------------------------ MODULE CardAuth ------------------------------
(***************************************************************************)
(* POST /webhooks/lithic/asa (backend/src/routes/webhooks.ts), the ten     *)
(* steps of AuthorizationEngine.authorize() and the Redis operations under *)
(* them, for one card of one user.                                         *)
(*                                                                         *)
(* A delivery is one HTTP request of Lithic; several deliveries may carry  *)
(* the same transaction token.  It is served by one of the backend's       *)
(* processes.  One action is the code between two awaits: the step's       *)
(* Redis or database operation and the local code that follows it.         *)
(* Every request of a process shares its only Redis connection.            *)
(***************************************************************************)
EXTENDS AuthCache, FiniteSets, Functions

CONSTANTS
  Deliveries, TxTokens, Processes,
  TokenOf,          \* TokenOf[d]: the transaction a delivery carries
  AmountOf,         \* AmountOf[t]: event.amount in cents (never negative on an
                    \* authorization, so that Math.abs leaves it alone)
  Authorizations,   \* the tokens whose event.status is AUTHORIZATION
  BlockedMcc,       \* the tokens whose merchant category is blacklisted
  InitialLedger,    \* the user's net BalanceLedger, in base units
  InitialLimits,    \* SubAccount.dailyLimit and monthlyLimit, in cents
  UserIds,          \* the ids in the User table
  SubAccountId,     \* CardMapping.subAccountId, the card's id in the SubAccount table
  MAX_ATOMIC_RETRIES,
  MayFail,          \* whether Redis and database calls may fail, deadlines pass
  Expirable,        \* the kinds of Redis key whose TTL may run out
  MaxCrashes,       \* bound: process crashes
  MaxRefills,       \* bound: refills by requests other than the Deliveries
  Missing           \* Redis' answer for a key that is not there

ASSUME CardAuthAssumption ==
  /\ TokenOf \in [Deliveries -> TxTokens]
  /\ AmountOf \in [TxTokens -> Nat]
  /\ InitialLedger \in Nat
  /\ InitialLimits \in [Period -> Nat]
  /\ MAX_ATOMIC_RETRIES \in Nat \ {0}
  /\ MayFail \in BOOLEAN
  /\ Expirable \subseteq {"auth", "card", "processed"}
  /\ MaxCrashes \in Nat /\ MaxRefills \in Nat
  /\ Missing \notin AuthorizationCache

VARIABLES
  authCache,    \* auth:{eoa}, an AuthorizationCache or Missing
  cardMapping,  \* card:{token}: the status it holds, or "none"
  processed,    \* processed[t]: webhook:processed:{t}, or "none"
  watch,        \* watch[p]: the WATCH state of the process's connection
  card,         \* the SubAccount row: [status, limit]
  kycApproved,  \* User.kycStatus = "approved"
  ledger,       \* the net of the user's BalanceLedger rows, base units
  transactions, \* transactions[t]: the status of the Transaction row, or "none"
  spentInDb,    \* the sum of the user's approved Transaction rows
  jobs,         \* settlement jobs handed to the queue: [token, amount]
  pc,           \* pc[d]: where the request stands
  seen,         \* seen[d]: the entry the request read last and still holds
  tries,        \* tries[d]: WATCH attempts made
  answer,       \* answer[d]: authorize()'s result, then the HTTP answer
  background,   \* background[d]: the promise chain left running after the answer,
                \* "lost" when it ended without the job it was to enqueue
  crashes,
  processOf,    \* processOf[d]: the process Lithic's request reaches
  settles,      \* settlementService && cardMapping.m2SafeAddress: the backend has
                \* a settler's key, and the user an M2 Safe
  refills,      \* refills of the entry by other requests of the card
  otherPc,      \* where such a request stands
  otherSeen,    \* the entry it has built
  \* History: the entry as it was last written whole, the cents charged to the
  \* cache since and ever, and the deliveries that have charged it.
  epoch, since, total, chargedBy,
  watching,     \* the requests whose own WATCH still stands on their connection
  blind,        \* an EXEC has run without its WATCH since the entry was last written whole
  lapsed        \* an EXEC has ever run so, or a refill missed a charge already made

redis == <<authCache, cardMapping, processed, watch>>
db    == <<card, kycApproved, ledger, transactions, spentInDb>>
local == <<pc, seen, tries, answer, background>>
other == <<refills, otherPc, otherSeen>>
host  == <<crashes, processOf, settles, other>>
books == <<epoch, since, total, chargedBy, blind, lapsed>>
hist  == <<books, watching>>
vars  == <<redis, db, jobs, local, host, hist>>

Token(d)  == TokenOf[d]
Cents(d)  == AmountOf[Token(d)]
Conn(d)   == processOf[d]

Engine   == {"lookup", "kyc", "cache", "refresh", "fill", "map", "reload", "mcc",
             "spend", "watch", "get", "exec", "approve"}
Handler  == {"received", "mark", "context"}
Status   == {"active", "frozen", "cancelled"}
Answer   == {"none", "APPROVED", "DECLINED", "lost"}

TypeOK ==
  /\ authCache \in AuthorizationCache \cup {Missing}
  /\ cardMapping \in Status \cup {"none"}
  /\ processed \in [TxTokens -> {"none", "APPROVED", "DECLINED"}]
  /\ watch \in [Processes -> {"none", "clean", "dirty"}]
  /\ card \in [status : Status, limit : [Period -> Nat]]
  /\ kycApproved \in BOOLEAN
  /\ ledger \in Nat
  /\ transactions \in [TxTokens -> {"none", "approved", "declined"}]
  /\ spentInDb \in Nat
  /\ jobs \subseteq [token : TxTokens, amount : Nat]
  /\ pc \in [Deliveries -> {"idle", "done"} \cup Engine \cup Handler]
  /\ seen \in [Deliveries -> AuthorizationCache \cup {Missing}]
  /\ tries \in [Deliveries -> 0 .. MAX_ATOMIC_RETRIES - 1]
  /\ answer \in [Deliveries -> Answer]
  /\ background \in [Deliveries -> {"none", "create", "enqueue", "lost"}]
  /\ crashes \in 0 .. MaxCrashes
  /\ processOf \in [Deliveries -> Processes]
  /\ settles \in BOOLEAN /\ refills \in 0 .. MaxRefills
  /\ otherPc \in {"idle", "fill", "map"}
  /\ otherSeen \in AuthorizationCache \cup {Missing}
  /\ otherPc = "fill" => otherSeen # Missing
  /\ epoch \in AuthorizationCache \cup {Missing}
  /\ since \in Nat /\ total \in Nat
  /\ chargedBy \subseteq Deliveries /\ watching \subseteq Deliveries
  /\ blind \in BOOLEAN /\ lapsed \in BOOLEAN

\* A card in use: issued, its mapping cached, no authorization cache yet.  Two
\* requests may reach one process, and then share its connection, or two.
Init ==
  /\ authCache = Missing
  /\ cardMapping = "active"
  /\ processed = [t \in TxTokens |-> "none"]
  /\ watch = [p \in Processes |-> "none"]
  /\ card = [status |-> "active", limit |-> InitialLimits]
  /\ kycApproved \in BOOLEAN
  /\ ledger = InitialLedger
  /\ transactions = [t \in TxTokens |-> "none"]
  /\ spentInDb = 0
  /\ jobs = {}
  /\ pc = [d \in Deliveries |-> "idle"]
  /\ seen = [d \in Deliveries |-> Missing]
  /\ tries = [d \in Deliveries |-> 0]
  /\ answer = [d \in Deliveries |-> "none"]
  /\ background = [d \in Deliveries |-> "none"]
  /\ crashes = 0
  /\ processOf \in [Deliveries -> Processes]
  /\ settles \in BOOLEAN
  /\ refills \in 0 .. MaxRefills /\ otherPc = "idle" /\ otherSeen = Missing
  /\ epoch = Missing /\ since = 0 /\ total = 0 /\ chargedBy = {}
  /\ watching = {} /\ blind = FALSE /\ lapsed = FALSE

-----------------------------------------------------------------------------
(* Redis *)

\* A write to a watched key fails the EXEC of every connection that watches it.
Dirtied(w) == [p \in Processes |-> IF w[p] = "clean" THEN "dirty" ELSE w[p]]

\* SET auth:{eoa} by a writer that has built the whole entry.
Overwrite(entry) ==
  /\ authCache' = entry
  /\ watch' = Dirtied(watch)
  /\ epoch' = entry
  /\ since' = 0
  /\ blind' = FALSE
  /\ lapsed' = (lapsed \/ \E p \in Period : entry.spent[p] # total)

\* What delivery d's spend adds to the books.
Charge(d, unwatched) ==
  /\ since' = since + Cents(d)
  /\ total' = total + Cents(d)
  /\ chargedBy' = chargedBy \cup {d}
  /\ blind' = (blind \/ unwatched)
  /\ lapsed' = (lapsed \/ unwatched)
  /\ UNCHANGED epoch

-----------------------------------------------------------------------------
(* The handler up to authorize() *)

Goto(d, next) == pc' = [pc EXCEPT ![d] = next]

\* authorize() returns: the handler goes on to mark the token.
Decide(d, result) ==
  /\ Goto(d, "mark")
  /\ answer' = [answer EXCEPT ![d] = result]

\* A signed, parsed request arrives.
Receive(d) ==
  /\ pc[d] = "idle"
  /\ Goto(d, "received")
  /\ UNCHANGED <<redis, db, jobs, seen, tries, answer, background, host, hist>>

\* The replay check: a token already processed gets its recorded answer.
Deduplicate(d) ==
  /\ pc[d] = "received"
  /\ IF processed[Token(d)] # "none"
     THEN Goto(d, "done") /\ answer' = [answer EXCEPT ![d] = processed[Token(d)]]
     ELSE IF Token(d) \in Authorizations /\ Cents(d) > 0
          THEN Goto(d, "lookup") /\ UNCHANGED answer
          ELSE Decide(d, "DECLINED")
  /\ UNCHANGED <<redis, db, jobs, seen, tries, background, host, hist>>

-----------------------------------------------------------------------------
(* authorize() *)

\* Steps 1 and 2: the mapping must be there and active.
LookupCard(d) ==
  /\ pc[d] = "lookup"
  /\ IF cardMapping = "active" THEN Goto(d, "kyc") /\ UNCHANGED answer ELSE Decide(d, "DECLINED")
  /\ UNCHANGED <<redis, db, jobs, seen, tries, background, host, hist>>

\* Step 3.
CheckKycStatus(d) ==
  /\ pc[d] = "kyc"
  /\ IF kycApproved THEN Goto(d, "cache") /\ UNCHANGED answer ELSE Decide(d, "DECLINED")
  /\ UNCHANGED <<redis, db, jobs, seen, tries, background, host, hist>>

\* Steps 4 to 6 on an entry just read.
CheckBalanceAndLimits(d, entry) ==
  IF Refuses(entry, Cents(d)) THEN Decide(d, "DECLINED") ELSE Goto(d, "mcc") /\ UNCHANGED answer

\* getOrBuildAuthCache, first GET.
GetAuthCache(d) ==
  /\ pc[d] = "cache"
  /\ IF authCache = Missing THEN Goto(d, "refresh") /\ UNCHANGED answer
     ELSE CheckBalanceAndLimits(d, authCache)
  /\ UNCHANGED <<redis, db, jobs, seen, tries, background, host, hist>>

\* The entry refreshCache builds from its newest active sub-account, the
\* transaction sums and the ledger.
FromDatabase ==
  [usdcBalance |-> ledger, spent |-> [p \in Period |-> spentInDb], limit |-> card.limit]

\* refreshCache reads the database; without an active sub-account it throws.
ReadForRefresh(d) ==
  /\ pc[d] = "refresh"
  /\ IF card.status = "active"
     THEN /\ seen' = [seen EXCEPT ![d] = FromDatabase]
          /\ Goto(d, "fill") /\ UNCHANGED answer
     ELSE Decide(d, "DECLINED") /\ UNCHANGED seen
  /\ UNCHANGED <<redis, db, jobs, tries, background, host, hist>>

FillAuthCache(d) ==
  /\ pc[d] = "fill"
  /\ Overwrite(seen[d])
  /\ Goto(d, "map")
  /\ UNCHANGED <<cardMapping, processed, db, jobs, seen, tries, answer, background, host>>
  /\ UNCHANGED <<total, chargedBy, watching>>

\* refreshCache's last write: the mapping of the sub-account it read as active.
RefreshMapping(d) ==
  /\ pc[d] = "map"
  /\ cardMapping' = "active"
  /\ Goto(d, "reload")
  /\ UNCHANGED <<authCache, processed, watch, db, jobs, seen, tries, answer, background, host, hist>>

ReloadAuthCache(d) ==
  /\ pc[d] = "reload"
  /\ IF authCache = Missing THEN Decide(d, "DECLINED") ELSE CheckBalanceAndLimits(d, authCache)
  /\ UNCHANGED <<redis, db, jobs, seen, tries, background, host, hist>>

\* Step 7.
CheckMccBlacklist(d) ==
  /\ pc[d] = "mcc"
  /\ IF Token(d) \in BlockedMcc THEN Decide(d, "DECLINED") ELSE Goto(d, "spend") /\ UNCHANGED answer
  /\ UNCHANGED <<redis, db, jobs, seen, tries, background, host, hist>>

\* The script tests again what steps 4 to 6 tested on an older entry.
ScriptRefusesMutant(d) == FALSE
ScriptRefuses(d) == Refuses(authCache, Cents(d))

\* Step 9, the Lua script: one atomic test and update.
AtomicAuthSpend(d) ==
  /\ pc[d] = "spend"
  /\ \/ /\ authCache = Missing
        /\ Goto(d, "watch")
        /\ UNCHANGED <<authCache, watch, answer, hist>>
     \/ /\ authCache # Missing /\ ScriptRefuses(d)
        /\ Decide(d, "DECLINED")
        /\ UNCHANGED <<authCache, watch, hist>>
     \/ /\ authCache # Missing /\ ~ScriptRefuses(d)
        /\ authCache' = Charged(authCache, Cents(d))
        /\ watch' = Dirtied(watch)
        /\ Charge(d, FALSE)
        /\ Goto(d, "approve")
        /\ UNCHANGED <<answer, watching>>
  /\ UNCHANGED <<cardMapping, processed, db, jobs, seen, tries, background, host>>

\* The fallback, updateAuthCacheSpend, on the process's connection.
Watch(d) ==
  /\ pc[d] = "watch"
  /\ watch' = [watch EXCEPT ![Conn(d)] = IF @ = "none" THEN "clean" ELSE @]
  /\ watching' = watching \cup {d}
  /\ Goto(d, "get")
  /\ UNCHANGED <<authCache, cardMapping, processed, db, jobs, seen, tries, answer, background, host, books>>

AttemptsLeftMutant(d) == tries[d] < MAX_ATOMIC_RETRIES
AttemptsLeft(d) == tries[d] + 1 < MAX_ATOMIC_RETRIES

\* Another attempt, or a decline after the last.
RetryWatchMutant(d) == Goto(d, "watch") /\ UNCHANGED <<tries, answer>>
RetryWatch(d) ==
  IF AttemptsLeft(d)
  THEN Goto(d, "watch") /\ tries' = [tries EXCEPT ![d] = @ + 1] /\ UNCHANGED answer
  ELSE Decide(d, "DECLINED") /\ UNCHANGED tries

\* UNWATCH and EXEC drop every watch of the connection, other requests' too.
Unwatched(d) == [watch EXCEPT ![Conn(d)] = "none"]
StillWatching(d) == {e \in watching : Conn(e) # Conn(d)}
Unwatch(d) == watch' = Unwatched(d) /\ watching' = StillWatching(d)

GetWatched(d) ==
  /\ pc[d] = "get"
  /\ \/ /\ authCache = Missing
        /\ Unwatch(d)
        /\ RetryWatch(d)
        /\ UNCHANGED seen
     \/ /\ authCache # Missing /\ Refuses(authCache, Cents(d))
        /\ Unwatch(d)
        /\ Decide(d, "DECLINED")
        /\ UNCHANGED <<seen, tries>>
     \/ /\ authCache # Missing /\ ~Refuses(authCache, Cents(d))
        /\ seen' = [seen EXCEPT ![d] = authCache]
        /\ Goto(d, "exec")
        /\ UNCHANGED <<watch, watching, tries, answer>>
  /\ UNCHANGED <<authCache, cardMapping, processed, db, jobs, background, host, books>>

\* EXEC fails when a key watched on the connection was written.
ExecFailsMutant(d) == FALSE
ExecFails(d) == watch[Conn(d)] = "dirty"

Exec(d) ==
  /\ pc[d] = "exec"
  /\ \/ /\ ExecFails(d)
        /\ Unwatch(d)
        /\ RetryWatch(d)
        /\ UNCHANGED <<authCache, books>>
     \/ /\ ~ExecFails(d)
        /\ authCache' = Charged(seen[d], Cents(d))
        /\ watch' = Dirtied(Unwatched(d))
        /\ watching' = StillWatching(d)
        /\ Charge(d, d \notin watching)
        /\ Goto(d, "approve")
        /\ UNCHANGED <<tries, answer>>
  /\ UNCHANGED <<cardMapping, processed, db, jobs, seen, background, host>>

\* Step 10.
Approve(d) ==
  /\ pc[d] = "approve"
  /\ Decide(d, "APPROVED")
  /\ UNCHANGED <<redis, db, jobs, seen, tries, background, host, hist>>

\* A passed deadline (checkDeadline runs after the spend too) or a failed call:
\* authorize() catches it and declines.  A spend already made stays made.
AuthorizeThrows(d) ==
  /\ MayFail
  /\ pc[d] \in Engine
  /\ Decide(d, "DECLINED")
  /\ UNCHANGED <<redis, db, jobs, seen, tries, background, host, hist>>

-----------------------------------------------------------------------------
(* The handler after authorize() *)

\* SET webhook:processed:{token}.
MarkProcessed(d) ==
  /\ pc[d] = "mark"
  /\ processed' = [processed EXCEPT ![Token(d)] = answer[d]]
  /\ Goto(d, "context")
  /\ UNCHANGED <<authCache, cardMapping, watch, db, jobs, seen, tries, answer, background, host, hist>>

\* The mapping is read again: without it neither a Transaction row nor a
\* settlement job is made.  The answer is sent before the row is written.
LoadContext(d) ==
  /\ pc[d] = "context"
  /\ Goto(d, "done")
  /\ background' = [background EXCEPT ![d] = IF cardMapping = "none" THEN "lost" ELSE "create"]
  /\ UNCHANGED <<redis, db, jobs, seen, tries, answer, host, hist>>

\* An exception in the handler outside authorize() answers DECLINED; a token
\* already marked APPROVED stays so, and its job is never enqueued.
HandlerThrows(d) ==
  /\ MayFail
  /\ pc[d] \in Handler
  /\ Goto(d, "done")
  /\ answer' = [answer EXCEPT ![d] = "DECLINED"]
  /\ background' = [background EXCEPT ![d] = IF pc[d] = "context" THEN "lost" ELSE "none"]
  /\ UNCHANGED <<redis, db, jobs, seen, tries, host, hist>>

\* What follows an insert that succeeded or whose error was caught and logged:
\* a job, when there is a service to take it and a Safe to settle from.
AfterCreateMutant(d, created) == "enqueue"
AfterCreateMutant2(d, created) ==
  IF answer[d] = "APPROVED" /\ settles /\ created THEN "enqueue" ELSE "none"
AfterCreate(d, created) ==
  IF answer[d] = "APPROVED" /\ settles THEN "enqueue" ELSE "none"

\* The row's userId is the mapping's subAccountId, which must be the id of a
\* user; and a token has one row.
RowAccepted(t) == SubAccountId \in UserIds /\ transactions[t] = "none"

CreateTransaction(d) ==
  /\ background[d] = "create"
  /\ LET created == RowAccepted(Token(d))
         status  == IF answer[d] = "APPROVED" THEN "approved" ELSE "declined"
     IN  /\ transactions' =
              IF created THEN [transactions EXCEPT ![Token(d)] = status] ELSE transactions
         /\ spentInDb' =
              IF created /\ status = "approved" THEN spentInDb + Cents(d) ELSE spentInDb
         /\ background' = [background EXCEPT ![d] = AfterCreate(d, created)]
  /\ UNCHANGED <<redis, card, kycApproved, ledger, jobs, pc, seen, tries, answer, host, hist>>

\* The job carries event.amount as it came.  A second job for the token has
\* the same jobId and is the same job.
Enqueue(d) ==
  /\ background[d] = "enqueue"
  /\ jobs' = jobs \cup {[token |-> Token(d), amount |-> AmountOf[Token(d)]]}
  /\ background' = [background EXCEPT ![d] = "none"]
  /\ UNCHANGED <<redis, db, pc, seen, tries, answer, host, hist>>

\* The error of an insert or of an enqueue is logged and dropped.
BackgroundFails(d) ==
  /\ MayFail
  /\ background[d] \in {"create", "enqueue"}
  /\ background' = [background EXCEPT ![d] =
       IF @ = "create" THEN AfterCreate(d, FALSE) ELSE "lost"]
  /\ UNCHANGED <<redis, db, jobs, pc, seen, tries, answer, host, hist>>

-----------------------------------------------------------------------------
(* The environment *)

\* TTLs run out: 300s on the authorization cache and the replay key, 24h on
\* the mapping.
AuthCacheExpires ==
  /\ "auth" \in Expirable /\ authCache # Missing
  /\ authCache' = Missing
  /\ watch' = Dirtied(watch)
  /\ UNCHANGED <<cardMapping, processed, db, jobs, local, host, hist>>

MappingExpires ==
  /\ "card" \in Expirable /\ cardMapping # "none"
  /\ cardMapping' = "none"
  /\ UNCHANGED <<authCache, processed, watch, db, jobs, local, host, hist>>

ProcessedExpires(t) ==
  /\ "processed" \in Expirable /\ processed[t] # "none"
  /\ processed' = [processed EXCEPT ![t] = "none"]
  /\ UNCHANGED <<authCache, cardMapping, watch, db, jobs, local, host, hist>>

\* Another request of the card, one that its category, say, will decline, goes
\* through the same refreshCache: its GET found no entry at the beginning.
OtherReads ==
  /\ refills < MaxRefills
  /\ refills' = refills + 1
  /\ otherPc = "idle" /\ card.status = "active"
  /\ otherPc' = "fill"
  /\ otherSeen' = FromDatabase
  /\ UNCHANGED <<redis, db, jobs, local, crashes, processOf, settles, hist>>

OtherFills ==
  /\ otherPc = "fill"
  /\ Overwrite(otherSeen)
  /\ otherPc' = "map"
  /\ otherSeen' = Missing
  /\ UNCHANGED <<cardMapping, processed, db, jobs, local, crashes, processOf, settles, refills>>
  /\ UNCHANGED <<total, chargedBy, watching>>

OtherMaps ==
  /\ otherPc = "map"
  /\ cardMapping' = "active"
  /\ otherPc' = "idle"
  /\ UNCHANGED <<authCache, processed, watch, db, jobs, local, crashes, processOf, settles, refills,
                 otherSeen, hist>>

\* A process dies with its requests, its promise chains and its connection.
Crash(p) ==
  /\ crashes < MaxCrashes
  /\ crashes' = crashes + 1
  /\ LET lost == {d \in Deliveries : Conn(d) = p /\ pc[d] \notin {"idle", "done"}}
     IN  /\ pc' = [d \in Deliveries |-> IF d \in lost THEN "done" ELSE pc[d]]
         /\ answer' = [d \in Deliveries |-> IF d \in lost THEN "lost" ELSE answer[d]]
  /\ background' = [d \in Deliveries |-> IF Conn(d) = p THEN "none" ELSE background[d]]
  /\ watch' = [watch EXCEPT ![p] = "none"]
  /\ watching' = {d \in watching : Conn(d) # p}
  /\ UNCHANGED <<authCache, cardMapping, processed, db, jobs, seen, tries>>
  /\ UNCHANGED <<processOf, settles, other, books>>

-----------------------------------------------------------------------------
\* The request's own code, which runs as long as its process does.
Serve(d) ==
  \/ Deduplicate(d) \/ LookupCard(d) \/ CheckKycStatus(d) \/ GetAuthCache(d)
  \/ ReadForRefresh(d) \/ FillAuthCache(d) \/ RefreshMapping(d) \/ ReloadAuthCache(d)
  \/ CheckMccBlacklist(d) \/ AtomicAuthSpend(d) \/ Watch(d) \/ GetWatched(d) \/ Exec(d)
  \/ Approve(d) \/ MarkProcessed(d)
  \/ AuthorizeThrows(d) \/ HandlerThrows(d)

Step(d) == Serve(d) \/ LoadContext(d)

Background(d) == CreateTransaction(d) \/ Enqueue(d) \/ BackgroundFails(d)

Expires == AuthCacheExpires \/ MappingExpires \/ \E t \in TxTokens : ProcessedExpires(t)

OthersRefill == OtherReads \/ OtherFills \/ OtherMaps

Next ==
  \/ \E d \in Deliveries : Receive(d) \/ Step(d) \/ Background(d)
  \/ Expires
  \/ OthersRefill
  \/ \E p \in Processes : Crash(p)

Spec == Init /\ [][Next]_vars

\* Node runs every ready continuation; Lithic owes no delivery, and nothing
\* makes a key expire or a process crash.
Fairness == \A d \in Deliveries : WF_vars(Step(d)) /\ WF_vars(Background(d))

FairSpec == Spec /\ Fairness

-----------------------------------------------------------------------------
(* Properties *)

\* What the entry has left, and what it counts as spent, is what its last full
\* write held, less and plus every charge made since.
AddsUp ==
  /\ authCache.usdcBalance + since = epoch.usdcBalance
  /\ \A p \in Period : authCache.spent[p] = epoch.spent[p] + since
  /\ authCache.limit = epoch.limit

Shared == \E d, e \in Deliveries : d # e /\ Conn(d) = Conn(e)

\* A spend is lost from the entry only if two requests share a connection and
\* the UNWATCH or EXEC of one has dropped the other's WATCH before its EXEC:
\* however else Lua scripts and WATCH transactions interleave, every charge
\* made since the entry was last written whole is in it.
SpendLostOnlyIf == authCache # Missing => AddsUp \/ (blind /\ Shared)

\* The authorizations charged between two full writes of the entry exceed its
\* balance or its limits together only if such an EXEC was among them; and all
\* those ever charged exceed the card's limits together only if there has been
\* one, or a refill was stored that missed a charge: one whose row was not in
\* the database when the refill read it.
OverLimitOnlyIf ==
  /\ since > 0 /\ ~blind =>
       /\ since <= epoch.usdcBalance
       /\ \A p \in Period : epoch.limit[p] > 0 => epoch.spent[p] + since <= epoch.limit[p]
  /\ ~lapsed => \A p \in Period : card.limit[p] > 0 => total <= card.limit[p]

\* An approval rests on a spend: a token answered APPROVED, recorded as
\* APPROVED, inserted as approved or handed to settlement has been charged by
\* some delivery, through replays, retries, failures and crashes.
ApprovedIsCharged ==
  \A t \in TxTokens :
    \/ \E d \in chargedBy : Token(d) = t
    \/ /\ processed[t] # "APPROVED"
       /\ transactions[t] # "approved"
       /\ \A j \in jobs : j.token # t
       /\ \A d \in Deliveries : Token(d) = t => answer[d] # "APPROVED"

\* Every request is answered, or lost with its process.
EveryDeliveryAnswered == \A d \in Deliveries : pc[d] = "received" ~> pc[d] = "done"

\* An approved authorization gets its settlement job, whatever becomes of its
\* row, where the backend has a settler's key and the user an M2 Safe: then only
\* a queue that refuses it, a mapping that is gone or cannot be read once the
\* token is marked, or the death of a process, which holds the job in memory,
\* loses one.
ApprovedIsEnqueued ==
  \A d \in Deliveries :
    (pc[d] = "done" /\ answer[d] = "APPROVED") ~>
      \/ \E j \in jobs : j.token = Token(d)
      \/ \E e \in Deliveries : Token(e) = Token(d) /\ background[e] = "lost"
      \/ crashes > 0 \/ ~settles

\* infrastructure.md:482, "Replay protection | 5-minute dedup key for processed
\* webhook tokens": while the key lives, a token is charged once.
ReplayChargesOnce ==
  \A d, e \in chargedBy : Token(d) = Token(e) => d = e
=============================================================================
