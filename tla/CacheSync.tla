------------------------------ MODULE CacheSync ------------------------------
(***************************************************************************)
(* Who writes a user's authorization cache entry, and over whom: the Lua   *)
(* script of an authorization changes it atomically, while the Watcher's   *)
(* reconcile() and updateRedisCacheForDeposit(), the engine's              *)
(* refreshCache() and the WATCH/MULTI/EXEC fallback of an authorization    *)
(* read first and SET the whole entry afterwards.                          *)
(*                                                                         *)
(* A writer is one run of one of those four in some process; its actions   *)
(* are the code between its awaits.  Every write renews the entry's TTL    *)
(* and nothing resets its spends with the day or the month: they are those *)
(* of the entry's life.                                                    *)
(***************************************************************************)
EXTENDS AuthCache, FiniteSets

CONSTANTS
  Writers, Spends,
  AmountOf,       \* AmountOf[s]: what an authorization charges
  Limit,          \* the limits of the card's SubAccount row
  Funds,          \* the Safe's first balance, all of it in BalanceLedger
  MaxDeposits,    \* bound: deposits of one unit
  MaxFailures,    \* bound: writers whose RPC, Redis or database call fails
  MaxExpiries,    \* bound: how often the entry's TTL runs out
  Missing         \* Redis' answer for a key that is not there

ASSUME CacheSyncAssumption ==
  /\ AmountOf \in [Spends -> Nat]
  /\ Limit \in [Period -> Nat]
  /\ Funds \in Nat /\ MaxDeposits \in Nat /\ MaxFailures \in Nat /\ MaxExpiries \in Nat
  /\ Missing \notin AuthorizationCache

VARIABLES
  authCache,  \* auth:{eoa}, an AuthorizationCache or Missing
  onChain,    \* the Safe's USDC balance
  ledger,     \* the net of the user's BalanceLedger rows
  charged,    \* the authorizations that charged the entry
  settled,    \* those whose settlement has left the Safe
  stage,      \* stage[w]: where the writer stands
  balance,    \* balance[w]: the chain balance it has read
  held,       \* held[w]: the entry it is about to write
  paying,     \* paying[w]: the authorization in the fallback, none or one
  deposits, failedSyncs, expiries,
  \* History: the total charged, the part of it charged while another writer
  \* held an entry to write, the total when the entry last expired, and whether
  \* the Watcher rebuilt an entry it did not find.
  total, atRisk, before, bare

counts   == <<deposits, failedSyncs, expiries>>
syncHist == <<total, atRisk, before, bare>>
syncVars == <<authCache, onChain, ledger, charged, settled, stage, balance, held, paying, counts,
              syncHist>>

\* The writer is about to write an entry it has read or computed.
Holding(w) == stage[w] \in {"write", "exec"}

SyncTypeOK ==
  /\ authCache \in AuthorizationCache \cup {Missing}
  /\ onChain \in Nat /\ ledger \in Nat
  /\ settled \subseteq charged /\ charged \subseteq Spends
  /\ stage \in [Writers -> {"idle", "entry", "write", "fallback", "exec"}]
  /\ balance \in [Writers -> Nat]
  /\ held \in [Writers -> AuthorizationCache \cup {Missing}]
  /\ \A w \in Writers : Holding(w) => held[w] # Missing
  /\ paying \in [Writers -> SUBSET Spends]
  /\ \A w \in Writers : stage[w] \in {"fallback", "exec"} => \E s \in Spends : paying[w] = {s}
  /\ deposits \in 0 .. MaxDeposits
  /\ failedSyncs \in 0 .. MaxFailures
  /\ expiries \in 0 .. MaxExpiries
  /\ total \in Nat /\ atRisk \in Nat /\ before \in Nat /\ bare \in BOOLEAN

SyncInit ==
  /\ authCache = Missing
  /\ onChain = Funds /\ ledger = Funds
  /\ charged = {} /\ settled = {}
  /\ stage = [w \in Writers |-> "idle"]
  /\ balance = [w \in Writers |-> 0]
  /\ held = [w \in Writers |-> Missing]
  /\ paying = [w \in Writers |-> {}]
  /\ deposits = 0 /\ failedSyncs = 0 /\ expiries = 0
  /\ total = 0 /\ atRisk = 0 /\ before = 0 /\ bare = FALSE

MoveTo(w, next) == stage' = [stage EXCEPT ![w] = next]
Hold(w, entry) == held' = [held EXCEPT ![w] = entry]

-----------------------------------------------------------------------------
(* The chain, the ledger and the card *)

Deposit ==
  /\ deposits < MaxDeposits
  /\ deposits' = deposits + 1
  /\ onChain' = onChain + 1
  /\ UNCHANGED <<authCache, ledger, charged, settled, stage, balance, held, paying, failedSyncs,
                 expiries, syncHist>>

\* The Watcher's ledger rows of the deposits made so far.
Credit ==
  /\ ledger' = Funds + deposits
  /\ UNCHANGED <<authCache, onChain, charged, settled, stage, balance, held, paying, counts, syncHist>>

\* The Safe pays an authorization, if it can.
Settle(s) ==
  /\ s \in charged \ settled
  /\ onChain >= AmountOf[s]
  /\ onChain' = onChain - AmountOf[s]
  /\ settled' = settled \cup {s}
  /\ UNCHANGED <<authCache, ledger, charged, stage, balance, held, paying, counts, syncHist>>

Unpaid(s) == s \notin charged /\ \A w \in Writers : s \notin paying[w]

\* The histories of a charge made while the others may hold an entry.
Count(s, others) ==
  /\ charged' = charged \cup {s}
  /\ total' = total + AmountOf[s]
  /\ atRisk' = IF \E w \in others : Holding(w) THEN atRisk + AmountOf[s] ELSE atRisk
  /\ UNCHANGED <<before, bare>>

\* atomicAuthSpend() on the entry as it stands.
Spend(s) ==
  /\ Unpaid(s)
  /\ authCache # Missing
  /\ ~Refuses(authCache, AmountOf[s])
  /\ authCache' = Charged(authCache, AmountOf[s])
  /\ Count(s, Writers)
  /\ UNCHANGED <<onChain, ledger, settled, stage, balance, held, paying, counts>>

Expire ==
  /\ expiries < MaxExpiries
  /\ authCache # Missing
  /\ authCache' = Missing
  /\ expiries' = expiries + 1
  /\ before' = total
  /\ UNCHANGED <<onChain, ledger, charged, settled, stage, balance, held, paying, deposits,
                 failedSyncs, total, atRisk, bare>>

-----------------------------------------------------------------------------
(* The writers *)

\* refreshCache() reads the database for an entry it did not find.  No
\* authorization has an approved Transaction row, for its userId is that of a
\* SubAccount (webhooks.ts:111): the spends start at 0.
ReadForRefresh(w) ==
  /\ stage[w] = "idle"
  /\ authCache = Missing
  /\ Hold(w, [usdcBalance |-> ledger, spent |-> [p \in Period |-> 0], limit |-> Limit])
  /\ MoveTo(w, "write")
  /\ UNCHANGED <<authCache, onChain, ledger, charged, settled, balance, paying, counts, syncHist>>

\* reconcile() or a deposit: balanceOf first ...
ReadBalance(w) ==
  /\ stage[w] = "idle"
  /\ balance' = [balance EXCEPT ![w] = onChain]
  /\ MoveTo(w, "entry")
  /\ UNCHANGED <<authCache, onChain, ledger, charged, settled, held, paying, counts, syncHist>>

\* ... then the entry, whose spends and limits go into the new one.
PreservedSpentMutant(entry) == [p \in Period |-> 0]
PreservedSpent(entry) == IF entry = Missing THEN [p \in Period |-> 0] ELSE entry.spent

PreservedLimitMutant(entry) == [p \in Period |-> 0]
PreservedLimit(entry) == IF entry = Missing THEN [p \in Period |-> 0] ELSE entry.limit

FreshBalanceMutant(w) == IF authCache = Missing THEN balance[w] ELSE authCache.usdcBalance
FreshBalance(w) == balance[w]

GetAuthCache(w) ==
  /\ stage[w] = "entry"
  /\ Hold(w, [usdcBalance |-> FreshBalance(w), spent |-> PreservedSpent(authCache),
              limit |-> PreservedLimit(authCache)])
  /\ balance' = [balance EXCEPT ![w] = 0]
  /\ MoveTo(w, "write")
  /\ bare' = (bare \/ authCache = Missing)
  /\ UNCHANGED <<authCache, onChain, ledger, charged, settled, paying, counts, total, atRisk, before>>

SetAuthCache(w) ==
  /\ stage[w] = "write"
  /\ authCache' = held[w]
  /\ Hold(w, Missing)
  /\ MoveTo(w, "idle")
  /\ UNCHANGED <<onChain, ledger, charged, settled, balance, paying, counts, syncHist>>

\* An authorization whose script found no entry goes on to the fallback.
ScriptMisses(w, s) ==
  /\ stage[w] = "idle"
  /\ Unpaid(s)
  /\ authCache = Missing
  /\ paying' = [paying EXCEPT ![w] = {s}]
  /\ MoveTo(w, "fallback")
  /\ UNCHANGED <<authCache, onChain, ledger, charged, settled, balance, held, counts, syncHist>>

\* An attempt of the fallback ends with nothing written, and with it, unless
\* another follows, the authorization.
GivesUp(w) ==
  /\ stage[w] = "fallback"
  /\ paying' = [paying EXCEPT ![w] = {}]
  /\ MoveTo(w, "idle")
  /\ UNCHANGED <<authCache, onChain, ledger, charged, settled, balance, held, counts, syncHist>>

\* updateAuthCacheSpend(): WATCH and GET ...
GetWatched(w) ==
  /\ stage[w] = "fallback"
  /\ authCache # Missing
  /\ \E s \in paying[w] :
       /\ ~Refuses(authCache, AmountOf[s])
       /\ Hold(w, Charged(authCache, AmountOf[s]))
  /\ MoveTo(w, "exec")
  /\ UNCHANGED <<authCache, onChain, ledger, charged, settled, balance, paying, counts, syncHist>>

\* ... and EXEC, which writes if the entry is the one it read, and whatever the
\* entry is by now if a request of another user on the same connection has
\* ended the WATCH.
Exec(w) ==
  /\ stage[w] = "exec"
  /\ authCache' = held[w]
  /\ \E s \in paying[w] : Count(s, Writers \ {w})
  /\ Hold(w, Missing)
  /\ paying' = [paying EXCEPT ![w] = {}]
  /\ MoveTo(w, "idle")
  /\ UNCHANGED <<onChain, ledger, settled, balance, counts>>

ExecRefused(w) ==
  /\ stage[w] = "exec"
  /\ authCache # Missing => \A s \in paying[w] : held[w] # Charged(authCache, AmountOf[s])
  /\ Hold(w, Missing)
  /\ MoveTo(w, "fallback")
  /\ UNCHANGED <<authCache, onChain, ledger, charged, settled, balance, paying, counts, syncHist>>

\* A failed call is logged and ends the run.
WriterFails(w) ==
  /\ failedSyncs < MaxFailures
  /\ stage[w] # "idle"
  /\ failedSyncs' = failedSyncs + 1
  /\ MoveTo(w, "idle")
  /\ Hold(w, Missing)
  /\ balance' = [balance EXCEPT ![w] = 0]
  /\ paying' = [paying EXCEPT ![w] = {}]
  /\ UNCHANGED <<authCache, onChain, ledger, charged, settled, deposits, expiries, syncHist>>

-----------------------------------------------------------------------------
Sync(w) == ReadBalance(w) \/ GetAuthCache(w) \/ SetAuthCache(w)

Fallback(w) == GivesUp(w) \/ GetWatched(w) \/ Exec(w) \/ ExecRefused(w)

SyncNext ==
  \/ Deposit \/ Credit \/ Expire
  \/ \E s \in Spends : Settle(s) \/ Spend(s)
  \/ \E w \in Writers : ReadForRefresh(w) \/ Sync(w) \/ Fallback(w) \/ WriterFails(w)
  \/ \E w \in Writers, s \in Spends : ScriptMisses(w, s)

SyncSpec == SyncInit /\ [][SyncNext]_syncVars

\* reconcile() re-arms its timer in a finally block, so that every process
\* syncs again and again; a fallback goes on by itself, to its end.
SyncFairSpec == SyncSpec /\ \A w \in Writers : WF_syncVars(Sync(w) \/ Fallback(w))

-----------------------------------------------------------------------------
(* Properties *)

\* The card's limits are lost only where the Watcher rebuilds an entry that was
\* not there, with limits of 0: no other order of writers drops or mixes them.
LimitsKept == authCache # Missing /\ ~bare => authCache.limit = Limit

\* The entry never counts more spends than were made, whatever stale entry is
\* written back; and it misses only what was charged between another writer's
\* read and its write, or before the entry last expired.
SpentAccounted ==
  authCache # Missing =>
    \A p \in Period :
      /\ authCache.spent[p] <= total
      /\ total <= authCache.spent[p] + atRisk + before

\* The cached balance converges to the Safe's: the errors of concurrent writers,
\* of a stale ledger and of spends that never settle do not stay.
BalanceConverges == <>[](authCache # Missing => authCache.usdcBalance = onChain)
=============================================================================
