----------------------------- MODULE YieldManager -----------------------------
(***************************************************************************)
(* The yield manager (backend/src/services/yield-manager.ts) over the      *)
(* treasury: on a timer it reads every tenant's position and the vault's   *)
(* rate and writes what it takes for the tenant's yield in the YieldLedger *)
(* (snapshotYield), then pays the platform its part and credits the tenant *)
(* in the BalanceLedger (allocateYield).  Each await is a step of its own, *)
(* between which the chain moves; the next snapshot may begin while the    *)
(* last one's allocations are under way.                                   *)
(*                                                                         *)
(* The platform's transfer is sent to the treasury Safe as a call of the   *)
(* Safe itself, whose fallback is external: only its receipt is modelled.  *)
(* The sweep and the top-up are left out.                                  *)
(***************************************************************************)
EXTENDS Treasury, Sequences, FiniteSetsExt

CONSTANTS
    MinYield,   \* ALLOCATION_MIN_YIELD
    MaxRows     \* bound on yieldLedger

NotRead == [tenant |-> {}, deposited |-> 0, shares |-> 0, moves |-> 0]

VARIABLES
    todo,         \* tenants the running snapshot has yet to read
    reading,      \* the position it holds while it awaits the vault's rate
    results,      \* rows the running snapshot wrote
    yieldLedger,  \* YieldLedger: a sequence of [tenant, totalYield, moves]
    eligible,     \* rows allocateYield() has yet to pay for
    paid,         \* rows whose transfer has its receipt
    credited,     \* rows with entries in the BalanceLedger
    moves         \* history: how often a tenant's position has changed

cycle == <<todo, reading, results>>
ledgers == <<yieldLedger, credited>>
allocations == <<eligible, paid>>
ymVars == <<cycle, ledgers, allocations, moves>>
chain == <<vars, moves>>

YmInit ==
    /\ Init
    /\ todo = {}
    /\ reading = NotRead
    /\ results = {}
    /\ yieldLedger = << >>
    /\ eligible = {}
    /\ paid = {}
    /\ credited = {}
    /\ moves = [t \in Tenants |-> 0]

-------------------------------------------------------------------------------
(* snapshotYield().                                                        *)

Idle == todo = {} /\ reading = NotRead /\ results = {}

\* The timer fires and the active tenants are read.
FindTenants ==
    /\ Idle
    /\ Len(yieldLedger) < MaxRows
    /\ todo' = Tenants
    /\ UNCHANGED <<reading, results, ledgers, allocations, chain>>

\* getTenantPosition() returns shares, then depositedAmount; the manager's ABI
\* names the first word deposited and the second shares.
Decoded(t) ==
    [tenant |-> t, deposited |-> position[t].shares, shares |-> position[t].depositedAmount,
     moves |-> moves[t]]

ReadPosition(t) ==
    /\ t \in todo
    /\ reading = NotRead
    /\ todo' = todo \ {t}
    /\ reading' = IF Decoded(t).shares = 0 THEN NotRead ELSE Decoded(t)
    /\ UNCHANGED <<results, ledgers, allocations, chain>>

\* A read or the insert fails, and the loop goes on to the next tenant.
ReadFails(t) ==
    /\ t \in todo
    /\ reading = NotRead
    /\ todo' = todo \ {t}
    /\ UNCHANGED <<reading, results, ledgers, allocations, chain>>

\* The rate is that of the vault in the configuration.
UnrealizedYield ==
    LET currentValue == convertToAssets(FirstVault, reading.shares) IN
      IF currentValue > reading.deposited THEN currentValue - reading.deposited ELSE 0

RecordSnapshot ==
    /\ reading # NotRead
    /\ yieldLedger' = Append(yieldLedger, [tenant |-> reading.tenant, totalYield |-> UnrealizedYield,
                                          moves |-> reading.moves])
    /\ results' = results \cup {Len(yieldLedger')}
    /\ reading' = NotRead
    /\ UNCHANGED <<todo, credited, allocations, chain>>

\* allocateYield() takes the rows with enough yield; the timer is set again.
SnapshotEnds ==
    /\ todo = {} /\ reading = NotRead /\ results # {}
    /\ eligible' = eligible \cup {row \in results : yieldLedger[row].totalYield >= MinYield}
    /\ results' = {}
    /\ UNCHANGED <<todo, reading, ledgers, paid, chain>>

-------------------------------------------------------------------------------
(* allocateYield(), for one row.                                           *)

TransferPlatformShare(row) ==
    /\ row \in eligible
    /\ eligible' = eligible \ {row}
    /\ paid' = paid \cup {row}
    /\ UNCHANGED <<cycle, ledgers, chain>>

\* The transfer reverts or throws: the row is passed over.
TransferFails(row) ==
    /\ row \in eligible
    /\ eligible' = eligible \ {row}
    /\ UNCHANGED <<cycle, ledgers, paid, chain>>

\* The entries go to the tenant's first active user, if it has one.
CreditTenant(row, hasUser) ==
    /\ row \in paid
    /\ paid' = paid \ {row}
    /\ credited' = IF hasUser THEN credited \cup {row} ELSE credited
    /\ UNCHANGED <<cycle, yieldLedger, eligible, chain>>

\* The process stops; what it held in memory is gone.
Crash ==
    /\ todo' = {}
    /\ reading' = NotRead
    /\ results' = {}
    /\ eligible' = {}
    /\ paid' = {}
    /\ UNCHANGED <<ledgers, chain>>

YmStep ==
    \/ FindTenants \/ RecordSnapshot \/ SnapshotEnds \/ Crash
    \/ \E t \in Tenants : ReadPosition(t) \/ ReadFails(t)
    \/ \E row \in eligible : TransferPlatformShare(row) \/ TransferFails(row)
    \/ \E row \in paid, hasUser \in BOOLEAN : CreditTenant(row, hasUser)

ChainStep ==
    /\ Next
    /\ moves' = [t \in Tenants |-> IF position'[t] = position[t] THEN moves[t] ELSE moves[t] + 1]
    /\ UNCHANGED <<cycle, ledgers, allocations>>

YmNext == YmStep \/ ChainStep

YmSpec == YmInit /\ [][YmNext]_<<vars, ymVars>>

-------------------------------------------------------------------------------
CreditedYield(t, n) ==
    MapThenSumSet(LAMBDA row : yieldLedger[row].totalYield,
                  {row \in credited : yieldLedger[row].tenant = t /\ yieldLedger[row].moves = n})

\* infrastructure.md:321, "Splits realized yield": yield is allocated once.  While
\* nothing is deposited or withdrawn for a tenant, what was allocated to it never
\* exceeds the most yield a snapshot saw (allocateYield over successive snapshots).
YieldAllocatedOnce ==
    \A row \in credited :
      LET r == yieldLedger[row] IN
        \E seen \in DOMAIN yieldLedger :
          /\ yieldLedger[seen].tenant = r.tenant /\ yieldLedger[seen].moves = r.moves
          /\ CreditedYield(r.tenant, r.moves) <= yieldLedger[seen].totalYield
===============================================================================
