------------------------------- MODULE Treasury -------------------------------
(***************************************************************************)
(* The M1 treasury Safe and the two modules that move its money: the       *)
(* TreasuryVault (contracts/src/TreasuryVault.sol), which deposits in one  *)
(* Morpho vault and keeps each tenant's share of the position, and the     *)
(* DeFiInteractor (contracts/src/DeFiInteractor.sol), which deposits in    *)
(* and withdraws from the same vaults with no idea of tenants.  A call is  *)
(* one transaction, so one action; a call that reverts is no step.         *)
(*                                                                         *)
(* Left out: the operator and owner roles (every call is by the account    *)
(* its modifier wants), pausing and the slippage bounds (they only make    *)
(* calls revert), snapshotYield(), which records what no call reads, and   *)
(* events.  Morpho vaults and the Aave pool are external: a vault has an   *)
(* exchange rate, RateScale for one to one, rounds deposits and            *)
(* redemptions down and withdrawals up; the pool keeps USDC and the shares *)
(* of a vault alike, its interest and its loans left out.  An approval     *)
(* given through claimRewards() is one with its use.                       *)
(***************************************************************************)
EXTENDS Integers, FiniteSets, Functions

CONSTANTS
    Tenants,     \* bytes32 tenant ids
    Vaults,      \* Morpho vaults
    FirstVault,  \* the vault TreasuryVault is constructed with
    AavePool, Distributor,
    USDC,        \* the token's address, as supplyToAave() is given it
    Rates,       \* exchange rates a vault may show, in assets per RateScale shares
    RateScale,
    Amounts,     \* amounts a call may ask for
    Funds,       \* the Safe's USDC to begin with
    MaxFunds,    \* bound on what the Safe holds, in USDC and shares
    MaxListed,   \* bound on the allowlist
    MaxEarned    \* bound on earned

Venues == Vaults \cup {AavePool, Distributor}
Assets == Vaults \cup {USDC}     \* a vault is the token of its shares

ASSUME ConstantsOK ==
    /\ IsFiniteSet(Tenants)
    /\ FirstVault \in Vaults /\ USDC \notin Vaults
    /\ RateScale \in Nat \ {0} /\ RateScale \in Rates
    /\ Rates \subseteq Nat \ {0}
    /\ Amounts \subseteq Nat \ {0}
    /\ Funds \in Nat

VARIABLES
    usdc,                \* the Safe's USDC
    vaultShares,         \* the Safe's shares of each vault
    aave,                \* what the Aave pool keeps for the Safe, of each asset
    rate,                \* the exchange rate of each vault
    position,            \* TreasuryVault: _tenantPositions
    totalTenantShares,   \* TreasuryVault
    totalDeposited,      \* TreasuryVault
    morphoVault,         \* TreasuryVault
    treasuryVault,       \* DeFiInteractor: whether setTreasuryVault() was called
    isAllowlistedVault,  \* DeFiInteractor: the venues on the allowlist
    earned,              \* history: RateScale times what the shares each tenant still has grew by
    unchecked            \* history: the last call checked nothing and took the tenants' vault's shares

safe == <<usdc, aave, vaultShares>>
books == <<position, totalTenantShares, totalDeposited>>
settings == <<morphoVault, treasuryVault, isAllowlistedVault>>
vars == <<safe, rate, books, settings, earned, unchecked>>

NoPosition == [shares |-> 0, depositedAmount |-> 0]

Init ==
    /\ usdc = Funds
    /\ aave = [asset \in Assets |-> 0]
    /\ vaultShares = [v \in Vaults |-> 0]
    /\ rate = [v \in Vaults |-> RateScale]
    /\ position = [t \in Tenants |-> NoPosition]
    /\ totalTenantShares = 0
    /\ totalDeposited = 0
    /\ morphoVault = FirstVault
    /\ treasuryVault = FALSE
    /\ isAllowlistedVault = {}
    /\ earned = [t \in Tenants |-> 0]
    /\ unchecked = FALSE

-------------------------------------------------------------------------------
(* The Morpho vaults, as the Safe sees them.                               *)

SharesMinted(v, assets) == (assets * RateScale) \div rate[v]
previewWithdraw(v, assets) == (assets * RateScale + rate[v] - 1) \div rate[v]
convertToAssets(v, shares) == (shares * rate[v]) \div RateScale

\* The Safe's balances when it puts assets in a vault, and when it burns
\* shares of it for assets; both fail, and the call reverts, without cover.
Puts(v, assets) ==
    /\ assets <= usdc
    /\ usdc' = usdc - assets
    /\ vaultShares' = [vaultShares EXCEPT ![v] = @ + SharesMinted(v, assets)]
    /\ UNCHANGED aave

Burns(v, shares, assets) ==
    /\ shares <= vaultShares[v]
    /\ usdc' = usdc + assets
    /\ vaultShares' = [vaultShares EXCEPT ![v] = @ - shares]
    /\ UNCHANGED aave

-------------------------------------------------------------------------------
(* TreasuryVault.                                                          *)

\* Mutants of DepositReduction: the basis falls by what was paid out; the part
\* is taken of all tenants' shares.
DepositReductionMutant(t, burned) == convertToAssets(morphoVault, burned)
DepositReductionMutant2(t, burned) ==
    (position[t].depositedAmount * burned) \div totalTenantShares

\* Proportional basis reduction, computed before the shares go.
DepositReduction(t, burned) ==
    (position[t].depositedAmount * burned) \div position[t].shares

Reduced(p, burned, reduction) ==
    IF p.shares = burned
      THEN [p EXCEPT !.shares = 0, !.depositedAmount = 0]
      ELSE [p EXCEPT !.shares = @ - burned, !.depositedAmount = @ - reduction]

BurnForTenant(t, burned) ==
    LET reduction == DepositReduction(t, burned) IN
      /\ burned <= position[t].shares
      /\ position' = [position EXCEPT ![t] = Reduced(@, burned, reduction)]
      /\ totalTenantShares' = totalTenantShares - burned
      /\ totalDeposited' = totalDeposited - reduction
      /\ earned' = [earned EXCEPT ![t] = @ - (@ * burned) \div position[t].shares]

depositForTenant(t, usdcAmount) ==
    LET shares == SharesMinted(morphoVault, usdcAmount) IN
      /\ Puts(morphoVault, usdcAmount)
      /\ shares > 0
      /\ position' = [position EXCEPT ![t].shares = @ + shares,
                                      ![t].depositedAmount = @ + usdcAmount]
      /\ totalTenantShares' = totalTenantShares + shares
      /\ totalDeposited' = totalDeposited + usdcAmount
      /\ UNCHANGED <<rate, settings, earned>>

withdrawForTenant(t, usdcAmount) ==
    LET burned == previewWithdraw(morphoVault, usdcAmount) IN
      /\ Burns(morphoVault, burned, usdcAmount)
      /\ BurnForTenant(t, burned)
      /\ UNCHANGED <<rate, settings>>

redeemForTenant(t, shares) ==
    /\ Burns(morphoVault, shares, convertToAssets(morphoVault, shares))
    /\ BurnForTenant(t, shares)
    /\ UNCHANGED <<rate, settings>>

getYieldForTenant(t) ==
    LET currentValue == convertToAssets(morphoVault, position[t].shares) IN
      IF currentValue > position[t].depositedAmount
        THEN currentValue - position[t].depositedAmount
        ELSE 0

NoPositions == totalTenantShares = 0

setMorphoVault(newVault) ==
    /\ NoPositions
    /\ morphoVault' = newVault
    /\ UNCHANGED <<safe, rate, books, treasuryVault, isAllowlistedVault, earned>>

-------------------------------------------------------------------------------
(* DeFiInteractor.                                                         *)

\* Mutant of TenantShareSafety: the balance is read before the withdrawal.
TenantShareSafetyMutant(vault) ==
    (treasuryVault /\ vault = morphoVault) => vaultShares[vault] >= totalTenantShares

\* _checkTenantShareSafety(), on the balances the call leaves behind.
TenantShareSafety(vault) ==
    (treasuryVault /\ vault = morphoVault) => vaultShares'[vault] >= totalTenantShares

Executes(venue) ==
    /\ venue \in isAllowlistedVault
    /\ UNCHANGED <<rate, books, settings, earned>>

depositToMorpho(vault, assets) == Executes(vault) /\ Puts(vault, assets)

withdrawFromMorpho(vault, assets) ==
    /\ Executes(vault)
    /\ Burns(vault, previewWithdraw(vault, assets), assets)
    /\ TenantShareSafety(vault)

redeemFromMorpho(vault, shares) ==
    /\ Executes(vault)
    /\ Burns(vault, shares, convertToAssets(vault, shares))
    /\ TenantShareSafety(vault)

\* The Safe's balance of an asset, and what a call leaves of it.
Holding(asset) == IF asset = USDC THEN usdc ELSE vaultShares[asset]

Leaves(asset, amount) ==
    \/ asset = USDC /\ usdc' = amount /\ UNCHANGED vaultShares
    \/ asset # USDC /\ vaultShares' = [vaultShares EXCEPT ![asset] = amount] /\ UNCHANGED usdc

supplyToAave(asset, amount) ==
    /\ Executes(AavePool)
    /\ amount <= Holding(asset)
    /\ Leaves(asset, Holding(asset) - amount)
    /\ aave' = [aave EXCEPT ![asset] = @ + amount]

withdrawFromAave(asset, amount) ==
    /\ Executes(AavePool)
    /\ amount <= aave[asset]
    /\ Leaves(asset, Holding(asset) + amount)
    /\ aave' = [aave EXCEPT ![asset] = @ - amount]

\* claimRewards() has the Safe call a venue on the allowlist with data the
\* interactor does not read: the distributor pays a reward; shares of a vault are
\* redeemed, for the Safe or for another, or transferred; the pool pays out, to
\* the Safe or to another.  forSafe: the Safe gets what the call pays.
ClaimsReward(reward) ==
    /\ Executes(Distributor)
    /\ usdc' = usdc + reward
    /\ UNCHANGED <<aave, vaultShares>>

ClaimsFromVault(vault, shares, forSafe) ==
    /\ Executes(vault)
    /\ shares <= vaultShares[vault]
    /\ vaultShares' = [vaultShares EXCEPT ![vault] = @ - shares]
    /\ usdc' = usdc + (IF forSafe THEN convertToAssets(vault, shares) ELSE 0)
    /\ UNCHANGED aave

ClaimsFromPool(asset, amount, forSafe) ==
    /\ Executes(AavePool)
    /\ amount <= aave[asset]
    /\ aave' = [aave EXCEPT ![asset] = @ - amount]
    /\ Leaves(asset, Holding(asset) + (IF forSafe THEN amount ELSE 0))

claimRewards(amount, forSafe) ==
    \/ ClaimsReward(amount)
    \/ \E v \in Vaults : ClaimsFromVault(v, amount, forSafe)
    \/ \E asset \in Assets : ClaimsFromPool(asset, amount, forSafe)

addAllowlistedVault(venue) ==
    /\ venue \notin isAllowlistedVault
    /\ Cardinality(isAllowlistedVault) < MaxListed
    /\ isAllowlistedVault' = isAllowlistedVault \cup {venue}
    /\ UNCHANGED <<safe, rate, books, morphoVault, treasuryVault, earned>>

removeAllowlistedVault(venue) ==
    /\ venue \in isAllowlistedVault
    /\ isAllowlistedVault' = isAllowlistedVault \ {venue}
    /\ UNCHANGED <<safe, rate, books, morphoVault, treasuryVault, earned>>

setTreasuryVault ==
    /\ ~treasuryVault
    /\ treasuryVault' = TRUE
    /\ UNCHANGED <<safe, rate, books, morphoVault, isAllowlistedVault, earned>>

-------------------------------------------------------------------------------
\* A vault earns interest or takes a loss.
RateMoves(v, r) ==
    LET growth == IF v = morphoVault /\ r > rate[v] THEN r - rate[v] ELSE 0 IN
      /\ rate[v] # r
      /\ rate' = [rate EXCEPT ![v] = r]
      /\ earned' = [t \in Tenants |-> earned[t] + position[t].shares * growth]
      /\ \A t \in Tenants : earned'[t] <= MaxEarned
      /\ UNCHANGED <<safe, books, settings>>

\* Interest and rewards would otherwise let the Safe grow for ever, and shares
\* taken away before setTreasuryVault() the positions.
WithinFunds ==
    /\ usdc' + SumFunction(aave') + SumFunction(vaultShares') <= MaxFunds
    /\ totalDeposited' <= MaxFunds

CheckedStep ==
    \/ \E t \in Tenants, a \in Amounts :
         depositForTenant(t, a) \/ withdrawForTenant(t, a) \/ redeemForTenant(t, a)
    \/ \E v \in Vaults : setMorphoVault(v)
    \/ \E v \in Vaults, a \in Amounts :
         depositToMorpho(v, a) \/ withdrawFromMorpho(v, a) \/ redeemFromMorpho(v, a)
    \/ \E asset \in Assets, a \in Amounts : withdrawFromAave(asset, a)
    \/ \E v \in Venues : addAllowlistedVault(v) \/ removeAllowlistedVault(v)
    \/ setTreasuryVault
    \/ \E v \in Vaults, r \in Rates : RateMoves(v, r)

\* The calls that look at no tenant's shares.
UncheckedStep ==
    \/ \E asset \in Assets, a \in Amounts : supplyToAave(asset, a)
    \/ \E a \in Amounts, forSafe \in BOOLEAN : claimRewards(a, forSafe)

Step ==
    \/ CheckedStep /\ unchecked' = FALSE
    \/ UncheckedStep /\ unchecked' = (vaultShares'[morphoVault] < vaultShares[morphoVault])

Next == Step /\ WithinFunds

Spec == Init /\ [][Next]_vars

-------------------------------------------------------------------------------
\* Types of the state: no call takes a balance or a total below zero.
TypeOK ==
    /\ usdc \in Nat
    /\ aave \in [Assets -> Nat]
    /\ vaultShares \in [Vaults -> Nat]
    /\ rate \in [Vaults -> Rates]
    /\ position \in [Tenants -> [shares : Nat, depositedAmount : Nat]]
    /\ totalTenantShares \in Nat
    /\ totalDeposited \in Nat
    /\ morphoVault \in Vaults
    /\ treasuryVault \in BOOLEAN
    /\ isAllowlistedVault \subseteq Venues
    /\ earned \in [Tenants -> Nat]
    /\ unchecked \in BOOLEAN

\* The totals are the sums of the positions, shares and basis alike, whatever
\* was burned in parts and rounded (depositForTenant, withdrawForTenant,
\* redeemForTenant; the clean-up of an emptied position).
PositionsAddUp ==
    /\ totalTenantShares = SumFunction([t \in Tenants |-> position[t].shares])
    /\ totalDeposited = SumFunction([t \in Tenants |-> position[t].depositedAmount])

\* The Safe holds the shares the tenants were promised.
Backed == totalTenantShares <= vaultShares[morphoVault]

\* Once the interactor knows the TreasuryVault, the shares that back the tenants
\* are kept by every call of either module, in any order and over a change of
\* vault (_checkTenantShareSafety, setMorphoVault), but for the calls that have
\* no check: supplyToAave() of that vault's shares and claimRewards() on it.
BackingLostOnlyIf == [][treasuryVault /\ Backed /\ ~Backed' => unchecked']_vars

\* No yield is reported for a tenant that its shares did not earn: deposits at
\* different rates, partial withdrawals and their rounding create none
\* (getYieldForTenant against depositForTenant and the basis reduction).
YieldIsEarned ==
    \A t \in Tenants : RateScale * getYieldForTenant(t) <= earned[t]
===============================================================================
