--------------------------- MODULE TreasuryProofs ---------------------------
(* The Safe's holdings, the shares that back the tenants and the books of    *)
(* TreasuryVault, for every number of tenants and vaults, every exchange     *)
(* rate and every amount; at the end, the rows the yield manager writes and   *)
(* allocates over them.                                                      *)
EXTENDS YieldManager, SumTheorems, SequenceTheorems, TLAPS

\* The types of what a call moves.  That no total falls below zero rests on
\* the totals being sums, below.
HoldingsTyped ==
    /\ usdc \in Nat
    /\ aave \in [Assets -> Nat]
    /\ vaultShares \in [Vaults -> Nat]
    /\ rate \in [Vaults -> Rates]
    /\ totalTenantShares \in Int
    /\ morphoVault \in Vaults

\* Conversions of a natural amount are natural.
LEMMA ConversionsTyped ==
    ASSUME HoldingsTyped, NEW v \in Vaults, NEW a \in Nat
    PROVE  SharesMinted(v, a) \in Nat /\ previewWithdraw(v, a) \in Nat
           /\ convertToAssets(v, a) \in Nat
  <1> DEFINE r == rate[v]
  <1>1. r \in Nat \ {0} /\ RateScale \in Nat \ {0}
    BY ConstantsOK DEF HoldingsTyped
  <1>2. a * RateScale \in Nat /\ a * r \in Nat
    BY <1>1
  <1>3. a * RateScale + r - 1 \in Nat
    BY <1>1, <1>2
  <1> HIDE DEF r
  <1>4. \A n \in Nat, d \in Nat \ {0} : n \div d \in Nat
    OBVIOUS
  <1>5. (a * RateScale) \div r \in Nat /\ (a * RateScale + r - 1) \div r \in Nat
        /\ (a * r) \div RateScale \in Nat
    BY <1>1, <1>2, <1>3, <1>4
  <1> QED BY <1>5 DEF SharesMinted, previewWithdraw, convertToAssets, r

\* A vault's own shares are all that putting in and burning change of them.
LEMMA PutsShares ==
    ASSUME HoldingsTyped, NEW v \in Vaults, NEW a \in Amounts, Puts(v, a)
    PROVE  /\ usdc' \in Nat
           /\ aave' \in [Assets -> Nat]
           /\ vaultShares' \in [Vaults -> Nat]
           /\ vaultShares'[v] = vaultShares[v] + SharesMinted(v, a)
           /\ \A w \in Vaults : vaultShares'[w] >= vaultShares[w]
           /\ SharesMinted(v, a) \in Nat
  <1>1. a \in Nat /\ SharesMinted(v, a) \in Nat
    BY ConversionsTyped, ConstantsOK
  <1> QED BY <1>1 DEF HoldingsTyped, Puts

LEMMA BurnsShares ==
    ASSUME HoldingsTyped, NEW v \in Vaults, NEW s \in Nat, NEW a \in Nat, Burns(v, s, a)
    PROVE  /\ usdc' \in Nat
           /\ aave' \in [Assets -> Nat]
           /\ vaultShares' \in [Vaults -> Nat]
           /\ vaultShares'[v] = vaultShares[v] - s
           /\ \A w \in Vaults \ {v} : vaultShares'[w] = vaultShares[w]
  BY DEF HoldingsTyped, Burns

\* What a call leaves of one asset is all that it changes of the Safe's.
LEMMA LeavesShares ==
    ASSUME HoldingsTyped, NEW asset \in Assets, NEW n \in Nat, Leaves(asset, n)
    PROVE  /\ usdc' \in Nat
           /\ vaultShares' \in [Vaults -> Nat]
           /\ \A w \in Vaults \ {asset} : vaultShares'[w] = vaultShares[w]
           /\ asset \in Vaults => vaultShares'[asset] = n
  BY ConstantsOK DEF HoldingsTyped, Leaves, Assets

LEMMA HoldingTyped ==
    ASSUME HoldingsTyped, NEW asset \in Assets
    PROVE  /\ Holding(asset) \in Nat
           /\ asset \in Vaults => Holding(asset) = vaultShares[asset]
  BY ConstantsOK DEF HoldingsTyped, Holding, Assets

\* The backing falls short only if the shares fall or the promises rise.
LEMMA FallenShares ==
    ASSUME HoldingsTyped, HoldingsTyped', UNCHANGED <<morphoVault, totalTenantShares>>
    PROVE  Backed /\ ~Backed' => vaultShares'[morphoVault] < vaultShares[morphoVault]
  BY DEF HoldingsTyped, Backed

\* Every step keeps the types and, once wired, the backing, but for the calls
\* that check nothing.
LEMMA StepKeepsBacking ==
    ASSUME HoldingsTyped, [Next]_vars
    PROVE  HoldingsTyped' /\ (treasuryVault /\ Backed /\ ~Backed' => unchecked')
  <1> USE DEF settings, books, safe
  <1>a. Amounts \subseteq Nat
    BY ConstantsOK
  <1>1. ASSUME NEW t \in Tenants, NEW a \in Amounts, depositForTenant(t, a)
        PROVE  HoldingsTyped' /\ (Backed => Backed')
    <2>1. Puts(morphoVault, a) /\ morphoVault \in Vaults
      BY <1>1 DEF depositForTenant, HoldingsTyped
    <2> QED BY <1>1, <2>1, PutsShares DEF depositForTenant, HoldingsTyped, Backed
  <1>2. ASSUME NEW t \in Tenants, NEW s \in Nat, NEW a \in Nat,
               Burns(morphoVault, s, a), BurnForTenant(t, s), UNCHANGED <<rate, settings>>
        PROVE  HoldingsTyped' /\ (Backed => Backed')
    <2>1. morphoVault \in Vaults
      BY DEF HoldingsTyped
    <2> QED BY <1>2, <2>1, BurnsShares DEF BurnForTenant, HoldingsTyped, Backed
  <1>3. ASSUME NEW t \in Tenants, NEW a \in Amounts,
               withdrawForTenant(t, a) \/ redeemForTenant(t, a)
        PROVE  HoldingsTyped' /\ (Backed => Backed')
    <2>1. previewWithdraw(morphoVault, a) \in Nat /\ convertToAssets(morphoVault, a) \in Nat
      BY <1>a, ConversionsTyped DEF HoldingsTyped
    <2> QED BY <1>a, <1>2, <1>3, <2>1 DEF withdrawForTenant, redeemForTenant
  <1>4. ASSUME NEW v \in Vaults, setMorphoVault(v)
        PROVE  HoldingsTyped' /\ Backed'
    BY <1>4 DEF setMorphoVault, NoPositions, HoldingsTyped, Backed
  <1>5. ASSUME NEW v \in Vaults, NEW a \in Amounts, depositToMorpho(v, a)
        PROVE  HoldingsTyped' /\ (Backed => Backed')
    BY <1>5, PutsShares DEF depositToMorpho, Executes, HoldingsTyped, Backed
  <1>6. ASSUME NEW v \in Vaults, NEW s \in Nat, NEW a \in Nat, Executes(v), Burns(v, s, a),
               TenantShareSafety(v)
        PROVE  HoldingsTyped' /\ (treasuryVault /\ Backed => Backed')
    BY <1>6, BurnsShares DEF Executes, TenantShareSafety, HoldingsTyped, Backed
  <1>7. ASSUME NEW v \in Vaults, NEW a \in Amounts,
               withdrawFromMorpho(v, a) \/ redeemFromMorpho(v, a)
        PROVE  HoldingsTyped' /\ (treasuryVault /\ Backed => Backed')
    <2>1. previewWithdraw(v, a) \in Nat /\ convertToAssets(v, a) \in Nat
      BY <1>a, ConversionsTyped
    <2> QED BY <1>a, <1>6, <1>7, <2>1 DEF withdrawFromMorpho, redeemFromMorpho
  <1>8. ASSUME NEW asset \in Assets, NEW a \in Amounts, supplyToAave(asset, a)
        PROVE  HoldingsTyped' /\ (Backed /\ ~Backed' => vaultShares'[morphoVault] < vaultShares[morphoVault])
    <2>1. /\ Holding(asset) - a \in Nat
          /\ asset \in Vaults => Holding(asset) = vaultShares[asset]
      BY <1>a, <1>8, HoldingTyped DEF supplyToAave
    <2>2. HoldingsTyped' /\ \A w \in Vaults \ {asset} : vaultShares'[w] = vaultShares[w]
      BY <1>a, <1>8, <2>1, LeavesShares DEF supplyToAave, Executes, HoldingsTyped
    <2>3. UNCHANGED <<morphoVault, totalTenantShares>>
      BY <1>8 DEF supplyToAave, Executes
    <2> QED BY <2>2, <2>3, FallenShares
  <1>9. ASSUME NEW asset \in Assets, NEW n \in Nat, NEW a \in Amounts, Executes(AavePool),
                a <= aave[asset], aave' = [aave EXCEPT ![asset] = @ - a],
                Leaves(asset, Holding(asset) + n)
         PROVE  HoldingsTyped' /\ (Backed => Backed')
    <2>1. /\ Holding(asset) + n \in Nat
          /\ asset \in Vaults => Holding(asset) = vaultShares[asset]
      BY HoldingTyped
    <2>2. /\ usdc' \in Nat /\ vaultShares' \in [Vaults -> Nat]
          /\ \A w \in Vaults : vaultShares'[w] >= vaultShares[w]
      <3>1. /\ usdc' \in Nat /\ vaultShares' \in [Vaults -> Nat]
            /\ \A w \in Vaults \ {asset} : vaultShares'[w] = vaultShares[w]
            /\ asset \in Vaults => vaultShares'[asset] = Holding(asset) + n
        BY <1>9, <2>1, LeavesShares
      <3> QED BY <2>1, <3>1 DEF HoldingsTyped
    <2>3. aave' \in [Assets -> Nat]
      BY <1>a, <1>9 DEF HoldingsTyped
    <2> QED BY <1>9, <2>2, <2>3 DEF Executes, HoldingsTyped, Backed
  <1>10. ASSUME NEW asset \in Assets, NEW a \in Amounts, withdrawFromAave(asset, a)
         PROVE  HoldingsTyped' /\ (Backed => Backed')
    BY <1>a, <1>9, <1>10 DEF withdrawFromAave
  <1>11. ASSUME NEW a \in Amounts, NEW forSafe \in BOOLEAN, claimRewards(a, forSafe)
         PROVE  HoldingsTyped' /\ (Backed /\ ~Backed' => vaultShares'[morphoVault] < vaultShares[morphoVault])
    <2>1. CASE ClaimsReward(a)
      BY <1>a, <2>1 DEF ClaimsReward, Executes, HoldingsTyped, Backed
    <2>2. ASSUME NEW v \in Vaults, ClaimsFromVault(v, a, forSafe)
          PROVE  HoldingsTyped' /\ (Backed /\ ~Backed' => vaultShares'[morphoVault] < vaultShares[morphoVault])
      <3>1. convertToAssets(v, a) \in Nat
        BY <1>a, ConversionsTyped
      <3>2. HoldingsTyped'
        BY <1>a, <2>2, <3>1 DEF ClaimsFromVault, Executes, HoldingsTyped
      <3>3. UNCHANGED <<morphoVault, totalTenantShares>>
        BY <2>2 DEF ClaimsFromVault, Executes
      <3> QED BY <3>2, <3>3, FallenShares
    <2>3. ASSUME NEW asset \in Assets, ClaimsFromPool(asset, a, forSafe)
          PROVE  HoldingsTyped' /\ (Backed => Backed')
      <3>1. (IF forSafe THEN a ELSE 0) \in Nat
        BY <1>a
      <3> QED BY <1>9, <2>3, <3>1 DEF ClaimsFromPool
    <2> QED BY <1>11, <2>1, <2>2, <2>3 DEF claimRewards
  <1>12. ASSUME NEW v \in Venues, addAllowlistedVault(v) \/ removeAllowlistedVault(v)
        PROVE  HoldingsTyped' /\ (Backed => Backed')
    BY <1>12 DEF addAllowlistedVault, removeAllowlistedVault, HoldingsTyped, Backed
  <1>13. CASE setTreasuryVault
    BY <1>13 DEF setTreasuryVault, HoldingsTyped, Backed
  <1>14. ASSUME NEW v \in Vaults, NEW r \in Rates, RateMoves(v, r)
         PROVE  HoldingsTyped' /\ (Backed => Backed')
    BY <1>14 DEF RateMoves, HoldingsTyped, Backed
  <1>15. CASE UNCHANGED vars
    BY <1>15 DEF vars, HoldingsTyped, Backed
  <1>16. CASE CheckedStep /\ unchecked' = FALSE
    BY <1>1, <1>3, <1>4, <1>5, <1>7, <1>10, <1>12, <1>13, <1>14, <1>16 DEF CheckedStep
  <1>17. CASE UncheckedStep /\ unchecked' = (vaultShares'[morphoVault] < vaultShares[morphoVault])
    BY <1>8, <1>11, <1>17 DEF UncheckedStep
  <1> QED BY <1>15, <1>16, <1>17 DEF Next, Step

LEMMA HoldingsCorrect == Spec => []HoldingsTyped
  <1>1. Init => HoldingsTyped
    BY ConstantsOK DEF Init, HoldingsTyped
  <1>2. HoldingsTyped /\ [Next]_vars => HoldingsTyped'
    BY StepKeepsBacking
  <1> QED BY <1>1, <1>2, PTL DEF Spec

\* Once the interactor knows the TreasuryVault, the shares that back the
\* tenants are lost to supplyToAave() and claimRewards() alone, which check
\* nothing.
THEOREM BackingLostOnlyIfHolds == Spec => BackingLostOnlyIf
  <1>1. HoldingsTyped /\ [Next]_vars => [treasuryVault /\ Backed /\ ~Backed' => unchecked']_vars
    BY StepKeepsBacking
  <1> QED BY <1>1, HoldingsCorrect, PTL DEF Spec, BackingLostOnlyIf
-------------------------------------------------------------------------------
(* The books of TreasuryVault.                                             *)

\* The rest of the types.
BooksTyped ==
    /\ position \in [Tenants -> [shares : Nat, depositedAmount : Nat]]
    /\ totalTenantShares \in Nat
    /\ totalDeposited \in Nat
    /\ treasuryVault \in BOOLEAN
    /\ isAllowlistedVault \subseteq Venues
    /\ earned \in [Tenants -> Nat]

\* What a tenant's shares are worth beyond its basis, times RateScale and before
\* the vault rounds it: it is earned, which a partial burn keeps and
\* YieldIsEarned alone, rounded, would not.
Growth(t) == position[t].shares * rate[morphoVault] - RateScale * position[t].depositedAmount
GrowthIsEarned == \A t \in Tenants : Growth(t) <= earned[t]

BooksInv == HoldingsTyped /\ BooksTyped /\ PositionsAddUp /\ GrowthIsEarned

SharesOf == [t \in Tenants |-> position[t].shares]
BasisOf == [t \in Tenants |-> position[t].depositedAmount]

\* Division rounds down.
LEMMA DivisionRoundsDown ==
    ASSUME NEW n \in Nat, NEW d \in Nat \ {0}
    PROVE  n \div d \in Nat /\ (n \div d) * d <= n
  <1>1. n \div d \in Nat
    OBVIOUS
  <1>2. (n \div d) * d <= n
    OBVIOUS
  <1> QED BY <1>1, <1>2

\* A part of a number is at most the number, and all of it the number.
LEMMA PartOf ==
    ASSUME NEW n \in Nat, NEW s \in Nat \ {0}, NEW b \in 0 .. s
    PROVE  /\ (n * b) \div s \in 0 .. n
           /\ b = s => (n * b) \div s = n
  <1> DEFINE q == (n * b) \div s
  <1>1. n * b \in Nat
    OBVIOUS
  <1>2. q \in Nat /\ q * s <= n * b
    BY <1>1, DivisionRoundsDown
  <1>3. b = s => q = n
    OBVIOUS
  <1>4. n * b <= n * s
    OBVIOUS
  <1> HIDE DEF q
  <1>5. q * s <= n * s
    BY <1>1, <1>2, <1>4
  <1>6. q <= n
    BY <1>2, <1>5
  <1> QED BY <1>2, <1>3, <1>6 DEF q

\* Shares bought for an amount are worth no more than it.
LEMMA MintedWorth ==
    ASSUME HoldingsTyped, NEW v \in Vaults, NEW a \in Nat
    PROVE  SharesMinted(v, a) \in Nat /\ SharesMinted(v, a) * rate[v] <= RateScale * a
  <1>1. rate[v] \in Nat \ {0} /\ RateScale \in Nat /\ a * RateScale \in Nat
    <2>1. rate[v] \in Nat \ {0} /\ RateScale \in Nat
      BY ConstantsOK DEF HoldingsTyped
    <2> QED BY <2>1
  <1>2. a * RateScale = RateScale * a
    BY <1>1
  <1> QED BY <1>1, <1>2, DivisionRoundsDown DEF SharesMinted

\* A withdrawal of something burns something.
LEMMA WithdrawalBurns ==
    ASSUME HoldingsTyped, NEW v \in Vaults, NEW a \in Nat \ {0}
    PROVE  previewWithdraw(v, a) \in Nat \ {0}
  <1> DEFINE n == a * RateScale + rate[v] - 1
  <1>1. rate[v] \in Nat \ {0} /\ RateScale \in Nat \ {0} /\ a * RateScale \in Nat \ {0}
    <2>1. rate[v] \in Nat \ {0} /\ RateScale \in Nat \ {0}
      BY ConstantsOK DEF HoldingsTyped
    <2> QED BY <2>1
  <1>2. n \in Nat /\ n >= rate[v]
    BY <1>1
  <1> HIDE DEF n
  <1>3. n \div rate[v] \in Nat \ {0}
    BY <1>1, <1>2
  <1> QED BY <1>3 DEF previewWithdraw, n

\* Burning b of s shares in proportion leaves no more growth than was earned:
\* d is the basis, q what it falls by, e what was earned and p its part.
LEMMA BurnKeepsGrowth ==
    ASSUME NEW s \in Nat \ {0}, NEW b \in 0 .. s, NEW r \in Nat, NEW k \in Nat,
           NEW d \in Nat, NEW q \in Nat, q * s <= d * b,
           NEW e \in Nat, NEW p \in Nat, p * s <= e * b,
           s * r - k * d <= e
    PROVE  (s - b) * r - k * (d - q) <= e - p
  OBVIOUS

\* The totals are sums over the tenants, so that they cover each position.
LEMMA TotalsCover ==
    ASSUME BooksInv, NEW t \in Tenants
    PROVE  /\ position[t].shares \in Nat /\ position[t].shares <= totalTenantShares
           /\ position[t].depositedAmount \in Nat /\ position[t].depositedAmount <= totalDeposited
  <1>1. /\ \A u \in Tenants : SharesOf[u] \in Nat
        /\ \A u \in Tenants : BasisOf[u] \in Nat
    BY DEF BooksInv, BooksTyped, SharesOf, BasisOf
  <1>2. /\ totalTenantShares = SumFunctionOnSet(SharesOf, Tenants)
        /\ totalDeposited = SumFunctionOnSet(BasisOf, Tenants)
    BY SumOfFunction DEF BooksInv, PositionsAddUp, SharesOf, BasisOf
  <1>3. SharesOf[t] <= totalTenantShares /\ BasisOf[t] <= totalDeposited
    BY <1>1, <1>2, ConstantsOK, SumGrows
  <1> QED BY <1>1, <1>3 DEF SharesOf, BasisOf

\* A change of one position and the same change of the totals.
LEMMA PositionChangeAddsUp ==
    ASSUME BooksInv, NEW t \in Tenants, NEW p \in [shares : Nat, depositedAmount : Nat],
           position' = [position EXCEPT ![t] = p],
           totalTenantShares' = totalTenantShares + (p.shares - position[t].shares),
           totalDeposited' = totalDeposited + (p.depositedAmount - position[t].depositedAmount)
    PROVE  PositionsAddUp'
  <1>1. position' \in [Tenants -> [shares : Nat, depositedAmount : Nat]]
        /\ position \in [Tenants -> [shares : Nat, depositedAmount : Nat]]
    BY DEF BooksInv, BooksTyped
  <1>2. /\ \A u \in Tenants : SharesOf[u] \in Int /\ SharesOf'[u] \in Int
        /\ \A u \in Tenants : u # t => SharesOf[u] = SharesOf'[u]
        /\ SharesOf'[t] - SharesOf[t] = p.shares - position[t].shares
    BY <1>1 DEF SharesOf
  <1>3. /\ \A u \in Tenants : BasisOf[u] \in Int /\ BasisOf'[u] \in Int
        /\ \A u \in Tenants : u # t => BasisOf[u] = BasisOf'[u]
        /\ BasisOf'[t] - BasisOf[t] = p.depositedAmount - position[t].depositedAmount
    BY <1>1 DEF BasisOf
  <1>4. /\ totalTenantShares = SumFunctionOnSet(SharesOf, Tenants)
        /\ totalDeposited = SumFunctionOnSet(BasisOf, Tenants)
    BY SumOfFunction DEF BooksInv, PositionsAddUp, SharesOf, BasisOf
  <1>5. SumFunctionOnSet(SharesOf', Tenants)
          = SumFunctionOnSet(SharesOf, Tenants) + (SharesOf'[t] - SharesOf[t])
    BY <1>2, ConstantsOK, SumChanges
  <1>6. SumFunctionOnSet(BasisOf', Tenants)
          = SumFunctionOnSet(BasisOf, Tenants) + (BasisOf'[t] - BasisOf[t])
    BY <1>3, ConstantsOK, SumChanges
  <1>7. /\ totalTenantShares' = SumFunctionOnSet(SharesOf', Tenants)
        /\ totalDeposited' = SumFunctionOnSet(BasisOf', Tenants)
    BY <1>2, <1>3, <1>4, <1>5, <1>6
  <1>8. /\ SumFunction(SharesOf') = SumFunctionOnSet(SharesOf', Tenants)
        /\ SumFunction(BasisOf') = SumFunctionOnSet(BasisOf', Tenants)
    BY SumOfFunction DEF SharesOf, BasisOf
  <1> QED BY <1>7, <1>8 DEF PositionsAddUp, SharesOf, BasisOf

\* depositForTenant().
LEMMA DepositKeepsBooks ==
    ASSUME BooksInv, HoldingsTyped', NEW t \in Tenants, NEW a \in Amounts, depositForTenant(t, a)
    PROVE  BooksTyped' /\ PositionsAddUp' /\ GrowthIsEarned'
  <1> DEFINE m == SharesMinted(morphoVault, a)
             p == [shares |-> position[t].shares + m,
                   depositedAmount |-> position[t].depositedAmount + a]
             r == rate[morphoVault]
  <1>1. /\ a \in Nat /\ m \in Nat /\ m * r <= RateScale * a /\ morphoVault \in Vaults
        /\ r \in Nat /\ RateScale \in Nat
    BY MintedWorth, ConstantsOK DEF BooksInv, HoldingsTyped
  <1> HIDE DEF m
  <1>2. /\ position[t] \in [shares : Nat, depositedAmount : Nat]
        /\ position[t].shares \in Nat /\ position[t].depositedAmount \in Nat
        /\ totalTenantShares \in Nat /\ totalDeposited \in Nat /\ earned[t] \in Nat
    BY DEF BooksInv, BooksTyped
  <1>3. /\ position' = [position EXCEPT ![t] = p] /\ p \in [shares : Nat, depositedAmount : Nat]
        /\ totalTenantShares' = totalTenantShares + m /\ totalDeposited' = totalDeposited + a
        /\ UNCHANGED <<rate, morphoVault, treasuryVault, isAllowlistedVault, earned>>
    <2>1. position' = [position EXCEPT ![t] = p]
      <3>1. position' = [position EXCEPT ![t].shares = @ + m, ![t].depositedAmount = @ + a]
        BY DEF depositForTenant, m
      <3>2. position \in [Tenants -> [shares : Nat, depositedAmount : Nat]]
        BY DEF BooksInv, BooksTyped
      <3>3. position'[t] = p
        BY <3>1, <3>2
      <3>4. \A u \in Tenants \ {t} : position'[u] = position[u]
        BY <3>1, <3>2
      <3>5. position' = [u \in Tenants |-> position'[u]]
        BY <3>1, <3>2
      <3> HIDE DEF p
      <3> QED BY <3>2, <3>3, <3>4, <3>5
    <2>2. p \in [shares : Nat, depositedAmount : Nat]
      BY <1>1, <1>2
    <2>3. totalTenantShares' = totalTenantShares + m /\ totalDeposited' = totalDeposited + a
          /\ UNCHANGED <<rate, morphoVault, treasuryVault, isAllowlistedVault, earned>>
      BY DEF depositForTenant, settings, m
    <2> QED BY <2>1, <2>2, <2>3
  <1>4. BooksTyped'
    BY <1>1, <1>2, <1>3 DEF BooksInv, BooksTyped
  <1>5. PositionsAddUp'
    <2>1. /\ totalTenantShares' = totalTenantShares + (p.shares - position[t].shares)
          /\ totalDeposited' = totalDeposited + (p.depositedAmount - position[t].depositedAmount)
      BY <1>1, <1>2, <1>3
    <2> QED BY <1>3, <2>1, PositionChangeAddsUp
  <1>6. ASSUME NEW u \in Tenants PROVE Growth(u)' <= earned'[u]
    <2>1. Growth(u) <= earned[u] /\ earned'[u] = earned[u]
      BY <1>3 DEF BooksInv, GrowthIsEarned
    <2>2. CASE u # t
      <3>1. position'[u] = position[u]
        BY <1>3, <2>2 DEF BooksInv, BooksTyped
      <3> QED BY <1>3, <2>1, <3>1 DEF Growth
    <2>3. CASE u = t
      <3>1. /\ position'[t].shares = position[t].shares + m
            /\ position'[t].depositedAmount = position[t].depositedAmount + a
        BY <1>3 DEF BooksInv, BooksTyped
      <3>2. Growth(t)' = (position[t].shares + m) * r - RateScale * (position[t].depositedAmount + a)
        BY <1>3, <3>1 DEF Growth
      <3>3. (position[t].shares + m) * r - RateScale * (position[t].depositedAmount + a)
              = (position[t].shares * r - RateScale * position[t].depositedAmount)
                  + (m * r - RateScale * a)
        BY <1>1, <1>2
      <3>4. Growth(t) = position[t].shares * r - RateScale * position[t].depositedAmount
        BY DEF Growth
      <3>5. /\ m * r \in Int /\ RateScale * a \in Int
            /\ position[t].shares * r - RateScale * position[t].depositedAmount \in Int
        BY <1>1, <1>2
      <3> HIDE DEF r
      <3> QED BY <1>1, <1>2, <2>1, <2>3, <3>2, <3>3, <3>4, <3>5
    <2> QED BY <2>2, <2>3
  <1> QED BY <1>4, <1>5, <1>6 DEF GrowthIsEarned

\* withdrawForTenant() and redeemForTenant(), on the shares they burn.
LEMMA BurnKeepsBooks ==
    ASSUME BooksInv, HoldingsTyped', NEW t \in Tenants, NEW b \in Nat \ {0}, BurnForTenant(t, b),
           UNCHANGED <<rate, settings>>
    PROVE  BooksTyped' /\ PositionsAddUp' /\ GrowthIsEarned'
  <1> DEFINE s == position[t].shares
             d == position[t].depositedAmount
             e == earned[t]
             q == (d * b) \div s
             part == (e * b) \div s
             r == rate[morphoVault]
             p == [shares |-> s - b, depositedAmount |-> d - q]
  <1>1. /\ position[t] \in [shares : Nat, depositedAmount : Nat]
        /\ s \in Nat \ {0} /\ b \in 0 .. s /\ d \in Nat /\ e \in Nat
        /\ s <= totalTenantShares /\ d <= totalDeposited
        /\ totalTenantShares \in Nat /\ totalDeposited \in Nat
        /\ r \in Nat /\ RateScale \in Nat
    <2>1. s <= totalTenantShares /\ d <= totalDeposited
      BY TotalsCover
    <2>2. b <= s
      BY DEF BurnForTenant
    <2>3. position[t] \in [shares : Nat, depositedAmount : Nat] /\ e \in Nat
          /\ totalTenantShares \in Nat /\ totalDeposited \in Nat
      BY DEF BooksInv, BooksTyped
    <2>4. r \in Nat /\ RateScale \in Nat
      BY ConstantsOK DEF BooksInv, HoldingsTyped
    <2>5. s \in Nat \ {0} /\ b \in 0 .. s /\ d \in Nat
      BY <2>2, <2>3
    <2> QED BY <2>1, <2>3, <2>4, <2>5
  <1>2. q \in 0 .. d /\ (b = s => q = d) /\ part \in 0 .. e
    BY <1>1, PartOf
  <1>3. q * s <= d * b /\ part * s <= e * b
    <2>1. d * b \in Nat /\ e * b \in Nat
      BY <1>1
    <2> QED BY <1>1, <2>1, DivisionRoundsDown
  <1>4. /\ position' = [position EXCEPT ![t] = Reduced(position[t], b, q)]
        /\ totalTenantShares' = totalTenantShares - b /\ totalDeposited' = totalDeposited - q
        /\ earned' = [earned EXCEPT ![t] = e - part]
        /\ UNCHANGED <<rate, morphoVault, treasuryVault, isAllowlistedVault>>
    BY DEF BurnForTenant, DepositReduction, settings, BooksInv, BooksTyped
  <1> HIDE DEF q, part
  <1>5. Reduced(position[t], b, q) = p
    <2>1. position[t] = [shares |-> s, depositedAmount |-> d]
      BY <1>1
    <2>2. b = s => s - b = 0 /\ d - q = 0
      BY <1>1, <1>2
    <2> QED BY <2>1, <2>2 DEF Reduced
  <1>6. p \in [shares : Nat, depositedAmount : Nat] /\ e - part \in Nat
        /\ totalTenantShares - b \in Nat /\ totalDeposited - q \in Nat
    BY <1>1, <1>2
  <1>7. BooksTyped'
    BY <1>4, <1>5, <1>6 DEF BooksInv, BooksTyped
  <1>8. PositionsAddUp'
    <2>1. /\ totalTenantShares' = totalTenantShares + (p.shares - position[t].shares)
          /\ totalDeposited' = totalDeposited + (p.depositedAmount - position[t].depositedAmount)
      BY <1>1, <1>2, <1>4
    <2> QED BY <1>4, <1>5, <1>6, <2>1, PositionChangeAddsUp
  <1>9. ASSUME NEW u \in Tenants PROVE Growth(u)' <= earned'[u]
    <2>1. Growth(u) <= earned[u]
      BY DEF BooksInv, GrowthIsEarned
    <2>2. CASE u # t
      <3>1. position'[u] = position[u] /\ earned'[u] = earned[u]
        BY <1>4, <2>2 DEF BooksInv, BooksTyped
      <3> QED BY <1>4, <2>1, <3>1 DEF Growth
    <2>3. CASE u = t
      <3>1. /\ position'[t].shares = s - b /\ position'[t].depositedAmount = d - q
            /\ earned'[t] = e - part
        BY <1>4, <1>5 DEF BooksInv, BooksTyped
      <3>2. s * r - RateScale * d <= e
        BY <2>1, <2>3 DEF Growth
      <3>3. (s - b) * r - RateScale * (d - q) <= e - part
        <4>1. q \in Nat /\ part \in Nat
          BY <1>1, <1>2
        <4> HIDE DEF s, d, e, r
        <4> QED BY <1>1, <1>3, <3>2, <4>1, BurnKeepsGrowth
      <3> QED BY <1>4, <2>3, <3>1, <3>3 DEF Growth
    <2> QED BY <2>2, <2>3
  <1> QED BY <1>7, <1>8, <1>9 DEF GrowthIsEarned

\* The vault is only changed where no tenant has shares.
LEMMA NewVaultKeepsBooks ==
    ASSUME BooksInv, HoldingsTyped', NEW v \in Vaults, setMorphoVault(v)
    PROVE  BooksTyped' /\ PositionsAddUp' /\ GrowthIsEarned'
  <1>1. /\ UNCHANGED <<rate, position, totalTenantShares, totalDeposited, treasuryVault,
                       isAllowlistedVault, earned>>
        /\ totalTenantShares = 0
    BY DEF setMorphoVault, NoPositions, books
  <1>2. BooksTyped' /\ PositionsAddUp'
    BY <1>1 DEF BooksInv, BooksTyped, PositionsAddUp
  <1>3. ASSUME NEW t \in Tenants PROVE Growth(t)' <= earned'[t]
    <2>1. position[t].shares = 0 /\ position[t].depositedAmount \in Nat
      BY <1>1, TotalsCover
    <2>2. rate'[morphoVault'] \in Nat /\ RateScale \in Nat /\ earned[t] \in Nat
      BY ConstantsOK DEF HoldingsTyped, BooksInv, BooksTyped
    <2>3. RateScale * position[t].depositedAmount \in Nat
      BY <2>1, <2>2
    <2>4. Growth(t)' = 0 - RateScale * position[t].depositedAmount
      BY <1>1, <2>1, <2>2, <2>3 DEF Growth
    <2> QED BY <1>1, <2>2, <2>3, <2>4
  <1> QED BY <1>2, <1>3 DEF GrowthIsEarned

\* What a rate brings is earned by the shares that are there.
LEMMA RateKeepsBooks ==
    ASSUME BooksInv, HoldingsTyped', NEW v \in Vaults, NEW r \in Rates, RateMoves(v, r)
    PROVE  BooksTyped' /\ PositionsAddUp' /\ GrowthIsEarned'
  <1> DEFINE growth == IF v = morphoVault /\ r > rate[v] THEN r - rate[v] ELSE 0
  <1>1. /\ UNCHANGED <<position, totalTenantShares, totalDeposited, morphoVault, treasuryVault,
                       isAllowlistedVault>>
        /\ earned' = [t \in Tenants |-> earned[t] + position[t].shares * growth]
        /\ rate' = [rate EXCEPT ![v] = r]
    BY DEF RateMoves, books, settings
  <1>2. r \in Nat /\ rate[v] \in Nat /\ rate[morphoVault] \in Nat /\ RateScale \in Nat
        /\ growth \in Nat
    <2>1. r \in Nat /\ rate[v] \in Nat /\ rate[morphoVault] \in Nat /\ RateScale \in Nat
      BY ConstantsOK DEF BooksInv, HoldingsTyped
    <2> QED BY <2>1
  <1>3. rate'[morphoVault'] \in Nat /\ rate'[morphoVault'] <= rate[morphoVault] + growth
    BY <1>1, <1>2 DEF BooksInv, HoldingsTyped
  <1> HIDE DEF growth
  <1>4. \A t \in Tenants : position[t].shares * growth \in Nat
    BY <1>2 DEF BooksInv, BooksTyped
  <1>5. earned' \in [Tenants -> Nat]
    BY <1>1, <1>4 DEF BooksInv, BooksTyped
  <1>6. BooksTyped' /\ PositionsAddUp'
    BY <1>1, <1>5 DEF BooksInv, BooksTyped, PositionsAddUp
  <1>7. ASSUME NEW t \in Tenants PROVE Growth(t)' <= earned'[t]
    <2> DEFINE s == position[t].shares
               d == position[t].depositedAmount
               old == rate[morphoVault]
               new == rate'[morphoVault']
    <2>1. s \in Nat /\ d \in Nat /\ earned[t] \in Nat /\ s * old - RateScale * d <= earned[t]
      BY DEF BooksInv, BooksTyped, GrowthIsEarned, Growth
    <2>2. Growth(t)' = s * new - RateScale * d /\ earned'[t] = earned[t] + s * growth
      BY <1>1 DEF Growth
    <2>3. old \in Nat /\ new \in Nat /\ new <= old + growth
      BY <1>2, <1>3
    <2> HIDE DEF s, d, old, new
    <2>4. s * new <= s * (old + growth) /\ s * (old + growth) = s * old + s * growth
      BY <1>2, <2>1, <2>3
    <2>5. s * new \in Int /\ s * old \in Int /\ s * growth \in Int /\ RateScale * d \in Int
      BY <1>2, <2>1, <2>3
    <2> QED BY <2>1, <2>2, <2>4, <2>5
  <1> QED BY <1>6, <1>7 DEF GrowthIsEarned

\* The interactor's calls leave the books alone.
LEMMA OthersKeepBooks ==
    ASSUME BooksInv, UNCHANGED <<rate, books, morphoVault, earned>>,
           treasuryVault' \in BOOLEAN, isAllowlistedVault' \subseteq Venues
    PROVE  BooksTyped' /\ PositionsAddUp' /\ GrowthIsEarned'
  BY DEF books, BooksInv, BooksTyped, PositionsAddUp, GrowthIsEarned, Growth

LEMMA BooksInvHolds == Spec => []BooksInv
  <1>1. Init => BooksInv
    <2> SUFFICES ASSUME Init PROVE BooksInv
      OBVIOUS
    <2>1. HoldingsTyped /\ BooksTyped
      <3>1. /\ vaultShares \in [Vaults -> Nat] /\ rate \in [Vaults -> Rates]
            /\ position \in [Tenants -> [shares : Nat, depositedAmount : Nat]]
            /\ earned \in [Tenants -> Nat]
        BY ConstantsOK DEF Init, NoPosition
      <3>2. usdc \in Nat /\ aave \in [Assets -> Nat] /\ totalTenantShares \in Nat /\ totalDeposited \in Nat
            /\ morphoVault \in Vaults
        BY ConstantsOK DEF Init
      <3>3. treasuryVault \in BOOLEAN /\ isAllowlistedVault \subseteq Venues
        BY DEF Init
      <3> QED BY <3>1, <3>2, <3>3 DEF HoldingsTyped, BooksTyped
    <2>2. \A t \in Tenants : position[t].shares = 0 /\ position[t].depositedAmount = 0
      BY DEF Init, NoPosition
    <2>3. PositionsAddUp
      <3>1. /\ \A t \in Tenants : SharesOf[t] = 0
            /\ \A t \in Tenants : BasisOf[t] = 0
        BY <2>2 DEF SharesOf, BasisOf
      <3>2. SumFunctionOnSet(SharesOf, Tenants) = 0 /\ SumFunctionOnSet(BasisOf, Tenants) = 0
        BY <3>1, ConstantsOK, SumOfZeros
      <3>3. SumFunction(SharesOf) = 0 /\ SumFunction(BasisOf) = 0
        BY <3>2, SumOfFunction DEF SharesOf, BasisOf
      <3> QED BY <3>3 DEF PositionsAddUp, SharesOf, BasisOf, Init
    <2>4. GrowthIsEarned
      <3>1. rate[morphoVault] \in Int /\ RateScale \in Int
        <4>1. rate[morphoVault] \in Rates
          BY <2>1 DEF HoldingsTyped
        <4>2. rate[morphoVault] \in Nat
          BY <4>1, ConstantsOK
        <4> QED BY <4>2, ConstantsOK
      <3>2. \A t \in Tenants : Growth(t) = 0
        BY <2>2, <3>1 DEF Growth
      <3> QED BY <3>2 DEF GrowthIsEarned, Init
    <2> QED BY <2>1, <2>3, <2>4 DEF BooksInv
  <1>2. BooksInv /\ [Next]_vars => BooksInv'
    <2> SUFFICES ASSUME BooksInv, [Next]_vars PROVE BooksTyped' /\ PositionsAddUp' /\ GrowthIsEarned'
      BY StepKeepsBacking DEF BooksInv
    <2>0. HoldingsTyped' /\ HoldingsTyped /\ treasuryVault \in BOOLEAN
          /\ isAllowlistedVault \subseteq Venues /\ Amounts \subseteq Nat \ {0}
      BY StepKeepsBacking, ConstantsOK DEF BooksInv, BooksTyped
    <2>1. ASSUME NEW t \in Tenants, NEW a \in Amounts, depositForTenant(t, a)
          PROVE  BooksTyped' /\ PositionsAddUp' /\ GrowthIsEarned'
      BY <2>0, <2>1, DepositKeepsBooks
    <2>2. ASSUME NEW t \in Tenants, NEW a \in Amounts,
                 withdrawForTenant(t, a) \/ redeemForTenant(t, a)
          PROVE  BooksTyped' /\ PositionsAddUp' /\ GrowthIsEarned'
      <3>1. previewWithdraw(morphoVault, a) \in Nat \ {0} /\ a \in Nat \ {0}
        BY <2>0, WithdrawalBurns DEF HoldingsTyped
      <3> QED BY <2>0, <2>2, <3>1, BurnKeepsBooks DEF withdrawForTenant, redeemForTenant
    <2>3. ASSUME NEW v \in Vaults, setMorphoVault(v)
          PROVE  BooksTyped' /\ PositionsAddUp' /\ GrowthIsEarned'
      BY <2>0, <2>3, NewVaultKeepsBooks
    <2>4. ASSUME NEW v \in Vaults, NEW r \in Rates, RateMoves(v, r)
          PROVE  BooksTyped' /\ PositionsAddUp' /\ GrowthIsEarned'
      BY <2>0, <2>4, RateKeepsBooks
    <2>5. ASSUME NEW venue \in Venues, Executes(venue)
          PROVE  BooksTyped' /\ PositionsAddUp' /\ GrowthIsEarned'
      BY <2>0, <2>5, OthersKeepBooks DEF Executes, settings
    <2>6. CASE \/ \E v \in Vaults, a \in Amounts :
                    depositToMorpho(v, a) \/ withdrawFromMorpho(v, a) \/ redeemFromMorpho(v, a)
               \/ \E asset \in Assets, a \in Amounts :
                    supplyToAave(asset, a) \/ withdrawFromAave(asset, a)
               \/ \E a \in Amounts, forSafe \in BOOLEAN : claimRewards(a, forSafe)
      <3>1. \E venue \in Venues : Executes(venue)
        BY <2>6 DEF depositToMorpho, withdrawFromMorpho, redeemFromMorpho, supplyToAave,
           withdrawFromAave, claimRewards, ClaimsReward, ClaimsFromVault, ClaimsFromPool, Venues
      <3> QED BY <2>5, <3>1
    <2>7. ASSUME NEW v \in Venues, addAllowlistedVault(v) \/ removeAllowlistedVault(v)
          PROVE  BooksTyped' /\ PositionsAddUp' /\ GrowthIsEarned'
      BY <2>0, <2>7, OthersKeepBooks DEF addAllowlistedVault, removeAllowlistedVault
    <2>8. CASE setTreasuryVault \/ UNCHANGED vars
      BY <2>0, <2>8, OthersKeepBooks DEF setTreasuryVault, vars, settings
    <2> QED BY <2>1, <2>2, <2>3, <2>4, <2>6, <2>7, <2>8
         DEF Next, Step, CheckedStep, UncheckedStep
  <1> QED BY <1>1, <1>2, PTL DEF Spec

\* Every variable keeps its type: no call of either module takes a balance of
\* the Safe, a position or one of the totals below zero.
THEOREM TypeCorrect == Spec => []TypeOK
  <1> DEFINE HistoryTyped == unchecked \in BOOLEAN
  <1>1. BooksInv /\ HistoryTyped => TypeOK
    BY DEF BooksInv, HoldingsTyped, BooksTyped, TypeOK
  <1>2. Init => HistoryTyped
    BY DEF Init
  <1>3. HistoryTyped /\ [Next]_vars => HistoryTyped'
    <2> SUFFICES ASSUME HistoryTyped, [Next]_vars PROVE HistoryTyped'
      OBVIOUS
    <2>1. CASE CheckedStep /\ unchecked' = FALSE
      BY <2>1
    <2>2. CASE UncheckedStep
               /\ unchecked' = (vaultShares'[morphoVault] < vaultShares[morphoVault])
      <3>1. (vaultShares'[morphoVault] < vaultShares[morphoVault]) \in BOOLEAN
        BY SMT
      <3> QED BY <2>2, <3>1, Zenon
    <2>3. CASE UNCHANGED vars
      BY <2>3 DEF vars
    <2> QED BY <2>1, <2>2, <2>3 DEF Next, Step
  <1>4. Spec => []HistoryTyped
    BY <1>2, <1>3, PTL DEF Spec
  <1> QED BY <1>1, <1>4, BooksInvHolds, PTL

\* The totals are the sums of the positions, shares and basis, for any number
\* of tenants and after any burns in parts.
THEOREM PositionsAddUpHolds == Spec => []PositionsAddUp
  <1>1. BooksInv => PositionsAddUp
    BY DEF BooksInv
  <1> QED BY <1>1, BooksInvHolds, PTL

\* No yield is reported that a tenant's shares did not earn, at any rate and
\* whatever is rounded.
THEOREM YieldIsEarnedHolds == Spec => []YieldIsEarned
  <1>1. BooksInv => YieldIsEarned
    <2> SUFFICES ASSUME BooksInv, NEW t \in Tenants
                 PROVE  RateScale * getYieldForTenant(t) <= earned[t]
      BY DEF YieldIsEarned
    <2> DEFINE s == position[t].shares
               d == position[t].depositedAmount
               r == rate[morphoVault]
               value == (s * r) \div RateScale
    <2>1. /\ s \in Nat /\ d \in Nat /\ r \in Nat /\ RateScale \in Nat \ {0} /\ earned[t] \in Nat
          /\ s * r - RateScale * d <= earned[t]
      BY ConstantsOK DEF BooksInv, HoldingsTyped, BooksTyped, GrowthIsEarned, Growth
    <2>2. s * r \in Nat
      BY <2>1
    <2>3. value \in Nat /\ value * RateScale <= s * r
      BY <2>1, <2>2, DivisionRoundsDown
    <2>4. getYieldForTenant(t) = IF value > d THEN value - d ELSE 0
      BY DEF getYieldForTenant, convertToAssets
    <2> HIDE DEF s, d, r, value
    <2>5. CASE value > d
      <3>1. RateScale * (value - d) = value * RateScale - RateScale * d
        BY <2>1, <2>3
      <3>2. value * RateScale \in Int /\ RateScale * d \in Int
        BY <2>1, <2>3
      <3> QED BY <2>1, <2>2, <2>3, <2>4, <2>5, <3>1, <3>2
    <2>6. CASE ~(value > d)
      BY <2>1, <2>4, <2>6
    <2> QED BY <2>5, <2>6
  <1> QED BY <1>1, BooksInvHolds, PTL

-----------------------------------------------------------------------------
(* YieldManager: what becomes of a row of the YieldLedger.                   *)

\* The manager calls neither module: the treasury does beside it what it does alone.
LEMMA BooksBesideManager == YmSpec => []BooksInv
  <1>1. YmInit => Init
    BY DEF YmInit
  <1>2. [YmNext]_<<vars, ymVars>> => [Next]_vars
    <2>1. YmStep => UNCHANGED vars
      BY DEF YmStep, FindTenants, ReadPosition, ReadFails, RecordSnapshot, SnapshotEnds,
         TransferPlatformShare, TransferFails, CreditTenant, Crash, chain
    <2> QED BY <2>1 DEF YmNext, ChainStep
  <1>3. YmSpec => Spec
    BY <1>1, <1>2, PTL DEF YmSpec, Spec
  <1> QED BY <1>3, BooksInvHolds, PTL

LedgerRow == [tenant : Tenants, totalYield : Nat, moves : Nat]
Tried == eligible \cup paid \cup credited

ManagerTyped ==
  /\ todo \subseteq Tenants
  /\ reading \in {NotRead} \cup [tenant : Tenants, deposited : Nat, shares : Nat, moves : Nat]
  /\ yieldLedger \in Seq(LedgerRow)
  /\ results \cup Tried \subseteq DOMAIN yieldLedger
  /\ moves \in [Tenants -> Nat]

\* A row is in one place on its way from the snapshot to the credit, and only one
\* with enough yield leaves the snapshot.
RowsAllocatedOnce ==
  /\ results \cap Tried = {}
  /\ eligible \cap (paid \cup credited) = {} /\ paid \cap credited = {}
  /\ \A row \in Tried : yieldLedger[row].totalYield >= MinYield

\* What a step that writes no row needs to keep both.
LEMMA RowsStay ==
  ASSUME ManagerTyped, RowsAllocatedOnce, UNCHANGED yieldLedger,
         todo' \subseteq Tenants, moves' \in [Tenants -> Nat],
         reading' \in {NotRead} \cup [tenant : Tenants, deposited : Nat, shares : Nat, moves : Nat],
         results' \subseteq results,
         \A row \in Tried' : row \in Tried \/ (row \in results /\ yieldLedger[row].totalYield >= MinYield),
         results' \cap Tried' = {},
         eligible' \cap (paid' \cup credited') = {}, paid' \cap credited' = {}
  PROVE  ManagerTyped' /\ RowsAllocatedOnce'
  <1>1. (results \cup Tried)' \subseteq DOMAIN yieldLedger
    BY DEF ManagerTyped, Tried
  <1>2. ManagerTyped'
    BY <1>1 DEF ManagerTyped
  <1>3. RowsAllocatedOnce'
    BY DEF RowsAllocatedOnce, Tried
  <1> QED BY <1>2, <1>3

LEMMA StepKeepsRows ==
  BooksInv /\ ManagerTyped /\ RowsAllocatedOnce /\ [YmNext]_<<vars, ymVars>>
    => ManagerTyped' /\ RowsAllocatedOnce'
  <1> SUFFICES ASSUME BooksInv, ManagerTyped, RowsAllocatedOnce, [YmNext]_<<vars, ymVars>>
               PROVE  ManagerTyped' /\ RowsAllocatedOnce'
    OBVIOUS
  <1> USE DEF cycle, ledgers, allocations, chain
  <1> DEFINE Reading == [tenant : Tenants, deposited : Nat, shares : Nat, moves : Nat]
  <1>1. /\ todo \subseteq Tenants /\ moves \in [Tenants -> Nat]
        /\ reading \in {NotRead} \cup Reading
        /\ yieldLedger \in Seq(LedgerRow)
    BY DEF ManagerTyped
  <1>2. ASSUME NEW t \in Tenants, ReadPosition(t) PROVE ManagerTyped' /\ RowsAllocatedOnce'
    <2>1. Decoded(t) \in Reading
      BY <1>1 DEF Decoded, BooksInv, BooksTyped
    <2>2. reading' \in {NotRead} \cup Reading
      BY <1>2, <2>1 DEF ReadPosition
    <2> QED BY <1>1, <1>2, <2>2, RowsStay DEF ReadPosition, RowsAllocatedOnce, Tried
  <1>3. CASE RecordSnapshot
    <2> DEFINE row == [tenant |-> reading.tenant, totalYield |-> UnrealizedYield, moves |-> reading.moves]
    <2>1. reading \in Reading /\ reading.deposited \in Nat /\ reading.shares \in Nat
      BY <1>1, <1>3 DEF RecordSnapshot
    <2>2. UnrealizedYield \in Nat
      <3>1. convertToAssets(FirstVault, reading.shares) \in Nat
        BY <2>1, ConversionsTyped, ConstantsOK DEF BooksInv
      <3> QED BY <2>1, <3>1 DEF UnrealizedYield
    <2>3. row \in LedgerRow
      BY <2>1, <2>2 DEF LedgerRow
    <2> HIDE DEF row
    <2> PICK m : m = Len(yieldLedger')
      OBVIOUS
    <2>4. /\ yieldLedger' = Append(yieldLedger, row) /\ results' = results \cup {m}
          /\ UNCHANGED <<todo, eligible, paid, credited, moves>> /\ reading' = NotRead
      BY <1>3 DEF RecordSnapshot, row
    <2>5. /\ yieldLedger' \in Seq(LedgerRow)
          /\ DOMAIN yieldLedger' = DOMAIN yieldLedger \cup {m} /\ m \notin DOMAIN yieldLedger
          /\ \A i \in DOMAIN yieldLedger : yieldLedger'[i] = yieldLedger[i]
      BY <1>1, <2>3, <2>4, AppendProperties
    <2>6. ManagerTyped'
      BY <1>1, <2>4, <2>5 DEF ManagerTyped, Tried
    <2>7. RowsAllocatedOnce'
      BY <2>4, <2>5 DEF RowsAllocatedOnce, ManagerTyped, Tried
    <2> QED BY <2>6, <2>7
  <1>4. CASE SnapshotEnds
    BY <1>1, <1>4, RowsStay DEF SnapshotEnds, RowsAllocatedOnce, Tried
  <1>5. ASSUME NEW row \in eligible, TransferPlatformShare(row) \/ TransferFails(row)
        PROVE  ManagerTyped' /\ RowsAllocatedOnce'
    BY <1>1, <1>5, RowsStay DEF TransferPlatformShare, TransferFails, RowsAllocatedOnce, Tried
  <1>6. ASSUME NEW row \in paid, NEW hasUser \in BOOLEAN, CreditTenant(row, hasUser)
        PROVE  ManagerTyped' /\ RowsAllocatedOnce'
    BY <1>1, <1>6, RowsStay DEF CreditTenant, RowsAllocatedOnce, Tried
  <1>7. CASE Crash
    BY <1>1, <1>7, RowsStay DEF Crash, RowsAllocatedOnce, Tried
  <1>8. CASE FindTenants \/ \E t \in Tenants : ReadFails(t)
    BY <1>1, <1>8, RowsStay DEF FindTenants, ReadFails, RowsAllocatedOnce, Tried
  <1>9. CASE ChainStep
    <2>1. moves' \in [Tenants -> Nat]
      BY <1>1, <1>9 DEF ChainStep
    <2> QED BY <1>1, <1>9, <2>1, RowsStay DEF ChainStep, RowsAllocatedOnce, Tried
  <1>10. CASE UNCHANGED <<vars, ymVars>>
    BY <1>1, <1>10, RowsStay DEF ymVars, RowsAllocatedOnce, Tried
  <1> QED BY <1>2, <1>3, <1>4, <1>5, <1>6, <1>7, <1>8, <1>9, <1>10 DEF YmNext, YmStep

\* A row of the YieldLedger is paid for and credited at most once, and only when
\* its yield is enough, through failed transfers, crashes and snapshots that begin
\* while allocations are under way: what is allocated again is in another row.
THEOREM RowsAllocatedOnceHolds == YmSpec => []RowsAllocatedOnce
  <1>1. YmInit => ManagerTyped /\ RowsAllocatedOnce
    BY DEF YmInit, ManagerTyped, RowsAllocatedOnce, Tried
  <1> QED BY <1>1, StepKeepsRows, BooksBesideManager, PTL DEF YmSpec
===============================================================================
