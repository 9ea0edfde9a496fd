SPECIFICATION Spec
CONSTANTS
    Tenants = {t1, t2}
    Vaults = {v1, v2}
    FirstVault = v1
    AavePool = aavePool
    Distributor = distributor
    USDC = usdcToken
    Rates <- MCRates
    RateScale = 2
    Amounts <- MCAmounts
    Funds = 4
    MaxFunds = 4
    MaxListed = 1
    MaxEarned = 3
INVARIANTS
    TypeOK
    PositionsAddUp
    YieldIsEarned
PROPERTIES
    BackingLostOnlyIf
SYMMETRY
    MCSymmetry
