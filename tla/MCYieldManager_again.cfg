SPECIFICATION YmSpec
CONSTANTS
    Tenants = {t1}
    Vaults = {v1}
    FirstVault = v1
    AavePool = aavePool
    Distributor = distributor
    USDC = usdcToken
    Rates <- MCRates
    RateScale = 2
    Amounts <- MCAmounts
    Funds = 2
    MaxFunds = 4
    MaxListed = 0
    MaxEarned = 2
    MinYield = 1
    MaxRows = 2
INVARIANT
    YieldAllocatedOnce
