\* Two writers over one entry that expires, with spends, settlements and a deposit.
SPECIFICATION SyncFairSpec
CONSTANTS
  w1 = w1
  w2 = w2
  coffee = coffee
  books = books
  Writers = {w1, w2}
  Spends = {coffee, books}
  AmountOf <- MCAmountOf
  Limit <- DailyTwo
  Funds = 2
  MaxDeposits = 1
  MaxFailures = 1
  MaxExpiries = 1
  Missing = Missing
INVARIANTS
  LimitsKept
  SpentAccounted
PROPERTY BalanceConverges
