\* Every call by two accounts, three transactions over two slots, two tokens,
\* a window of one tick, an amount beyond the slot's width and short transfers.
SPECIFICATION Spec
CONSTANTS
  user = user
  issuer = issuer
  usdcA = usdcA
  usdcB = usdcB
  tx1 = tx1
  tx2 = tx2
  tx3 = tx3
  Accounts = {user, issuer}
  Safe = user
  NoAccount = NoAccount
  Tokens = {usdcA, usdcB}
  TxTokens = {tx1, tx2, tx3}
  Amounts = {0, 1, 2}
  Caps = {1}
  MaxUint = 100
  MaxUint128 = 1
  Shortfalls = {0, 1}
  Funds = 2
  MAX_RECORDS = 2
  WINDOW_DURATION = 1
  MaxTime = 2
SYMMETRY Alike
INVARIANTS
  SettledOnce
  PaidInFull
  BufferHoldsLatest
  RollingSpendExact
