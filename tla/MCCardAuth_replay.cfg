\* Two concurrent deliveries of one transaction; nothing fails or expires.
SPECIFICATION Spec
CONSTANTS
  d1 = d1
  d2 = d2
  coffee = coffee
  p1 = p1
  p2 = p2
  user = user
  Deliveries = {d1, d2}
  TxTokens = {coffee}
  Processes = {p1, p2}
  TokenOf <- Replayed
  AmountOf <- MCAmountOf
  Authorizations = {coffee}
  BlockedMcc = {}
  InitialLedger = 3
  InitialLimits <- Unlimited
  UserIds = {user}
  SubAccountId = subAccount
  MAX_ATOMIC_RETRIES = 2
  MayFail = FALSE
  Expirable = {}
  MaxCrashes = 0
  MaxRefills = 0
  Missing = Missing
INVARIANT ReplayChargesOnce
\* The backend rests once every delivery is answered.
CHECK_DEADLOCK FALSE
