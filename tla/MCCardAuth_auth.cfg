\* A purchase and its replay race on one entry that has room for one of them, with failures,
\* every key's expiry and a crash.
SPECIFICATION MCFairSpec
CONSTANTS
  d1 = d1
  d2 = d2
  coffee = coffee
  p1 = p1
  p2 = p2
  user = user
  Deliveries = {d1, d2}
  TxTokens = {coffee}
  Processes = {p1, p2}
  TokenOf <- Replayed
  AmountOf <- MCAmountOf
  Authorizations = {coffee}
  BlockedMcc = {}
  InitialLedger = 3
  InitialLimits <- DailyOne
  UserIds = {user}
  SubAccountId = subAccount
  MAX_ATOMIC_RETRIES = 2
  MayFail = TRUE
  Expirable = {"auth", "card", "processed"}
  MaxCrashes = 1
  MaxRefills = 1
  Missing = Missing
INVARIANTS
  SpendLostOnlyIf
  OverLimitOnlyIf
  ApprovedIsCharged
PROPERTIES
  EveryDeliveryAnswered
  ApprovedIsEnqueued
\* The backend rests once every delivery is answered.
CHECK_DEADLOCK FALSE
