\* A settlement worker, two sweeping loops, a top-up and an allocation on one account.
SPECIFICATION SweepSpec
CONSTANTS
  w1 = w1
  coffee = coffee
  sweepService = sweepService
  yieldManager = yieldManager
  topUp = topUp
  Tokens = {coffee}
  Workers = {w1}
  MaxRetries = 1
  Faults = {"rpc", "receipt", "revert", "database"}
  MaxDisruptions = 1
  MaxTxs = 2
  NoJob = NoJob
  NoToken = NoToken
  Sweepers = {sweepService, yieldManager}
  ToppingUp = {topUp}
  Price <- OneEach
  PlatformShare = 1
  InitialUsdc <- Balances
  sweepThreshold = 1
  ISSUER_SAFE_MIN_BALANCE = 2
  ISSUER_SAFE_TOPUP_AMOUNT = 3
PROPERTY PromiseOrReplaced
INVARIANTS
  BookedUnpaidOnlyIf
  PhantomRowOnlyIf
  UnbookedSweepOnlyIf
  IssuerWithinTarget
SYMMETRY Alike
\* The loops rest when no balance asks for a transfer.
CHECK_DEADLOCK FALSE
