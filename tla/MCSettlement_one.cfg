\* One process, every fault, a crash, a lost lock or a forgotten job.
SPECIFICATION FairSpec
CONSTANTS
  w1 = w1
  coffee = coffee
  books = books
  Tokens = {coffee, books}
  Workers = {w1}
  MaxRetries = 2
  Faults = {"rpc", "receipt", "revert", "database", "queue"}
  MaxDisruptions = 1
  MaxTxs = 3
  NoJob = NoJob
  NoToken = NoToken
PROPERTIES
  KeepsPromise
  EveryJobConcludes
\* The service rests once every job has ended and nothing is pending.
CHECK_DEADLOCK FALSE
