\* Two events on two processes, a tenant that refuses, fails and answers late and whose URL
\* changes once, failing look-ups and inserts, and a crash.
SPECIFICATION FairSpec
CONSTANTS
  approved = approved
  declined = declined
  p1 = p1
  p2 = p2
  Events = {approved, declined}
  Processes = {p1, p2}
  ProcessOf <- OwnProcess
  Urls = {oldHook, newHook}
  NoUrl = NoUrl
  Faults = {"lookup", "refused", "lost", "audit"}
  RETRY_DELAYS <- Delays
  REQUEST_TIMEOUT = 10
  maxAgeSeconds = 300
  MaxUpdates = 1
  MaxCrashes = 1
INVARIANTS
  CopiesExplained
  RetriesStayFresh
PROPERTY EventAccountedFor
\* The service rests once every dispatch has ended.
CHECK_DEADLOCK FALSE
