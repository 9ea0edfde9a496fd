\* Two watchers on one cursor, with reorganisations, failing writes and polls and a crash.
SPECIFICATION FairSpec
CONSTANTS
  w1 = w1
  w2 = w2
  d1 = d1
  d2 = d2
  s1 = s1
  safe = safe
  Watchers = {w1, w2}
  Deposits = {d1}
  Settlements = {s1}
  Safes = {safe}
  SafeOf <- OneSafe
  StartBlock = 1
  CONFIRMATION_BUFFER = 1
  MAX_CONSECUTIVE_FAILURES = 2
  ReorgDepth = 1
  MaxBlock = 3
  MaxDisruptions = 2
INVARIANTS
  CursorCovers
  IndexedIsFinal
  CreditedTwiceOnlyIf
PROPERTY FinalIsIndexed
