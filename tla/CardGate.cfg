\* Two PATCHes, an authorization, a review and a session at a time.
SPECIFICATION GateFairSpec
CONSTANTS
  Patches = {p1, p2}
  Charges = {a1}
  Reviews = {v1}
  Sessions = {n1}
INVARIANTS
  GateTypeOK
  CancelledIsClosed
  CopiesAgree
  KycFollowsReviews
PROPERTY BlockTakesHold
