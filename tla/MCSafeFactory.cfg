\* Two factories, two tenants, four deployments, of which a reader meets three in pages of one and two.
SPECIFICATION MCSpec
CONSTANTS
  f1 = f1
  f2 = f2
  t1 = t1
  t2 = t2
  u1 = u1
  Factories = {f1, f2}
  Tenants = {t1, t2}
  Signers = {u1}
  MaxNonce = 2
  MaxDeployed = 4
  Safes <- Clones
  None = None
  PageSizes = {1, 2}
  MaxDeployedRead = 3
INVARIANTS
  ListsAgree
  ReverseAgrees
  PagesMissOnlyMoved
  AddressesByNonce
PROPERTY EntersOnce
SYMMETRY Alike
