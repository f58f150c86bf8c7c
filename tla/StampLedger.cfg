\* Two transactions over two customers; every kind of ledger movement.
CONSTANTS
  u1 = u1
  u2 = u2
  s1 = s1
  s2 = s2
  o1 = o1
  p1 = p1
  r1 = r1
  None = None
  Users = {u1, u2}
  Sessions = {s1, s2}
  Orders = {o1}
  Spins = {p1}
  Referrals = {r1}
  Owner <- MCOwner
  Spinner <- MCSpinner
  Party <- MCParty
  StampsRequired = 1
  MaxStamps = 1
  MaxId = 3
  MaxReward = 1
SYMMETRY MCSymmetry
SPECIFICATION Spec
INVARIANTS
  LedgerExplainsBalance
  EventBookedOnce
  PurchasesCounted
  ClaimFollowsItsCard
  DebitIffReward
