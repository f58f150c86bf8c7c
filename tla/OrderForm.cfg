\* One customer, two updates at a time, one delivery of the one city and none of
\* the other, one payment and one reward, a number or none; any number of
\* checkouts.
CONSTANTS
  t1 = t1
  t2 = t2
  x = x
  pickup = pickup
  postal = postal
  cash = cash
  card = card
  r = r
  None = None
  Tasks = {t1, t2}
  Texts = {x}
  BerlinDelivery = {pickup}
  OtherDelivery = {}
  Payments = {cash}
  Rewards = {r}
SYMMETRY Symmetry
SPECIFICATION Spec
INVARIANTS
  OrdersComplete
  DiffersOnlyByOverlap
