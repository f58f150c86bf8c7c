\* Two updates of one operator at once, two screens, one restart.
CONSTANTS
  t1 = t1
  t2 = t2
  c1 = c1
  c2 = c2
  x1 = x1
  x2 = x2
  l1 = l1
  l2 = l2
  l3 = l3
  None = None
  Keys = {"stamps", "broadcast"}
  Procs = {t1, t2}
  Locks = {l1, l2, l3}
  MaxLocks = 1
  Customers = {c1, c2}
  Named = {c1}
  Amounts = {1, 2}
  Screens = {x1, x2}
  MaxRetries = 1
  MaxRestarts = 1
SPECIFICATION FairSpec
INVARIANTS
  KeysExclude
  CreditedAsConfirmed
  NeverStuckSubmitted
  ReceivedOnce
  CountsAddUp
PROPERTY FanOutEnds
