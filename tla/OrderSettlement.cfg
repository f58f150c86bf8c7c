\* Three sessions complete the orders of a chain of two invitations at once.
CONSTANTS
  a = a
  b = b
  c = c
  s1 = s1
  s2 = s2
  s3 = s3
  oa = oa
  ob1 = ob1
  ob2 = ob2
  ob3 = ob3
  oc = oc
  None = None
  Customers = {a, b, c}
  Admins = {s1, s2, s3}
  Orders = {ob1, ob2, ob3, oc}
  Customer <- MCCustomer
  Total <- MCTotal
  Eligible <- MCEligible
  Referrer <- MCReferrer
  InitialStatus <- MCInitialStatus
  Threshold = 2000
  EveryN = 2
  ReferredStamps = 1
  ReferrerStamps = 2
  ReferralSpins = 1
  Targets = {"completed"}
  MaxMoves = 1
SYMMETRY MCSymmetry
SPECIFICATION Spec
\* Once every order is completed there is nothing left to tap.
CHECK_DEADLOCK FALSE
INVARIANTS
  SettledWhole
  NoWaitCycle
PROPERTY ImplementsOrderBook
