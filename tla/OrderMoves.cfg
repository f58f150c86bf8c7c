\* Two admins and most buttons, on two orders of one invited customer.
CONSTANTS
  a = a
  b = b
  c = c
  s1 = s1
  s2 = s2
  s3 = s3
  oa = oa
  ob1 = ob1
  ob2 = ob2
  ob3 = ob3
  oc = oc
  None = None
  Customers = {a, b, c}
  Admins = {s1, s2}
  Orders = {ob1, ob2}
  Customer <- MCCustomer
  Total <- MCTotal
  Eligible <- MCEligible
  Referrer <- MCReferrer
  InitialStatus <- MCHalfway
  Threshold = 2000
  EveryN = 2
  ReferredStamps = 1
  ReferrerStamps = 2
  ReferralSpins = 1
  Targets = {"new", "shipped", "completed", "cancelled"}
  MaxMoves = 2
SPECIFICATION FairSpec
INVARIANTS
  PathFollowsTable
  ToldWhatHappened
PROPERTY EveryTapEnds
