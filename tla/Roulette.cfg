\* Two customers, one of them with a friend's link; two transactions at a time:
\* spins, starts and backfills.
CONSTANTS
  stamps = stamps
  discount = discount
  s1 = s1
  s2 = s2
  None = None
  Users = {1, 2}
  Invited = {1}
  Orders = {"order"}
  Prizes = {stamps, discount}
  StampPrizes = {stamps}
  Sessions = {s1, s2}
SYMMETRY MCSymmetry
SPECIFICATION Spec
INVARIANTS
  ShownIsSaved
  EveryoneActivated
  OnlyLinksMeetBackfills
PROPERTY ImplementsSpinBook
