\* Three customers who open each other's links, order and complete, two updates
\* at a time; a chain of two invitations is already too long to follow.
CONSTANTS
  a = a
  b = b
  c = c
  s1 = s1
  s2 = s2
  None = None
  Users = {a, b, c}
  Sessions = {s1, s2}
  MaxChain = 1
SPECIFICATION FairSpec
INVARIANTS
  NoReferralLoop
  NoWaitCycle
PROPERTIES
  OnlyNewCustomersReferred
  EveryStartEnds
