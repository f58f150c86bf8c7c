\* Two messages of one user, one of which has the profile to refresh.
CONSTANTS
  u1 = u1
  u2 = u2
  t1 = t1
  t2 = t2
  t3 = t3
  None = None
  Users = {u1, u2}
  Admins = {u2}
  Tasks = {t1, t2}
  MaxFailed = 2
  Lockout = 2
  Ttl = 2
  Askers = {u1}
  MaxStarts = 2
  MaxAttempts = 3
  MaxTime = 3
SYMMETRY MCSymmetry
SPECIFICATION Spec
\* The clock and the number of attempts are bounded, and logins can stick.
CHECK_DEADLOCK FALSE
INVARIANT NoWaitCycle
