\* One change of the catalogue after another and at once, one conversation.
CONSTANTS
  t1 = t1
  t2 = t2
  Null = Null
  Gone = Gone
  Categories = {1, 2, 3}
  Brands = {11, 12}
  Products = {21, 22, 23}
  Seed <- MCHidden
  Touched = {1, 11, 21}
  Tasks = {t1, t2}
  TTL = 1
  MaxTime = 1
  MaxRuns = 1
  MaxChanges = 2
SYMMETRY MCSymmetry
SPECIFICATION CatalogSpec
\* Clock, conversations and changes are bounded.
CHECK_DEADLOCK FALSE
INVARIANTS
  ParentsExist
  StaleOnlyByOverlap
  HiddenListedBriefly
  OneProductPerRun
  ShownAsTold
