\* Two updates of one customer at once, over two confirmations.
CONSTANTS
  s1 = s1
  s2 = s2
  s3 = s3
  bottle = bottle
  discount = discount
  None = None
  Sessions = {s1, s2}
  Products = {1}
  Rewards = {bottle, discount}
  Terms <- MCTerms
  Prices = {1250, 2500}
  InitialCart <- MCCart
  InitialPrice <- MCPrice
  MaxQuantity = 2
  MaxVisits = 2
  MaxItem = 2
SYMMETRY MCSymmetry
SPECIFICATION Spec
INVARIANTS
  EachItemOrderedOnce
  OneOrderPerSummary
  TotalExplained
PROPERTY CancelStopsConfirm
