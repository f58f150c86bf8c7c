----------------------------- MODULE MCCheckout -----------------------------
(***************************************************************************)
(* Small instances of Checkout: a bottle that costs the reward's cap or    *)
(* more, one unit of it in the cart, a free bottle and a discount held.    *)
(***************************************************************************)
EXTENDS Checkout, TLC

CONSTANTS s1, s2, s3, bottle, discount

MCTerms == [r \in Rewards |->
  IF r = bottle THEN [kind |-> "free_bottle", value |-> 1, cap |-> 2000]
  ELSE [kind |-> "discount_percent", value |-> 5, cap |-> None]]
MCCart == [p \in Products |-> IF p = 1 THEN 1 ELSE 0]
MCPrice == [p \in Products |-> Min(Prices)]
MCSymmetry == Permutations(Sessions)
==============================================================================
