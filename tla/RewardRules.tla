----------------------------- MODULE RewardRules -----------------------------
(***************************************************************************)
(* What a reward takes off an order (services/reward.py), as checkout      *)
(* offers it and as placing the order applies it.  Lines are a function    *)
(* from products to what the cart holds of them; products are their ids    *)
(* and money is in whole cents.                                            *)
(***************************************************************************)
EXTENDS Integers, FiniteSetsExt

CONSTANTS
  Products,
  Rewards,
  Terms,  \* of each reward: [kind, value, cap], as snapshotted when it was issued
  None

ASSUME TermsAssumption ==
  /\ Products \subseteq Nat /\ IsFiniteSet(Products)
  /\ None \notin Products \cup Rewards
  /\ \A r \in Rewards :
       \/ /\ Terms[r].kind = "discount_percent"
          /\ Terms[r].value \in 1..100
       \/ /\ Terms[r].kind = "free_bottle"
          /\ Terms[r].cap \in Nat \ {0}

LinesTotal(lines) ==
  MapThenSumSet(LAMBDA p : lines[p].price * lines[p].quantity, DOMAIN lines)

\* Rounded half up to the cent.
PercentageOff(total, percent) == (2 * total * percent + 100) \div 200

\* The dearest product within the cap, the lowest id of several.
ChooseFreeBottle(lines, cap) ==
  LET eligible == {p \in DOMAIN lines : lines[p].quantity > 0 /\ lines[p].price <= cap}
      dearest == {p \in eligible : \A q \in eligible : lines[q].price <= lines[p].price}
  IN  IF eligible = {} THEN None ELSE Min(dearest)

\* The product a reward makes free, None for a discount.
FreeProduct(r, lines) ==
  IF Terms[r].kind = "free_bottle" THEN ChooseFreeBottle(lines, Terms[r].cap) ELSE None

\* plan.discount; 0 where the code raises RewardNotApplicableError.
Saving(r, lines) ==
  IF Terms[r].kind = "discount_percent"
  THEN PercentageOff(LinesTotal(lines), Terms[r].value)
  ELSE LET p == FreeProduct(r, lines) IN IF p = None THEN 0 ELSE lines[p].price

\* plan.apply: the order's item rows, one unit of the chosen product at 0.
OrderItems(r, lines) ==
  LET free == IF r = None THEN None ELSE FreeProduct(r, lines)
      paid(p) == lines[p].quantity - (IF p = free THEN 1 ELSE 0)
  IN  {[product |-> p, quantity |-> paid(p), price |-> lines[p].price] :
         p \in {q \in DOMAIN lines : paid(q) > 0}}
      \cup {[product |-> p, quantity |-> 1, price |-> 0] : p \in {free} \cap DOMAIN lines}

ItemsTotal(items) == MapThenSumSet(LAMBDA i : i.price * i.quantity, items)
==============================================================================
