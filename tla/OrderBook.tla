------------------------------ MODULE OrderBook ------------------------------
(***************************************************************************)
(* What V-Shop promises about orders, whoever moves them and whatever runs *)
(* at the same time: an order follows the status table, and the move to    *)
(* Completed settles everything the order earned in one indivisible step.  *)
(* There are no sessions, locks or rows here.  OrderCompletion implements  *)
(* this specification.                                                     *)
(***************************************************************************)
EXTENDS OrderRules

VARIABLES
  status,     \* of each order
  stamps,     \* stamps each customer was given
  purchases,  \* qualifying purchases of each customer
  spins,      \* roulette spins each customer was granted
  paid        \* customers whose invitation has been paid out

bookVars == <<status, stamps, purchases, spins, paid>>

Init ==
  /\ status = InitialStatus
  /\ stamps = [c \in Customers |-> 0]
  /\ purchases = [c \in Customers |-> 0]
  /\ spins = [c \in Customers |-> 0]
  /\ paid = {}

\* Every move but a completion changes the status and nothing else.
Move(o, t) ==
  /\ t # "completed"
  /\ CanTransition(status[o], t)
  /\ status' = [status EXCEPT ![o] = t]
  /\ UNCHANGED <<stamps, purchases, spins, paid>>

\* A customer's first purchase pays out their invitation, if they had one.
PaysReferral(c) == Referrer[c] # None /\ purchases[c] = 0

If(condition, n) == IF condition THEN n ELSE 0

Settle(o) ==
  LET buyer == Customer[o]
      invited == PaysReferral(buyer)
  IN  /\ purchases' = [purchases EXCEPT ![buyer] = @ + 1]
      /\ stamps' = [x \in Customers |-> stamps[x]
           + If(x = buyer, StampsFor(o))
           + If(invited /\ x = buyer, ReferredStamps)
           + If(invited /\ x = Referrer[buyer], ReferrerStamps)]
      /\ spins' = [x \in Customers |-> spins[x]
           + If(x = buyer /\ IsMilestone(purchases[buyer] + 1), 1)
           + If(invited /\ x = Referrer[buyer], ReferralSpins)]
      /\ paid' = IF invited THEN paid \cup {buyer} ELSE paid

Complete(o) ==
  /\ CanTransition(status[o], "completed")
  /\ status' = [status EXCEPT ![o] = "completed"]
  /\ IF Qualifies(o) THEN Settle(o) ELSE UNCHANGED <<stamps, purchases, spins, paid>>

Next == \E o \in Orders : Complete(o) \/ \E t \in Statuses : Move(o, t)

Spec == Init /\ [][Next]_bookVars
==============================================================================
