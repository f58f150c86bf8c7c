----------------------------- MODULE OrderRules -----------------------------
(***************************************************************************)
(* The rules every part of V-Shop that moves or settles an order asks: the *)
(* status table (utils/order_status.py), what a qualifying purchase is and *)
(* earns (services/stamp_card.py), which purchase earns a spin             *)
(* (services/spin_entitlement.py).  Money is in whole cents.               *)
(***************************************************************************)
EXTENDS Integers

CONSTANTS
  Customers,
  Orders,
  Customer,        \* each order's customer
  Total,           \* each order's charged total, in cents
  Eligible,        \* loyalty_eligible: placed after the programme launched
  InitialStatus,   \* where each order stands at first, never Completed
  Referrer,        \* who invited each customer, None if nobody did
  Threshold,       \* LOYALTY_STAMP_PURCHASE_THRESHOLD, in cents
  EveryN,          \* ROULETTE_SPIN_EVERY_N_PURCHASES, 0 for no such spins
  ReferredStamps,  \* REFERRED_USER_START_STAMPS
  ReferrerStamps,  \* REFERRAL_REWARD_STAMPS
  ReferralSpins,   \* REFERRAL_SPINS, 0 or 1
  None

\* OrderStatus.
Statuses == {"new", "accepted", "shipped", "completed", "cancelled"}

ASSUME RulesAssumption ==
  /\ None \notin Customers
  /\ None \notin Orders
  /\ Customer \in [Orders -> Customers]
  /\ Total \in [Orders -> Nat]
  /\ Eligible \in [Orders -> BOOLEAN]
  /\ InitialStatus \in [Orders -> Statuses \ {"completed"}]
  /\ Referrer \in [Customers -> Customers \cup {None}]
  /\ \A c \in Customers : Referrer[c] # c
  /\ Threshold \in Nat \ {0}
  /\ EveryN \in Nat
  /\ ReferredStamps \in Nat
  /\ ReferrerStamps \in Nat
  /\ ReferralSpins \in {0, 1}

AllowedTransitions ==
  [new |-> {"accepted", "cancelled"},
   accepted |-> {"shipped", "cancelled"},
   shipped |-> {"completed", "cancelled"},
   completed |-> {},
   cancelled |-> {"new"}]

CanTransition(current, target) == target \in AllowedTransitions[current]

\* STATUS_MESSAGE_KEYS: the moves a customer hears of.
Notifiable == {"accepted", "shipped", "completed", "cancelled"}

\* purchase_disqualification, of an order that is Completed.
Qualifies(o) == Eligible[o] /\ Total[o] > 0

\* Whole thresholds only, never rounded up.
StampsFor(o) == Total[o] \div Threshold

IsMilestone(number) == EveryN > 0 /\ number > 0 /\ number % EveryN = 0
=============================================================================
