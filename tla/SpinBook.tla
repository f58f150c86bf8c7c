------------------------------ MODULE SpinBook ------------------------------
(***************************************************************************)
(* What the roulette promises: a customer gets the welcome spin once and   *)
(* an order earns one, a grant is played once, and a play records its      *)
(* prize and books what the prize is worth in one step.  Roulette          *)
(* implements it.                                                          *)
(***************************************************************************)
EXTENDS SequencesExt

CONSTANTS Prizes, StampPrizes

VARIABLES
  grants,  \* roulette_spin_grants in the order of their ids, spent or not
  spins,   \* roulette_spins: the grant each was paid with, whose it was, and its prize
  ledger,  \* the grants whose spin booked stamps
  rewards  \* the grants whose spin issued a reward

vars == <<grants, spins, ledger, rewards>>

Init == grants = <<>> /\ spins = {} /\ ledger = {} /\ rewards = {}

\* One welcome spin for each customer, and one spin for each order.
EarnedOnce(gs) ==
  \A g, h \in DOMAIN gs :
    /\ g # h
    /\ gs[g].source = gs[h].source
    => gs[g].source = "welcome" /\ gs[g].user # gs[h].user

Grant ==
  /\ IsStrictPrefix(grants, grants')
  /\ EarnedOnce(grants')
  /\ \A g \in DOMAIN grants' \ DOMAIN grants : ~grants'[g].spent
  /\ UNCHANGED <<spins, ledger, rewards>>

Play ==
  \E g \in DOMAIN grants, p \in Prizes :
    /\ ~grants[g].spent
    /\ grants' = [grants EXCEPT ![g].spent = TRUE]
    /\ spins' = spins \cup {[grant |-> g, user |-> grants[g].user, prize |-> p]}
    /\ ledger' = IF p \in StampPrizes THEN ledger \cup {g} ELSE ledger
    /\ rewards' = IF p \in StampPrizes THEN rewards ELSE rewards \cup {g}

Next == Grant \/ Play

Spec == Init /\ [][Next]_vars
=============================================================================
