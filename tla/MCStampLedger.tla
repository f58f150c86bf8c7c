--------------------------- MODULE MCStampLedger ---------------------------
(***************************************************************************)
(* A small instance of StampLedger: two customers, one order of the first, *)
(* a spin of the first, and a referral between the two.                    *)
(***************************************************************************)
EXTENDS StampLedger, TLC

CONSTANTS u1, u2, s1, s2, o1, p1, r1

MCOwner == [o \in Orders |-> u1]
MCSpinner == [p \in Spins |-> u1]
MCParty == [r \in Referrals |-> {u1, u2}]
MCSymmetry == Permutations(Sessions)
============================================================================
