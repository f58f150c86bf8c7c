---------------------------- MODULE MCOrderForm ----------------------------
(***************************************************************************)
(* Small instances of OrderForm.                                           *)
(***************************************************************************)
EXTENDS OrderForm, TLC

CONSTANTS t1, t2, x, pickup, postal, cash, card, r

Symmetry == Permutations(Tasks) \cup Permutations(Payments)
=============================================================================
