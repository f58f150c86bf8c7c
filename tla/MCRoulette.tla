----------------------------- MODULE MCRoulette -----------------------------
(***************************************************************************)
(* Small instances of Roulette.                                            *)
(***************************************************************************)
EXTENDS Roulette, TLC

CONSTANTS stamps, discount, s1, s2

MCSymmetry == Permutations(Sessions)
=============================================================================
