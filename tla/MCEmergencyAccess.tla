------------------------- MODULE MCEmergencyAccess -------------------------
(***************************************************************************)
(* Small instances of EmergencyAccess.  All tasks are alike.               *)
(***************************************************************************)
EXTENDS EmergencyAccess, TLC

CONSTANTS u1, u2, t1, t2, t3

MCSymmetry == Permutations(Tasks)
=============================================================================
