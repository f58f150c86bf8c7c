-------------------------- MODULE MCAdminWizards --------------------------
(***************************************************************************)
(* Small instances of AdminWizards: one operator, two updates at once.     *)
(***************************************************************************)
EXTENDS AdminWizards

CONSTANTS t1, t2, c1, c2, x1, x2, l1, l2, l3
=============================================================================
