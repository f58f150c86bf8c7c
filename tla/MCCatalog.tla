----------------------------- MODULE MCCatalog -----------------------------
(***************************************************************************)
(* Two categories, the first with a brand and the brand with a product;    *)
(* and the same with the product hidden.                                   *)
(***************************************************************************)
EXTENDS Catalog, TLC

CONSTANTS t1, t2

MCSeed == 1 :> CategoryRow(1, 0) @@ 2 :> CategoryRow(2, 0) @@ 11 :> BrandRow(1, 1, 0) @@ 21 :> ProductRow(11, 1, 0)
MCHidden == [MCSeed EXCEPT ![21].on = FALSE]
MCSymmetry == Permutations(Tasks)
=============================================================================
