-------------------------- MODULE MCOrderCompletion --------------------------
(***************************************************************************)
(* Small instances of OrderCompletion: a chain of invitations, a -> b -> c.*)
(* b has an order one cent below the stamp threshold, one at it and a free *)
(* one; a and c have one order at the threshold each.                      *)
(***************************************************************************)
EXTENDS OrderCompletion, TLC

CONSTANTS a, b, c, s1, s2, s3, oa, ob1, ob2, ob3, oc

MCCustomer == [o \in Orders |-> CASE o = oa -> a [] o = oc -> c [] OTHER -> b]
MCTotal == [o \in Orders |-> CASE o = ob1 -> 1999 [] o = ob3 -> 0 [] OTHER -> 2000]
MCEligible == [o \in Orders |-> TRUE]
MCReferrer == [u \in Customers |-> CASE u = b -> a [] u = c -> b [] OTHER -> None]
MCInitialStatus == [o \in Orders |-> "shipped"]
MCHalfway == [o \in Orders |-> IF o = ob1 THEN "accepted" ELSE "shipped"]
MCSymmetry == Permutations(Admins)
==============================================================================
