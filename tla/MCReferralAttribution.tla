----------------------- MODULE MCReferralAttribution -----------------------
(***************************************************************************)
(* Small instances of ReferralAttribution.                                 *)
(***************************************************************************)
EXTENDS ReferralAttribution

CONSTANTS a, b, c, s1, s2

============================================================================
