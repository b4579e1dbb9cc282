--------------------------- MODULE MCVendorReview ---------------------------
(* Small instances of VendorReview.  Documents, jobs, passes and locations   *)
(* are interchangeable.                                                      *)
EXTENDS VendorReview, TLC

CONSTANTS c1, c2, j1, j2, p1, l1, l2

MCInvitations == (SUBSET Locations) \ {{}}

ReviewSymmetry ==
    Permutations(Docs) \cup Permutations(Jobs) \cup Permutations(Passes) \cup Permutations(Locations)
=============================================================================
