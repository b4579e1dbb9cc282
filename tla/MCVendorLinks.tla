--------------------------- MODULE MCVendorLinks ---------------------------
(* Small instances of VendorLinks.                                         *)
EXTENDS VendorLinks, TLC

CONSTANTS v1, v2, a, b, l1, l2, r1, r2

MCSites == {{l1}}

Symmetry == Permutations(Requests) \cup Permutations(Vendors)

=============================================================================
