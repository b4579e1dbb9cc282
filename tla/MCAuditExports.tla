--------------------------- MODULE MCAuditExports ---------------------------
(* Small instances of AuditExports.                                        *)
EXTENDS AuditExports

CONSTANTS p1, p2

=============================================================================
