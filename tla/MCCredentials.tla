--------------------------- MODULE MCCredentials ---------------------------
(* Small instances of Credentials.                                         *)
EXTENDS Credentials, TLC

CONSTANTS c1, c2, a, b, d1, d2

=============================================================================
