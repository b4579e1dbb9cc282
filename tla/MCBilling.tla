----------------------------- MODULE MCBilling -----------------------------
(* Small instances of Billing.                                             *)
EXTENDS Billing, TLC

CONSTANTS l1, l2, l3, e1, e2, w1, w2, a1, a2, s1, s2, r1, r2, f1, f2

\* With a fee, and without: the default.
MCQuoted == {[rate |-> r1, fee |-> f1], [rate |-> r1, fee |-> None]}

=============================================================================
