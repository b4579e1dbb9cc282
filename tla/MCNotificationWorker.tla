------------------------ MODULE MCNotificationWorker ------------------------
(* Small instances of NotificationWorker: r1 is an immediate exception, r2 a *)
(* chase row due one tick later, d1 a routine row for the digest.            *)
EXTENDS NotificationWorker, TLC

CONSTANTS r1, r2, d1, p1, p2

MCScheduledFor == [r \in Rows |-> IF r = r2 THEN 1 ELSE 0]

PassSymmetry == Permutations(Passes)
=============================================================================
