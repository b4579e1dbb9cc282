------------------------------- MODULE Outbox -------------------------------
(***************************************************************************)
(* What the notifications queue promises a producer, whatever the worker   *)
(* does inside: a posted message is handed to the mailer while it is       *)
(* pending and never afterwards, a second hand-off happens only when the   *)
(* outcome of the previous one was lost, and a message is settled (sent or *)
(* failed) or cancelled once.  NotificationWorker implements it.           *)
(***************************************************************************)
EXTENDS Naturals

CONSTANT Messages

VARIABLES
    state,      \* where each message is
    unknown,    \* messages handed off whose outcome is not yet recorded
    handoffs    \* how many times each message was accepted by the mailer

vars == <<state, unknown, handoffs>>

Init ==
    /\ state = [m \in Messages |-> "absent"]
    /\ unknown = {}
    /\ handoffs = [m \in Messages |-> 0]

Post(m) ==
    /\ state[m] = "absent"
    /\ state' = [state EXCEPT ![m] = "pending"]
    /\ UNCHANGED <<unknown, handoffs>>

HandOff(m) ==
    /\ state[m] = "pending"
    /\ m \notin unknown
    /\ unknown' = unknown \cup {m}
    /\ handoffs' = [handoffs EXCEPT ![m] = @ + 1]
    /\ UNCHANGED state

\* The sender died holding the outcome; the message stays pending.
LoseOutcome(m) ==
    /\ m \in unknown
    /\ unknown' = unknown \ {m}
    /\ UNCHANGED <<state, handoffs>>

Settle(m) ==
    /\ state[m] = "pending"
    /\ state' = [state EXCEPT ![m] = "settled"]
    /\ unknown' = unknown \ {m}
    /\ UNCHANGED handoffs

\* A renewal withdraws every message of its chase that nobody has taken.
Cancel(M) ==
    /\ \A m \in M : state[m] = "pending" /\ m \notin unknown
    /\ state' = [m \in Messages |-> IF m \in M THEN "cancelled" ELSE state[m]]
    /\ UNCHANGED <<unknown, handoffs>>

Next ==
    \/ \E m \in Messages : Post(m) \/ HandOff(m) \/ LoseOutcome(m) \/ Settle(m)
    \/ \E M \in SUBSET Messages : Cancel(M)

Spec == Init /\ [][Next]_vars
=============================================================================
