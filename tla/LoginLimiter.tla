---------------------------- MODULE LoginLimiter ----------------------------
(***************************************************************************)
(* The throttle in front of the login and the password-reset request       *)
(* (src/lib/auth/rate-limit.ts): failed attempts per email and per IP in a *)
(* rolling window.  The lock is derived from the rows: the check counts    *)
(* them, the attempt runs, and only then a failure is recorded, in three   *)
(* separate statements of requests that overlap.                           *)
(*                                                                         *)
(* One client IP stands for all: the counters of two IPs never meet.       *)
(***************************************************************************)
EXTENDS Naturals, FiniteSets

CONSTANTS
    Calls,        \* requests that may be in progress at once
    Emails,       \* the addresses attempts are made for
    MaxPerEmail,  \* LOGIN_MAX_PER_EMAIL
    MaxPerIp,     \* LOGIN_MAX_PER_IP
    NoEmail       \* no address

ASSUME LimiterAssumption ==
    /\ IsFiniteSet(Calls) /\ NoEmail \notin Emails
    /\ MaxPerEmail \in Nat \ {0} /\ MaxPerIp \in Nat \ {0}

VARIABLES
    emailFails,  \* rows of login_attempts inside the window, per email
    ipFails,     \* rows of login_attempts inside the window for the IP
    attempt      \* per request: how far the check is, and for which email

limiterVars == <<emailFails, ipFails, attempt>>

NoAttempt == [pc |-> "idle", email |-> NoEmail]

LimiterTypeOK ==
    /\ emailFails \in [Emails -> Nat]
    /\ ipFails \in Nat
    /\ attempt \in [Calls -> {NoAttempt} \cup [pc : {"ip", "allowed"}, email : Emails]]

LimiterInit ==
    /\ emailFails = [e \in Emails |-> 0]
    /\ ipFails = 0
    /\ attempt = [c \in Calls |-> NoAttempt]

\* The requests whose check of the email's rows is behind them, for one email.
Trying(e) == {c \in Calls : attempt[c].email = e}

\* checkLoginRate: the email's rows, then the IP's.  A blocked request ends
\* without a row of its own.  The mutant is one off.
CheckEmail_OffByOne(c, e) ==
    /\ attempt[c].pc = "idle"
    /\ emailFails[e] <= MaxPerEmail
    /\ attempt' = [attempt EXCEPT ![c] = [pc |-> "ip", email |-> e]]
    /\ UNCHANGED <<emailFails, ipFails>>
CheckEmail(c, e) ==
    /\ attempt[c].pc = "idle"
    /\ emailFails[e] < MaxPerEmail
    /\ attempt' = [attempt EXCEPT ![c] = [pc |-> "ip", email |-> e]]
    /\ UNCHANGED <<emailFails, ipFails>>

CheckIp(c) ==
    /\ attempt[c].pc = "ip"
    /\ attempt' = [attempt EXCEPT ![c] = IF ipFails < MaxPerIp THEN [@ EXCEPT !.pc = "allowed"]
                                                               ELSE NoAttempt]
    /\ UNCHANGED <<emailFails, ipFails>>

\* recordLoginFailure: a failed login, and every reset request.
RecordFailure(c) ==
    /\ attempt[c].pc = "allowed"
    /\ emailFails' = [emailFails EXCEPT ![attempt[c].email] = @ + 1]
    /\ ipFails' = ipFails + 1
    /\ attempt' = [attempt EXCEPT ![c] = NoAttempt]

\* clearLoginFailuresForEmail after a successful login: the IP's rows stay.
ClearEmail(c) ==
    /\ attempt[c].pc = "allowed"
    /\ emailFails' = [emailFails EXCEPT ![attempt[c].email] = 0]
    /\ attempt' = [attempt EXCEPT ![c] = NoAttempt]
    /\ UNCHANGED ipFails

\* The window moves on: the oldest row of a scope leaves it.
Age(e) ==
    /\ \/ /\ emailFails[e] > 0
          /\ emailFails' = [emailFails EXCEPT ![e] = @ - 1]
          /\ UNCHANGED ipFails
       \/ /\ ipFails > 0
          /\ ipFails' = ipFails - 1
          /\ UNCHANGED emailFails
    /\ UNCHANGED attempt

\* The server dies.
DropAttempts ==
    /\ attempt' = [c \in Calls |-> NoAttempt]
    /\ UNCHANGED <<emailFails, ipFails>>

LimiterNext ==
    \/ \E c \in Calls : \/ \E e \in Emails : CheckEmail(c, e)
                        \/ CheckIp(c) \/ RecordFailure(c) \/ ClearEmail(c)
    \/ \E e \in Emails : Age(e)
    \/ DropAttempts

LimiterSpec == LimiterInit /\ [][LimiterNext]_limiterVars

-----------------------------------------------------------------------------
(* Properties *)

\* The check and the record are apart, so requests that are checked together all
\* go through (rate-limit.ts:79, :96): an email collects at most one failure less
\* than the limit before the last check that passes, and one for each request in
\* progress after it, never more.
GuessesBounded ==
    \A e \in Emails : emailFails[e] + Cardinality(Trying(e)) <= MaxPerEmail - 1 + Cardinality(Calls)

=============================================================================
