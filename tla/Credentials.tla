---------------------------- MODULE Credentials ----------------------------
(***************************************************************************)
(* Who may get into one tenant, composed with the login throttle: its users*)
(* and their status (src/lib/services/users.ts), the links that set a      *)
(* password (password-reset.ts), the payment that activates the tenant and *)
(* issues the first admin's link (provisioning.ts, stripe-webhook.ts), and *)
(* the tenant's lifecycle (tenants.ts).                                    *)
(*                                                                         *)
(* Only the confirmation of a link is a transaction, and its checks are    *)
(* outside it.  Every other handler is a sequence of statements; each that *)
(* reads something another may change, or writes, is an action.  A         *)
(* platform operator may impersonate an admin at any time, so a request of *)
(* the tenant's is possible whoever of its users can log in.               *)
(***************************************************************************)
EXTENDS LoginLimiter, Sequences

CONSTANTS
    First,        \* the admin the provisioning creates
    Deliveries,   \* invoice.paid webhooks that may be in progress at once
    MaxLinks,     \* bound: rows of password_reset_tokens
    MaxCalls,     \* bound: requests started
    MaxFaults     \* bound: crashes, and emails the provider refuses

Users == Emails

ASSUME CredentialsAssumption ==
    /\ First \in Users
    /\ IsFiniteSet(Users) /\ IsFiniteSet(Deliveries)
    /\ MaxLinks \in Nat \ {0} /\ MaxCalls \in Nat /\ MaxFaults \in Nat

VARIABLES
    lifecycle,  \* tenants.lifecycle_state
    paid,       \* Stripe: the first invoice is paid
    status,     \* users.status ("none": no row)
    role,       \* users.role: admin, or one of the managers
    passwords,  \* how many passwords the user has set (0: no password_hash)
    links,      \* password_reset_tokens, in the order of issue
    call,       \* per request: how far its handler is, with what it has read
    hook,       \* per webhook delivery: how far its handler is
    stale,      \* history: deactivations whose check a later status write overtook
    hooked,     \* history: a webhook has activated the tenant
    begun, faults

userVars == <<status, role, passwords>>
tenantVars == <<lifecycle, paid>>
bounds == <<begun, faults>>
vars == <<limiterVars, tenantVars, userVars, links, call, hook, stale, hooked, bounds>>

Lifecycles == {"provisioning", "active", "suspended", "offboarded"}
Idle == [pc |-> "idle", user |-> First, link |-> 1, to |-> "active"]
Steps == {"idle", "resolve", "insert", "send", "confirm", "write", "issue", "pay", "lifecycle"}
Patched == {"active", "disabled", "invited"}
CallState ==
    {s \in [pc : Steps, user : Users, link : 1..MaxLinks, to : {"disabled", "invited"} \cup Lifecycles] :
       /\ s.pc = "write" => s.to \in Patched
       /\ s.pc = "lifecycle" => s.to \in Lifecycles}
NoHook == [pc |-> "idle", link |-> 1]
Purposes == {"reset", "invite", "billing_setup"}
\* "sent": the raw token has left the server, so somebody may hold the link.
Link == [user : Users, purpose : Purposes, state : {"live", "consumed", "expired"},
         password : Nat, sent : BOOLEAN]

TypeOK ==
    /\ LimiterTypeOK
    /\ lifecycle \in Lifecycles /\ paid \in BOOLEAN
    /\ status \in [Users -> {"none", "invited", "active", "disabled"}]
    /\ role \in [Users -> {"admin", "manager"}]
    /\ passwords \in [Users -> Nat]
    /\ links \in Seq(Link)
    /\ call \in [Calls -> CallState]
    /\ hook \in [Deliveries -> [pc : {"idle", "transition", "activate", "issue", "send"},
                                link : 1..MaxLinks]]
    /\ stale \subseteq Calls /\ hooked \in BOOLEAN
    /\ begun \in 0..MaxCalls /\ faults \in 0..MaxFaults

NewLink(u, purpose) ==
    [user |-> u, purpose |-> purpose, state |-> "live", password |-> passwords[u], sent |-> FALSE]

\* The tenant when attachBilling has succeeded, and one that has been running.
Init ==
    /\ LimiterInit
    /\ role = [u \in Users |-> "admin"]
    /\ \/ /\ lifecycle = "provisioning" /\ paid = FALSE
          /\ status = [u \in Users |-> IF u = First THEN "invited" ELSE "none"]
          /\ passwords = [u \in Users |-> 0]
          /\ links = <<[NewLink(First, "billing_setup") EXCEPT !.sent = TRUE]>>
       \/ /\ lifecycle = "active" /\ paid = TRUE
          /\ status = [u \in Users |-> "active"]
          /\ passwords = [u \in Users |-> 1]
          /\ links = <<>>
    /\ call = [c \in Calls |-> Idle]
    /\ hook = [d \in Deliveries |-> NoHook]
    /\ stale = {} /\ hooked = FALSE
    /\ begun = 0 /\ faults = 0

Exists(u) == status[u] # "none"
ActiveAdmins == {u \in Users : role[u] = "admin" /\ status[u] = "active"}
Live(i) == links[i].state = "live"
SetsPassword(i) == links[i].purpose # "billing_setup"

\* A request begins, and its handler is at pc.
Begin(c, to) ==
    /\ call[c].pc = "idle" /\ attempt[c].pc = "idle"
    /\ begun < MaxCalls
    /\ begun' = begun + 1
    /\ call' = [call EXCEPT ![c] = to]
    /\ UNCHANGED faults
At(pc, u) == [Idle EXCEPT !.pc = pc, !.user = u]
Goto(c, pc) == call' = [call EXCEPT ![c].pc = pc]
End(c) == call' = [call EXCEPT ![c] = Idle]

Issue(u, purpose) ==
    /\ Len(links) < MaxLinks
    /\ links' = Append(links, NewLink(u, purpose))
NextLink == Len(links) + 1
Send(i) == links' = [links EXCEPT ![i].sent = TRUE]

\* A write of users.status overtakes the deactivations whose check is behind them.
SetStatus(u, to) ==
    /\ status' = [status EXCEPT ![u] = to]
    /\ stale' = {c \in Calls : call[c].pc = "write"}

-----------------------------------------------------------------------------
(* Login and password reset *)

\* Both routes ask the limiter first.
StartAttempt(c, u) ==
    /\ Begin(c, Idle)
    /\ CheckEmail(c, u)
    /\ UNCHANGED <<tenantVars, userVars, links, hook, stale, hooked>>

AttemptIp(c) ==
    /\ CheckIp(c)
    /\ UNCHANGED <<tenantVars, userVars, links, call, hook, stale, hooked, bounds>>

\* loginWithEmail refuses a frozen tenant, a disabled user and one without a
\* password; anyone may mistype.
CanLogIn(u) ==
    /\ lifecycle \notin {"suspended", "offboarded"}
    /\ Exists(u) /\ status[u] # "disabled"
    /\ passwords[u] > 0

LoginFails(c) ==
    /\ RecordFailure(c)
    /\ UNCHANGED <<tenantVars, userVars, links, call, hook, stale, hooked, bounds>>

LoginSucceeds(c) ==
    /\ attempt[c].pc = "allowed" /\ CanLogIn(attempt[c].email)
    /\ ClearEmail(c)
    /\ UNCHANGED <<tenantVars, userVars, links, call, hook, stale, hooked, bounds>>

\* The reset request counts as a failure, then resolves the address.
ResetCounted(c) ==
    /\ RecordFailure(c)
    /\ call' = [call EXCEPT ![c] = At("resolve", attempt[c].email)]
    /\ UNCHANGED <<tenantVars, userVars, links, hook, stale, hooked, bounds>>

\* resolveResettableUser
Resolve(c) ==
    /\ call[c].pc = "resolve"
    /\ LET u == call[c].user IN
         IF Exists(u) /\ status[u] # "disabled" /\ passwords[u] > 0 THEN Goto(c, "insert") ELSE End(c)
    /\ UNCHANGED <<limiterVars, tenantVars, userVars, links, hook, stale, hooked, bounds>>

InsertReset(c) ==
    /\ call[c].pc = "insert"
    /\ Issue(call[c].user, "reset")
    /\ call' = [call EXCEPT ![c].pc = "send", ![c].link = NextLink]
    /\ UNCHANGED <<limiterVars, tenantVars, userVars, hook, stale, hooked, bounds>>

\* confirmPasswordReset reads the token before its transaction.
StartConfirm(c, i) ==
    /\ i \in DOMAIN links /\ links[i].sent
    /\ SetsPassword(i) /\ Live(i)
    /\ Begin(c, [At("confirm", links[i].user) EXCEPT !.link = i])
    /\ UNCHANGED <<limiterVars, tenantVars, userVars, links, hook, stale, hooked>>

\* The transaction: the password, the status of an invited user, and every
\* outstanding link of the user that sets a password.  One mutant consumes the
\* link that was used and no other, one makes every user active.
Confirm_OwnLink(c) ==
    LET u == call[c].user IN
    /\ call[c].pc = "confirm"
    /\ passwords' = [passwords EXCEPT ![u] = @ + 1]
    /\ IF status[u] = "invited" THEN SetStatus(u, "active") ELSE UNCHANGED <<status, stale>>
    /\ links' = [links EXCEPT ![call[c].link].state = "consumed"]
    /\ End(c)
    /\ UNCHANGED <<limiterVars, tenantVars, role, hook, hooked, bounds>>
Confirm(c) ==
    LET u == call[c].user IN
    /\ call[c].pc = "confirm"
    /\ passwords' = [passwords EXCEPT ![u] = @ + 1]
    /\ IF status[u] = "invited" THEN SetStatus(u, "active") ELSE UNCHANGED <<status, stale>>
    /\ links' = [i \in DOMAIN links |->
                   IF links[i].user = u /\ SetsPassword(i) THEN [links[i] EXCEPT !.state = "consumed"] ELSE links[i]]
    /\ End(c)
    /\ UNCHANGED <<limiterVars, tenantVars, role, hook, hooked, bounds>>

-----------------------------------------------------------------------------
(* The management of users *)

\* createUser; a caller who sends a password makes the user active.
CreateUser(c, u, r, withPassword) ==
    /\ ~Exists(u)
    /\ Begin(c, Idle)
    /\ status' = [status EXCEPT ![u] = IF withPassword THEN "active" ELSE "invited"]
    /\ role' = [role EXCEPT ![u] = r]
    /\ passwords' = [passwords EXCEPT ![u] = IF withPassword THEN 1 ELSE 0]
    /\ UNCHANGED <<limiterVars, tenantVars, links, hook, stale, hooked>>

\* updateUser with a status: the row and, for an active admin, the count of
\* active admins are read before the write.  The mutant forgets the count.
StartPatch_NoCount(c, u, to) ==
    /\ Exists(u)
    /\ Begin(c, [At("write", u) EXCEPT !.to = to])
    /\ stale' = stale \ {c}
    /\ UNCHANGED <<limiterVars, tenantVars, userVars, links, hook, hooked>>
StartPatch(c, u, to) ==
    /\ Exists(u)
    /\ to # "active" /\ u \in ActiveAdmins => Cardinality(ActiveAdmins) > 1
    /\ Begin(c, [At("write", u) EXCEPT !.to = to])
    /\ stale' = stale \ {c}
    /\ UNCHANGED <<limiterVars, tenantVars, userVars, links, hook, hooked>>

WritePatch(c) ==
    /\ call[c].pc = "write"
    /\ SetStatus(call[c].user, call[c].to)
    /\ End(c)
    /\ UNCHANGED <<limiterVars, tenantVars, role, passwords, links, hook, hooked, bounds>>

\* inviteUser writes whatever the status was.  The mutant writes another word.
InviteUser_Pending(c, u) ==
    /\ Exists(u)
    /\ Begin(c, Idle)
    /\ SetStatus(u, "pending")
    /\ UNCHANGED <<limiterVars, tenantVars, role, passwords, links, hook, hooked>>
InviteUser(c, u) ==
    /\ Exists(u)
    /\ Begin(c, Idle)
    /\ SetStatus(u, "invited")
    /\ UNCHANGED <<limiterVars, tenantVars, role, passwords, links, hook, hooked>>

\* sendUserInvite, and the cockpit's two resends for the first admin: only an
\* invited user, the link returned to the caller after it is stamped.
StartSendInvite(c, u) ==
    /\ status[u] = "invited"
    /\ Begin(c, At("issue", u))
    /\ UNCHANGED <<limiterVars, tenantVars, userVars, links, hook, stale, hooked>>

IssueInvite(c) ==
    /\ call[c].pc = "issue"
    /\ Issue(call[c].user, "invite")
    /\ call' = [call EXCEPT ![c].pc = "send", ![c].link = NextLink]
    /\ UNCHANGED <<limiterVars, tenantVars, userVars, hook, stale, hooked, bounds>>

\* The link leaves the server: queued for the notification worker, or returned.
SendLink(c) ==
    /\ call[c].pc = "send"
    /\ Send(call[c].link)
    /\ End(c)
    /\ UNCHANGED <<limiterVars, tenantVars, userVars, hook, stale, hooked, bounds>>

-----------------------------------------------------------------------------
(* Payment, activation and lifecycle *)

\* resendBillingSetupLink and sendBillingSetupLinkEmail
ResendBillingLink(c) ==
    /\ Begin(c, [At("send", First) EXCEPT !.link = NextLink])
    /\ Issue(First, "billing_setup")
    /\ UNCHANGED <<limiterVars, tenantVars, userVars, hook, stale, hooked>>

\* The card page's confirm route: the link is valid, the tenant not active yet.
StartPay(c, i) ==
    /\ i \in DOMAIN links /\ links[i].sent
    /\ ~SetsPassword(i) /\ Live(i)
    /\ lifecycle # "active"
    /\ Begin(c, [At("pay", First) EXCEPT !.link = i])
    /\ UNCHANGED <<limiterVars, tenantVars, userVars, links, hook, stale, hooked>>

\* finalizeCardSetup pays the open invoice or the card is declined.
Pay(c) ==
    /\ call[c].pc = "pay"
    /\ paid' \in {paid, TRUE}
    /\ End(c)
    /\ UNCHANGED <<limiterVars, lifecycle, userVars, links, hook, stale, hooked, bounds>>

\* activateTenantOnFirstPayment: nothing unless the tenant is still provisioning.
\* Stripe delivers the event again until it is answered, and sometimes after.
\* The mutant's webhook answers before it acts, so what dies is not repeated.
HookRead_AnswersFirst(d) ==
    /\ paid /\ hook[d].pc = "idle" /\ faults = 0
    /\ lifecycle = "provisioning"
    /\ hook' = [hook EXCEPT ![d].pc = "transition"]
    /\ UNCHANGED <<limiterVars, tenantVars, userVars, links, call, stale, hooked, bounds>>
HookRead(d) ==
    /\ paid /\ hook[d].pc = "idle"
    /\ lifecycle = "provisioning"
    /\ hook' = [hook EXCEPT ![d].pc = "transition"]
    /\ UNCHANGED <<limiterVars, tenantVars, userVars, links, call, stale, hooked, bounds>>

\* updateTenant reads the state again; every other state may become active.
HookTransition(d) ==
    /\ hook[d].pc = "transition"
    /\ hook' = [hook EXCEPT ![d].pc = IF lifecycle = "active" THEN "issue" ELSE "activate"]
    /\ UNCHANGED <<limiterVars, tenantVars, userVars, links, call, stale, hooked, bounds>>

HookActivate(d) ==
    /\ hook[d].pc = "activate"
    /\ lifecycle' = "active"
    /\ hooked' = TRUE
    /\ hook' = [hook EXCEPT ![d].pc = "issue"]
    /\ UNCHANGED <<limiterVars, paid, userVars, links, call, stale, bounds>>

\* The mutant's query of the first admin has lost its ORDER BY.
HookIssue_AnyAdmin(d) ==
    /\ hook[d].pc = "issue"
    /\ \E u \in Users : Exists(u) /\ role[u] = "admin" /\ Issue(u, "invite")
    /\ hook' = [hook EXCEPT ![d] = [pc |-> "send", link |-> NextLink]]
    /\ UNCHANGED <<limiterVars, tenantVars, userVars, call, stale, hooked, bounds>>
HookIssue(d) ==
    /\ hook[d].pc = "issue"
    /\ Issue(First, "invite")
    /\ hook' = [hook EXCEPT ![d] = [pc |-> "send", link |-> NextLink]]
    /\ UNCHANGED <<limiterVars, tenantVars, userVars, call, stale, hooked, bounds>>

\* sendActivationInviteEmail; a refused email is logged and forgotten.
HookSend(d) ==
    /\ hook[d].pc = "send"
    /\ \/ Send(hook[d].link) /\ UNCHANGED faults
       \/ faults < MaxFaults /\ faults' = faults + 1 /\ UNCHANGED links
    /\ hook' = [hook EXCEPT ![d] = NoHook]
    /\ UNCHANGED <<limiterVars, tenantVars, userVars, call, stale, hooked, begun>>

\* VALID_TRANSITIONS
Transitions == [provisioning |-> {"active"}, active |-> {"suspended", "offboarded"},
                suspended |-> {"active", "offboarded"}, offboarded |-> {"active"}]

\* The operator's PATCH: the transition is checked against the state read first.
StartLifecycle(c, to) ==
    /\ to \in Transitions[lifecycle]
    /\ Begin(c, [At("lifecycle", First) EXCEPT !.to = to])
    /\ UNCHANGED <<limiterVars, tenantVars, userVars, links, hook, stale, hooked>>

WriteLifecycle(c) ==
    /\ call[c].pc = "lifecycle"
    /\ lifecycle' = call[c].to
    /\ End(c)
    /\ UNCHANGED <<limiterVars, paid, userVars, links, hook, stale, hooked, bounds>>

-----------------------------------------------------------------------------
(* Time and faults *)

Expire(i) ==
    /\ i \in DOMAIN links /\ Live(i)
    /\ links' = [links EXCEPT ![i].state = "expired"]
    /\ UNCHANGED <<limiterVars, tenantVars, userVars, call, hook, stale, hooked, bounds>>

WindowMoves(u) ==
    /\ Age(u)
    /\ UNCHANGED <<tenantVars, userVars, links, call, hook, stale, hooked, bounds>>

Crash ==
    /\ faults < MaxFaults
    /\ faults' = faults + 1
    /\ DropAttempts
    /\ call' = [c \in Calls |-> Idle]
    /\ hook' = [d \in Deliveries |-> NoHook]
    /\ UNCHANGED <<tenantVars, userVars, links, stale, hooked, begun>>

Request(c) ==
    \/ \E u \in Users :
         \/ StartAttempt(c, u)
         \/ \E r \in {"admin", "manager"}, withPassword \in BOOLEAN : CreateUser(c, u, r, withPassword)
         \/ \E to \in Patched : StartPatch(c, u, to)
         \/ InviteUser(c, u)
         \/ StartSendInvite(c, u)
    \/ AttemptIp(c) \/ LoginFails(c) \/ LoginSucceeds(c) \/ ResetCounted(c)
    \/ Resolve(c) \/ InsertReset(c)
    \/ \E i \in 1..MaxLinks : StartConfirm(c, i) \/ StartPay(c, i)
    \/ Confirm(c) \/ WritePatch(c) \/ IssueInvite(c) \/ SendLink(c)
    \/ ResendBillingLink(c) \/ Pay(c)
    \/ \E to \in Lifecycles : StartLifecycle(c, to)
    \/ WriteLifecycle(c)

Webhook(d) == HookRead(d) \/ HookTransition(d) \/ HookActivate(d) \/ HookIssue(d) \/ HookSend(d)

Next ==
    \/ \E c \in Calls : Request(c)
    \/ \E d \in Deliveries : Webhook(d)
    \/ \E i \in 1..MaxLinks : Expire(i)
    \/ \E u \in Users : WindowMoves(u)
    \/ Crash

Spec == Init /\ [][Next]_vars

\* Stripe delivers a paid invoice until it is answered, and a handler that has
\* begun goes on.
Fairness == WF_vars(\E d \in Deliveries : Webhook(d))
FairSpec == Spec /\ Fairness

-----------------------------------------------------------------------------
(* Properties *)

\* A password change ends every reset and invite link issued before it
\* (password-reset.ts:315-327), whichever link made it, and with confirmations,
\* requests and webhooks in any order: a link that works was issued for the
\* password the user has now.
LiveLinksPostdatePassword ==
    \A i \in DOMAIN links : SetsPassword(i) /\ Live(i) => links[i].password = passwords[links[i].user]

\* The check of updateUser (users.ts:233-241) keeps the last active admin, whatever
\* status a PATCH asks for, unless another write of a status came between the check
\* and the write, or the step is inviteUser's, which makes no check and takes the
\* admin back to invited.
LastAdminStays ==
    [][ActiveAdmins # {} /\ ActiveAdmins' = {} =>
         \/ \E c \in stale : call[c].pc = "write"
         \/ \E c \in Calls, u \in ActiveAdmins : InviteUser(c, u)]_vars

\* The activation commits before the invite is issued (provisioning.ts:245-247), and
\* a second delivery finds the tenant active and stops.  Without a fault the first
\* admin of a tenant a webhook activated has been sent a link.
ActivatedAdminIsInvited ==
    hooked /\ faults = 0 /\ (\A d \in Deliveries : hook[d].pc = "idle") =>
        \E i \in DOMAIN links : links[i].user = First /\ links[i].purpose = "invite" /\ links[i].sent

\* A paid tenant does not stay in provisioning, whatever dies on the way.
PaidActivates == paid ~> lifecycle # "provisioning"
=============================================================================
