------------------------- MODULE NotificationWorker -------------------------
(***************************************************************************)
(* The notifications table and everything that moves a row of it:          *)
(*   - the claim-then-send worker (src/lib/notifications/worker.ts): any   *)
(*     number of overlapping passes, each reclaiming stale claims,         *)
(*     discovering due rows, claiming them one by one with a guarded       *)
(*     UPDATE, sending, and recording the outcome with an unguarded one;   *)
(*   - the daily digest builder (digest.ts), which reads its rows without  *)
(*     claiming them;                                                      *)
(*   - supersedeReminders (renewal.ts), which withdraws a COI's chase;     *)
(*   - the delivery webhook (resend-webhook.ts).                           *)
(*                                                                         *)
(* Time.  A claim is stale when now - claimed_at >= the stale window, and  *)
(* claimed_at is the START time of the pass that claimed the row, not the  *)
(* time of the claim.  Both are kept as ages: "age" of a pass since its    *)
(* start, "claimAge" of a row since its claimed_at; a claim age saturates  *)
(* at Stale, past which it is only ever compared.  The clock saturates at  *)
(* Horizon, when every scheduled row is due.                               *)
(***************************************************************************)
EXTENDS Naturals, FiniteSets

CONSTANTS
    Rows,         \* notification rows (ids)
    NoRow,        \* "no row in hand"
    DigestRows,   \* the rows of kind 'digest' (the others are 'exception')
    ChaseRows,    \* the rows that carry one COI's document_id
    ScheduledFor, \* due time of each row; 0 stands for scheduled_for NULL
    Passes,       \* worker passes that may be alive at once
    Stale,        \* the stale window (sendingStaleSeconds), in ticks
    PassLimit,    \* the longest a pass may run, in ticks
    Horizon,      \* bound: the latest scheduled time
    MaxCrashes    \* bound: passes that may die half way

ASSUME RowsAssumption ==
    /\ NoRow \notin Rows
    /\ DigestRows \subseteq Rows
    /\ ChaseRows \subseteq Rows \ DigestRows
    /\ ScheduledFor \in [Rows -> Nat]

ASSUME TimeAssumption ==
    /\ Stale \in Nat \ {0}
    /\ PassLimit \in Nat
    /\ Horizon \in Nat
    /\ \A r \in Rows : ScheduledFor[r] <= Horizon
    /\ MaxCrashes \in Nat

VARIABLES
    clock,      \* time, saturating at Horizon
    status,     \* notifications.status per row ("absent": not inserted yet)
    claimAge,   \* now - claimed_at of a 'sending' row, saturating at Stale
    messageId,  \* rows whose provider_message_id is recorded
    \* the worker passes
    pc,         \* where each pass is
    age,        \* time since it started (its "now")
    due,        \* the discovered rows it has not come to yet
    hand,       \* the row it has claimed
    outcome,    \* what the mailer answered
    \* the others
    digest,     \* the digest builder of the tenant
    renewed,    \* supersedeReminders has run for the COI of ChaseRows
    \* history
    keys,       \* idempotency keys the mail provider has accepted (external)
    handoffs,   \* Mailer.send calls of the worker that the provider accepted
    emails,     \* emails that left the provider, per row
    forgotten,  \* rows whose key the provider has dropped
    late,       \* chase rows queued after the renewal of their COI
    lost,       \* accepted sends whose outcome died with the pass
    crashes     \* passes that died

tableVars == <<status, claimAge, messageId>>
mailVars == <<keys, forgotten, handoffs, emails>>
passVars == <<pc, age, due, hand, outcome>>
vars == <<clock, tableVars, passVars, digest, renewed, late, mailVars, lost, crashes>>

Status == {"absent", "queued", "sending", "sent", "failed", "superseded", "bounced"}
Terminal == {"sent", "failed", "superseded", "bounced"}
ExceptionRows == Rows \ DigestRows

Outcome == {"ok", "failed", "lostReply"}
IdleDigest == [pc |-> "idle", items |-> {}, outcome |-> "ok"]

TypeOK ==
    /\ clock \in 0..Horizon
    /\ status \in [Rows -> Status]
    /\ claimAge \in [Rows -> 0..Stale]
    /\ messageId \in SUBSET Rows
    /\ pc \in [Passes -> {"idle", "discover", "claim", "send", "record"}]
    /\ age \in [Passes -> Nat]
    /\ due \in [Passes -> SUBSET Rows]
    /\ hand \in [Passes -> Rows \cup {NoRow}]
    /\ outcome \in [Passes -> Outcome]
    /\ digest \in [pc : {"idle", "send", "record"}, items : SUBSET DigestRows,
                   outcome : Outcome]
    /\ renewed \in BOOLEAN
    /\ keys \in SUBSET Rows
    /\ forgotten \in SUBSET Rows
    /\ late \in SUBSET ChaseRows
    /\ handoffs \in [Rows -> Nat]
    /\ emails \in [Rows -> Nat]
    /\ lost \in [Rows -> Nat]
    /\ crashes \in 0..MaxCrashes

Init ==
    /\ clock = 0
    /\ status = [r \in Rows |-> "absent"]
    /\ claimAge = [r \in Rows |-> 0]
    /\ messageId = {}
    /\ pc = [p \in Passes |-> "idle"]
    /\ age = [p \in Passes |-> 0]
    /\ due = [p \in Passes |-> {}]
    /\ hand = [p \in Passes |-> NoRow]
    /\ outcome = [p \in Passes |-> "ok"]
    /\ digest = IdleDigest
    /\ renewed = FALSE
    /\ keys = {}
    /\ forgotten = {}
    /\ late = {}
    /\ handoffs = [r \in Rows |-> 0]
    /\ emails = [r \in Rows |-> 0]
    /\ lost = [r \in Rows |-> 0]
    /\ crashes = 0

-----------------------------------------------------------------------------
(* Time and producers *)

Running(p) == pc[p] # "idle"

AtMost(n, limit) == IF n < limit THEN n ELSE limit

\* Time passes (external).  PassLimit is how long a pass may be observed running.
Tick ==
    /\ \A p \in Passes : Running(p) => age[p] < PassLimit
    /\ clock' = AtMost(clock + 1, Horizon)
    /\ claimAge' = [r \in Rows |->
                      IF status[r] = "sending" THEN AtMost(claimAge[r] + 1, Stale)
                                               ELSE claimAge[r]]
    /\ age' = [p \in Passes |-> IF Running(p) THEN age[p] + 1 ELSE age[p]]
    /\ UNCHANGED <<status, messageId, pc, due, hand, outcome, digest, renewed, late, mailVars, lost, crashes>>

\* queueNotification.  A chase row may be queued after the renewal too: the
\* pipeline reads pending documents in no order, and schedules the chase of one
\* that a newer upload has superseded already.
QueueNotification(r) ==
    /\ status[r] = "absent"
    /\ status' = [status EXCEPT ![r] = "queued"]
    /\ late' = IF renewed /\ r \in ChaseRows THEN late \cup {r} ELSE late
    /\ UNCHANGED <<clock, claimAge, messageId, passVars, digest, renewed, mailVars, lost, crashes>>

Withdrawn(r) == r \in ChaseRows /\ status[r] = "queued"

\* supersedeReminders: one UPDATE over the document's rows still 'queued'.
SupersedeReminders ==
    /\ renewed' = TRUE
    /\ status' = [r \in Rows |-> IF Withdrawn(r) THEN "superseded" ELSE status[r]]
    /\ UNCHANGED <<clock, claimAge, messageId, passVars, digest, late, mailVars, lost, crashes>>

-----------------------------------------------------------------------------
(* A worker pass *)

IsDue(r) == status[r] = "queued" /\ ScheduledFor[r] <= clock

\* Two defects: the window one tick short, and the status of the sister queue.
IsStale_Early(r) == status[r] = "sending" /\ claimAge[r] + 1 >= Stale
IsStale_WrongStatus(r) == status[r] = "processing" /\ claimAge[r] >= Stale
IsStale(r) == status[r] = "sending" /\ claimAge[r] >= Stale

\* The interval fires (it does not wait for an earlier pass) and the pass
\* returns the stale claims to the queue.
StartPass(p) ==
    /\ ~Running(p)
    /\ status' = [r \in Rows |-> IF IsStale(r) THEN "queued" ELSE status[r]]
    /\ claimAge' = [r \in Rows |-> IF IsStale(r) THEN 0 ELSE claimAge[r]]
    /\ pc' = [pc EXCEPT ![p] = "discover"]
    /\ UNCHANGED <<clock, messageId, age, due, hand, outcome, digest, renewed, late, mailVars, lost, crashes>>

\* The non-binding SELECT: every due row, whatever its kind.
Discover(p) ==
    /\ pc[p] = "discover"
    /\ pc' = [pc EXCEPT ![p] = "claim"]
    /\ due' = [due EXCEPT ![p] = {r \in Rows : IsDue(r)}]
    /\ UNCHANGED <<clock, tableVars, age, hand, outcome, digest, renewed, late, mailVars, lost, crashes>>

\* Immediate rows first, then by scheduled_for.
IsNext(p, r) ==
    r \in due[p] /\ \A q \in due[p] : ScheduledFor[r] <= ScheduledFor[q]

Takes_Unguarded(r) == r \in Rows
Takes(r) == status[r] = "queued"

\* The guarded UPDATE: it takes the row only if it is still 'queued', and
\* stamps it with the pass's start time.
Claim(p, r) ==
    /\ pc[p] = "claim"
    /\ IsNext(p, r)
    /\ due' = [due EXCEPT ![p] = @ \ {r}]
    /\ IF Takes(r)
         THEN /\ status' = [status EXCEPT ![r] = "sending"]
              /\ claimAge' = [claimAge EXCEPT ![r] = AtMost(age[p], Stale)]
              /\ pc' = [pc EXCEPT ![p] = "send"]
              /\ hand' = [hand EXCEPT ![p] = r]
         ELSE UNCHANGED <<status, claimAge, pc, hand>>
    /\ UNCHANGED <<clock, messageId, age, outcome, digest, renewed, late, mailVars, lost, crashes>>

KnownKey_Missing(r) == FALSE
KnownKey(r) == r \in keys

\* resolveRecipient and Mailer.send.  The recipient may be undeliverable or
\* the provider refuse ("failed"), the provider may accept ("ok"), or accept
\* and its answer be lost ("lostReply": send() reports a failure).  The row's
\* id is the idempotency key: the provider mails it once, while it remembers.
Send(p, answer) ==
    LET r == hand[p] IN
    /\ pc[p] = "send"
    /\ pc' = [pc EXCEPT ![p] = "record"]
    /\ outcome' = [outcome EXCEPT ![p] = answer]
    /\ IF answer = "failed"
         THEN UNCHANGED mailVars
         ELSE /\ keys' = keys \cup {r}
              /\ forgotten' = forgotten
              /\ handoffs' = [handoffs EXCEPT ![r] = @ + 1]
              /\ emails' = [emails EXCEPT ![r] = IF KnownKey(r) THEN @ ELSE @ + 1]
    /\ UNCHANGED <<clock, tableVars, age, due, hand, digest, renewed, late, lost, crashes>>

\* The provider keeps a key for about a day (external), while a row may wait
\* for its reclaim as long as no worker runs.
ForgetKey(r) ==
    /\ r \in keys
    /\ keys' = keys \ {r}
    /\ forgotten' = forgotten \cup {r}
    /\ UNCHANGED <<clock, tableVars, passVars, digest, renewed, late, handoffs, emails, lost, crashes>>

\* The mutant takes the provider's word for the status.
Verdict_Delivered(answer) == IF answer = "ok" THEN "delivered" ELSE "failed"
Verdict(answer) == IF answer = "ok" THEN "sent" ELSE "failed"

\* 'sent' with the provider's message id, or markFailed: an UPDATE by id alone.
Record(p) ==
    LET r == hand[p] IN
    /\ pc[p] = "record"
    /\ status' = [status EXCEPT ![r] = Verdict(outcome[p])]
    /\ claimAge' = [claimAge EXCEPT ![r] = 0]
    /\ messageId' = IF outcome[p] = "ok" THEN messageId \cup {r} ELSE messageId
    /\ pc' = [pc EXCEPT ![p] = "claim"]
    /\ hand' = [hand EXCEPT ![p] = NoRow]
    /\ outcome' = [outcome EXCEPT ![p] = "ok"]
    /\ UNCHANGED <<clock, age, due, digest, renewed, late, mailVars, lost, crashes>>

\* A pass that is over leaves nothing behind.
Reset(p) ==
    /\ pc' = [pc EXCEPT ![p] = "idle"]
    /\ age' = [age EXCEPT ![p] = 0]
    /\ due' = [due EXCEPT ![p] = {}]
    /\ hand' = [hand EXCEPT ![p] = NoRow]
    /\ outcome' = [outcome EXCEPT ![p] = "ok"]

EndPass(p) ==
    /\ pc[p] = "claim"
    /\ due[p] = {}
    /\ Reset(p)
    /\ UNCHANGED <<clock, tableVars, digest, renewed, late, mailVars, lost, crashes>>

\* The process dies, or a database error aborts the pass (the interval's catch
\* only logs it): the rows it claimed stay 'sending'.
CrashPass(p) ==
    /\ Running(p)
    /\ crashes < MaxCrashes
    /\ crashes' = crashes + 1
    /\ Reset(p)
    /\ lost' = IF pc[p] = "record" /\ outcome[p] # "failed"
                 THEN [lost EXCEPT ![hand[p]] = @ + 1] ELSE lost
    /\ UNCHANGED <<clock, tableVars, digest, renewed, late, mailVars>>

-----------------------------------------------------------------------------
(* The digest builder and the delivery webhook *)

\* buildAndSendDigest reads the tenant's due digest rows; it claims nothing.
ReadDigest ==
    LET items == {r \in DigestRows : IsDue(r)} IN
    /\ digest.pc = "idle"
    /\ items # {}
    /\ digest' = [digest EXCEPT !.pc = "send", !.items = items]
    /\ UNCHANGED <<clock, tableVars, passVars, renewed, late, mailVars, lost, crashes>>

\* One email carries every item, sent without an idempotency key.
SendDigest(answer) ==
    /\ digest.pc = "send"
    /\ digest' = [digest EXCEPT !.pc = "record", !.outcome = answer]
    /\ emails' = [r \in Rows |-> IF r \in digest.items /\ answer # "failed"
                                   THEN emails[r] + 1 ELSE emails[r]]
    /\ UNCHANGED <<clock, tableVars, passVars, renewed, late, keys, forgotten, handoffs, lost, crashes>>

\* One unguarded UPDATE per item.
RecordDigestItem(r) ==
    /\ digest.pc = "record"
    /\ r \in digest.items
    /\ status' = [status EXCEPT ![r] = Verdict(digest.outcome)]
    /\ digest' = IF digest.items = {r} THEN IdleDigest
                                       ELSE [digest EXCEPT !.items = @ \ {r}]
    /\ UNCHANGED <<clock, claimAge, messageId, passVars, renewed, late, mailVars, lost, crashes>>

CrashDigest ==
    /\ digest.pc # "idle"
    /\ crashes < MaxCrashes
    /\ crashes' = crashes + 1
    /\ digest' = IdleDigest
    /\ UNCHANGED <<clock, tableVars, passVars, renewed, late, mailVars, lost>>

\* A hard bounce flips the row its message id leads to, whatever its status.
HandleBounce(r) ==
    /\ r \in messageId
    /\ status[r] # "bounced"
    /\ status' = [status EXCEPT ![r] = "bounced"]
    /\ UNCHANGED <<clock, claimAge, messageId, passVars, digest, renewed, late, mailVars, lost, crashes>>

-----------------------------------------------------------------------------

PassStep(p) ==
    \/ StartPass(p)
    \/ Discover(p)
    \/ \E r \in Rows : Claim(p, r)
    \/ \E answer \in Outcome : Send(p, answer)
    \/ Record(p)
    \/ EndPass(p)

DigestStep ==
    \/ ReadDigest
    \/ \E answer \in Outcome : SendDigest(answer)
    \/ \E r \in DigestRows : RecordDigestItem(r)

Next ==
    \/ Tick
    \/ \E r \in Rows : QueueNotification(r) \/ HandleBounce(r) \/ ForgetKey(r)
    \/ SupersedeReminders
    \/ \E p \in Passes : PassStep(p) \/ CrashPass(p)
    \/ DigestStep
    \/ CrashDigest

Spec == Init /\ [][Next]_vars

\* setInterval keeps firing and every await settles, so time, passes and the
\* digest keep moving; producers, the provider, crashes and bounces owe nothing.
Fairness ==
    /\ WF_vars(Tick)
    /\ \A p \in Passes : WF_vars(PassStep(p))
    /\ WF_vars(DigestStep)

FairSpec == Spec /\ Fairness

-----------------------------------------------------------------------------
(* Properties.  The digest builder shares no claim with the worker, so what
   the worker promises is stated for the exception rows. *)

Held(p, r) == pc[p] \in {"send", "record"} /\ hand[p] = r

Accepted(p, r) == pc[p] = "record" /\ hand[p] = r /\ outcome[p] # "failed"

\* A row is in the hands of at most one pass: the guarded UPDATE and the stale
\* window together keep overlapping passes apart (worker.ts:10-17).  It takes
\* passes shorter than the stale window.
ExclusiveHold ==
    \A r \in ExceptionRows, p, q \in Passes : Held(p, r) /\ Held(q, r) => p = q

\* worker.ts:23-24: the one double-send window is a crash between a successful
\* send and the 'sent' UPDATE, so every extra hand-off has a lost outcome.
DuplicateOnlyAfterLoss == \A r \in ExceptionRows : handoffs[r] <= 1 + lost[r]

\* A second email of an exception row takes two things at once: a pass that died
\* with the outcome of the first in hand, and a reclaim so late that the provider
\* had dropped the row's key, which it keeps for about a day (mailer.ts:94-98).
OneEmailPerException ==
    \A r \in ExceptionRows : emails[r] > 1 => lost[r] > 0 /\ r \in forgotten

\* Once a renewal has superseded a COI's chase, no pass takes a row of it, not
\* even a pass that discovered the row before the renewal: only a row whose pass
\* had died with it in hand can come back, and a chase that was scheduled after
\* the renewal was never withdrawn.
NoChaseClaimedAfterRenewal ==
    [][\A r \in ChaseRows \ late :
         renewed /\ crashes = 0 /\ status[r] # "sending" => status'[r] # "sending"]_vars

\* Every queued row ends sent, failed or superseded, through crashes, overlaps
\* and reclaims: nothing is left 'sending' for ever (worker.ts:8-9).
EveryRowSettles ==
    \A r \in Rows : status[r] \in {"queued", "sending"} ~> status[r] \in Terminal

\* The worker implements the outbox for the exception rows.
OutboxState(r) ==
    CASE status[r] = "absent" -> "absent"
      [] status[r] \in {"queued", "sending"} -> "pending"
      [] status[r] = "superseded" -> "cancelled"
      [] OTHER -> "settled"

OB == INSTANCE Outbox WITH
        Messages <- ExceptionRows,
        state <- [r \in ExceptionRows |-> OutboxState(r)],
        unknown <- {r \in ExceptionRows : \E p \in Passes : Accepted(p, r)},
        handoffs <- [r \in ExceptionRows |-> handoffs[r]]

ImplementsOutbox == OB!Spec
=============================================================================
