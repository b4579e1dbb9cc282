# UnifyCOI: specifications of its workflows

UnifyCOI collects insurance certificates (COIs), W-9s and ACH forms from vendors
on behalf of a tenant, has an AI read them, and lets the tenant's admin approve
the vendor for each of its locations. Afterwards it chases renewals and expires
vendors whose coverage lapses. It is a Next.js application over PostgreSQL with
five interval workers inside the server process; no queue, no lock service.
Every workflow is therefore a set of rows that several routes and overlapping
worker passes read and then write, mostly outside a transaction. That is what
this directory specifies, checks and proves.

## 1. Inventory

| Component | State it keeps | Operations | Talks to |
|---|---|---|---|
| Notification outbox and worker (`notifications/worker.ts`, `queue.ts`, `digest.ts`, `resend-webhook.ts`) | `notifications` rows: status, claimed_at, scheduled_for | queue, discover, claim, send, record, reclaim stale, daily digest, bounce webhook | the mail provider; runs the day-0 job |
| Document pipeline (`verification/worker.ts`, upload and submit routes, `documents/flags.ts`) | `documents` (state, superseded_by, uploaded_at), `extractions`, `verification_jobs` | upload, submit, claim a job, extract, gate, bounce, supersede, fail, requeue, flag | Vision, blob store, chase, vendor status |
| Renewal chase (`notifications/renewal.ts`, `time/zone.ts`) | reminder, alert and day-0 rows of `notifications`, by document | schedule, withdraw, day-0 flip | outbox, vendor status |
| Vendor status and review (`vendor-fsm.ts`, `decision.ts`, `add-to-locations.ts`, `re-eval.ts`) | `vendor_locations.status`, one row per vendor and location | open link, submit, approve, reject, request correction, add location, re-evaluate, bounce sweep, expire | all of the above |
| Vendor links (`invite-token.ts`, `vendor-token.ts`, `resend-invite.ts`, `vendors.ts`, `decision.ts`, `app/v/[token]`) | `invites`: token hash, purpose, expiry, revoked_at | create vendor, issue (revoking others), mail, resend, correct, validate, land, upload, submit | vendor status, outbox |
| Requirements (`resolver.ts`, `services/requirements.ts`, `engine.ts`, `run.ts`) | rules per tenant, location and trade, precedence; runs and evaluations | set rule, set precedence, resolve, evaluate | re-evaluation, review |
| Billing (`locations.ts`, `bulk-onboarding.ts`, `quantity-sync.ts`, `provisioning.ts`, `tenants.ts`, `stripe.ts`) | locations, `billing_snapshots`, the tenant's rate, fee and subscription | add, archive and import locations, attach Stripe, change rate or fee, sync the quantity | Stripe |
| Users and credentials (`users.ts`, `password-reset.ts`, `auth.ts`, `rate-limit.ts`, `stripe-webhook.ts`, `tenants.ts`) | users, `password_reset_tokens`, `login_attempts`, the tenant's lifecycle | log in, ask for a link, confirm it, invite, disable, activate on payment, suspend | mail, Stripe webhooks |
| Audit exports (`exports/*`) | `audit_exports`, files, the trail | request, generate at once or by the worker, tell, download | blob store, outbox |
| Retention (`retention/worker.ts`) | purge_eligible stamps | daily sweep | none |
| Read side (dashboards, search, reports), adapters (storage, crypto, database), UI | none of their own | queries, formatting, I/O | |

What is hard in them, and what makes each correct:

- **Outbox.** A crash between the hand-off to the mailer and the recording of the
  outcome; passes that overlap and outlive the stale window; two builders taking
  the same row. Correct: one holder per row, a duplicate only after a lost
  outcome, outcomes never rewritten, every row settles.
- **Document pipeline.** Overlapping jobs of one vendor; documents in no order;
  steps lost in a crash; a flag written onto a document that has moved on; the
  calendar moving between gate and chase. Correct: supersession leads to newer
  uploads, an expired COI displaces nothing and does not stay current, the vendor
  is not left without a document, every job finishes.
- **Chase.** The renewal racing the reminders; two midnights for one date; a
  partial ladder. Correct: a current dated COI has its day-0 job, a superseded one
  has no chase.
- **Vendor status.** Six writers of one column, of which only the FSM transition
  is transactional. Correct: the admin sees and approves only vendors with a
  vetted document, a lapse takes approval away and nothing else does it early, a
  decline is final.
- **Vendor links.** Issuers that overlap and do not see each other's row; a link
  committed and mailed in two steps; a link revoked under the vendor's hands; a
  page that decides what to show from another table. Correct: an issuer ends every
  link it can see, the vendor is left with a link that works, and a vendor that does
  what its mails and the page ask is reviewed.
- **Requirements.** Rule changes worked off by overlapping requests; a run that
  reads each location's rules by a statement of its own; values compared as
  numbers in one place and as text in another. Correct: a change that is worked
  off leaves no earlier approval that fails the rules, the platform floor cannot
  be undercut, a stricter rule never clears a vendor.
- **Billing.** A count read, compared and inserted by requests that overlap; a push
  that marks rows it has not read; an attachment of five steps with idempotency keys,
  repeated after it died; a rate written locally and at Stripe. Correct: at rest
  Stripe charges for the active locations and on the tenant's terms, but for named
  races and faults, and a change reaches it in the end.
- **Credentials.** Checks outside the transaction they guard; a throttle of three
  statements; the last admin; a webhook delivered twice, and dying between the
  activation and the first admin's link. Correct: a link that works was issued for
  the present password, guesses stay bounded, an admin remains, a payment activates
  and its admin is invited.
- **Audit exports.** Passes overtaken by the stale window, a throw after the row is
  ready, the Sensitive event written by a request the worker does not wait for.
  Correct: who is told can download, Sensitive data is in the trail, an export ends.

`PROJECT.json` lists every hazard at its line, with the properties that cover it.

## 2. Plan

1. `Outbox`, `NotificationWorker`, `NotificationWorkerProofs` (done).
2. `DocumentPipeline`, `DocumentPipelineProofs` (done).
3. `VendorReview`, composed with `DocumentPipeline`, `VendorReviewProofs` (done).
4. `RuleEngine`, `Requirements`, `RequirementsProofs` (done).
5. `Billing`, `BillingProofs` (done).
6. `LoginLimiter`, `Credentials`, composed with it, `CredentialsProofs` (done).
7. `VendorLinks`, `VendorLinksProofs` (done).
8. `AuditExports`, `AuditExportsProofs` (done).
9. Every safety and action property a run checks is proved (done); what the
   prover cannot reach is listed at the end of section 6.

Abstract specifications: the outbox, which the notification worker implements, the
throttle, which the composition of users, links and webhooks implements, and the
document pipeline, which its composition with the reviews implements; all are
proved. Worth adding: the current document of a type as a register that only
moves to newer uploads.

## 3. The modules and the code

One action stands for what happens between two awaits that other code can
interleave with. PostgreSQL runs at READ COMMITTED, so a statement is one step,
and so are the writes of a transaction; a SELECT and the UPDATE it leads to are
two. History variables, used only by properties, are declared under `history`.

- **`Outbox`** is the promise to a producer: a message is handed over while it is
  pending, settled or cancelled once, and handed over again only after an outcome
  was lost.
- **`NotificationWorker`** has the `notifications` table (`status`, `claimAge`,
  `messageId`), any number of worker passes (`StartPass` with the reclaim,
  `Discover`, `Claim` by guarded UPDATE, `Send`, `Record`, `CrashPass`), the
  digest builder, which reads without claiming, `SupersedeReminders` and the
  bounce webhook. `claimed_at` is the start of the pass, as in the code; ages
  replace time stamps. The mail provider is its accepted idempotency keys, any of
  which it may drop at any time (`ForgetKey`; it keeps them for about a day). A chase
  row may be queued after the renewal that withdrew the chase (`late`), as the pipeline
  may do.
- **`DocumentPipeline`** has the documents of one vendor and one type, their
  chase rows and `verification_jobs`. A pass goes through the steps of
  `processQueuedVerificationJobs` and `extractPendingDocuments`: claim, select,
  extract, gate, bounce, find and displace the prior, withdraw its chase, ladder,
  day-0 job. `expiry` counts the two midnights of one date (UTC for the gate,
  the tenant's for the chase); `WestOfUTC` says which is first. The pass that starts
  puts back any jobs in process: those of a dead pass, and those of a live one that has
  outlived the stale window. `Reminded` are the documents for which a rung of the ladder
  is still ahead and the vendor has an address; the others get a day-0 job only.
- **`VendorReview`** extends it with `vendor_locations.status` and every writer of
  that column: link, submit, decisions, correction, bounce sweep, day-0 flip,
  rule change, added location. Only the FSM transitions are transactional; the
  others have their reads and writes apart. A submit is three steps: the SELECT of
  the documents (`SubmitCheck`), the FSM transaction, which does not look at them again
  (`SubmitFsm`, `SubmitRefused`), and the insert of the job. A flip may throw between
  any two of its statements, which leaves its job `failed` (`FlipFail`), or die there and
  be put back (`CrashFlip`, `ReclaimFlip`). The verdict of a rule change is an
  input here, and the subject of the next two modules.
- **`RuleEngine`** holds the pure functions: `IsStricter` and `Resolve`
  (`computeRequirements` for one key) and the checks of `runRulesEngine`. A value
  is what the code tells apart in a string: whether `Number()` accepts it, what
  `parseFloat()` reads (a grouped number such as `1,000,000`, which the form and the
  route accept, is not one to the first and a small one to the second), `'true'` or
  `'false'`. A bundle holds what the checks tell
  apart in the extractions, with the comparison of two names as its result.
- **`Requirements`** adds the tenant's rules and the requests that change them:
  `SetRule` with the floor check, the re-evaluation request by request
  (`ListApproved`, `StartRun`, `EvaluateLocation`, `Flip`, `EndChange`,
  `AbortChange`), `SetPrecedence`, and the admin's approvals.

- **`Billing`** starts where the provisioning transaction has committed. Location
  requests change `locations.status` and then count, read the last snapshot and
  insert one (`recordBillingSnapshot`), each a step; an import does so at its end, the
  bulk onboarding inside its transaction. The rows keep the place in `seq` (a bigserial)
  they were inserted at: those of an open transaction are not seen yet, those of one
  that was rolled back never will be (`Lost`), and the last row is the last committed
  one. `attachBilling` is quantity, customer and
  subscription, tenant row, marking; Stripe keeps the parameters of every idempotency
  key and refuses others, for as long as the retries here may take. The setup fee has a
  key of its own, and without a fee (`None`, the default) that call is not made at all.
  A settings request pushes to Stripe and then runs
  `updateTenant`, a read and a write; the general tenant PATCH skips the push. Any
  call to Stripe may fail, or succeed unanswered. `excused` is a history of the
  races and faults after which the count or a term may be apart.
- **`LoginLimiter`** counts the failures inside the window, per email and for one IP.
- **`Credentials`** extends it with the users and their status, the rows of
  `password_reset_tokens` (`Resolve`, `InsertReset`, `StartConfirm`, `Confirm`,
  `IssueInvite`, `SendLink`), `updateUser` with its check and its write apart
  and any status as the new one (`StartPatch`, `WritePatch`), `inviteUser`, which makes
  no check, the lifecycle PATCH, the card setup that pays, and the
  webhook (`HookRead` to `HookSend`). It starts in a tenant just attached, and in one
  that has been running.
- **`VendorLinks`** has vendors with a status at each location, the rows of `invites`
  in the order of their commits, operator requests (`StartCreate` to `MailLink`), and the
  vendor's browser (`Visit`, `Land`, `Upload`, `Submit`). `Approve`, `Decline`, `Lapse` and
  `RuleChange` are the writers of the status that `VendorReview` has in detail, as far
  as they take a location out of the vendor's hands; a location added (`StartAdd`, `Add`)
  and a rule change also make the verification run the page asks for. `issueInviteToken` is a
  transaction at READ COMMITTED, so what its UPDATE sees (`RevokeSeen`) and its commit
  (`CommitIssue`) are two steps.
- **`AuditExports`** has every await of `createAuditExport` and of
  `processQueuedExports` as a step. Time is one event, `StaleWindow`: what was claimed
  before it is stale after it, and a pass that began before it is `slow`.

`MC*.tla` hold the instances, `*Proofs.tla` the theorems. An operator named
`<Definition>_<Difference>` is a plausible bug of that definition, with which the
property it belongs to must fail; `PROJECT.json` pairs them and maps every
definition to its lines.

## 4. The runs

| Run | Instance | What it shows |
|---|---|---|
| `notif_prompt` | 2 rows (one of a chase), 2 passes, stale window 2, passes of at most 1, 1 crash | While no pass outlives the stale window: one holder per row, a duplicate only after a lost outcome, a second email only when the provider has dropped the key besides, no withdrawn chase row claimed after the renewal, and the worker implements `Outbox` |
| `notif_live` | 1 digest row, 2 passes of at most 3, 1 crash | Every queued row settles, even with passes that outlive the window |
| `doc_overlap` | 2 documents, 2 jobs, 2 passes, east of UTC, 1 lapse, 1 failure, 1 crash, claims that go stale under a live pass, uploads in one millisecond | Supersession leads to newer uploads |
| `doc_serial` | 3 documents, 2 jobs, 1 pass, 1 lapse, 1 flag | Expired documents are bounced, a current dated COI has its day-0 job, and extra survivors only flank an upload that displaced nothing |
| `review_waiting` | 2 locations, 2 documents, 2 jobs, 3 requests, 1 flag, 1 lapse, 1 rule change | An admin who waits for the verification reviews, and leaves approved, only vendors with a vetted current document, unless a bounce overtook a submit |
| `review_lapse` | 2 locations (invited for 1 or both), 2 documents, 1 job, 1 decision, correction or added location, 2 lapses, 1 failure, 1 crash | Every submitted job finishes, supersession never leaves the vendor without a current document, a lapse takes every approved location out of "approved" unless a renewal came first or the flip threw, and nothing expires before the tenant's midnight |
| `rules_change` | 2 locations, 2 admins, 7 keys of every kind, 2 rule changes, grouped limits among the values, 1 upset (policy change or dead request), 4 bundles | A change worked off leaves no earlier approval that fails, only a grouped limit undercuts the floor, a stricter rule never clears |
| `billing` | 2 locations (1 provisioned), 2 editors, 1 tick at a time, 1 attach at a time (2 in all), 2 overlapping settings requests, tenants with and without a fee, 2 edits (of locations, rate and fee together), 2 faults | At rest the quantity and the terms are those Stripe charges, but for the excused races and faults, and a change of the count reaches Stripe in the end |
| `credentials` | 2 users, 2 overlapping requests (3 in all), 2 deliveries, 3 links, limits 1 and 2, 1 fault | The throttle's bound, links that work postdate the password, the last admin stays, a payment activates and the admin is invited |
| `links` | 2 vendors, 2 locations (created for 1), 1 address, 2 overlapping requests, 3 links, 3 events (requests, decisions, expiries and crashes together) | An issuer ends every link it can see, a vendor is left with a link that works and was mailed, and its waiting locations are reviewed if it follows its mails |
| `exports` | 2 exports, 2 passes, 1 throw or death | Who is told can download, Sensitive data is in the trail, every export ends unless its synchronous request died |
| `review_reeval` | 1 rule change over the locations of one vendor | Refutes a sentence of the documents, section 7 |

Why these bounds are enough to be worth something. Every race in this code needs
two actors, and one row or vendor they meet on; a third document is what makes a
chain of supersession with a gap, so `doc_serial` has three. A stale claim needs
one crash and a window of two ticks (one in which it is not stale). `MaxLapses = 2`
in `review_lapse` is what it takes to pass both midnights of one date. `doc_overlap`
is east of UTC, where the tenant's midnight comes first: one lapse makes the day-0 job
of a new COI due, and parts the gates of two passes over one that arrives between the
midnights; its documents have no rung of the ladder ahead (`Reminded = {}`), which
supersession does not read. West of UTC `MaxArrival = 1` uploads a document that the gate already rejects
and the chase does not. Two rule changes are the least that overlap. Two locations distinguish "each" from "all".
In `review_lapse` the vendor is invited for both locations, or for one and the other may be
added; one document of two has reminders (`Reminded`): a liveness run cannot use
symmetry, and this leaves out the mirror images. One failure and one death fall on any
pass, flip or submit.

Two addresses would add nothing to `links`: one is what makes two creations collide.
Three links let a third issuer meet two that overlapped. `MaxPerEmail = 1` is the
limit two overlapping requests get past together. A second attachment is what a retry
with old idempotency keys takes; the change of terms in between is one setting, and two
settings overlap. Two faults let an attachment die and a push go unanswered. Three
events in `links` are an invite, a correction and a decision, or a second and third
issuer; runs and bounces are not counted.
Two exports let a pass leave one row half done and go on to the next, and one throw or
death anywhere already parts every two steps.

Deadlock is checked everywhere but in `rules_change`, `billing`, `credentials` and
`links`, whose actors have a bounded number of requests: they may have no more to ask.

The properties carry hypotheses, and each is a place where the code does not
deliver more; see section 7. `notif_prompt` needs passes shorter than the stale
window; `OneEmailPerException` allows a second email when an outcome was lost in a
crash and the provider has dropped the key, and `NoChaseClaimedAfterRenewal` excuses a
chase scheduled after the renewal and one whose pass died. `doc_serial` has no crash and
one pass at a time, and `review_lapse` one pass at a time. `review_waiting` has an
admin who waits, no failure or death, and no location added later; its two properties
excuse a submit that was overtaken by the bounce of the documents it had checked
(`overtaken`). `LapseExpires` excuses a day-0 job that is `failed`. `ReevalCatches`
excuses locations approved after the last rule was set, and all of them after a change
of policy or a request that died. `FloorIsKept` excuses a limit whose value in force is
a grouped number. `CountIsBilled` and `TermsAreBilled` excuse what the history
names, a fee removed between an attachment and its retry included;
`VendorHasWorkingLink` and `InvitedIsReviewed` any expiry or crash, and the second also a
vendor with a verification run, which the page no longer shows the form; `LastAdminStays`
a check that another write of a status overtook, and the steps of `inviteUser`, which
makes none; and `ToldIsReady` an export on which a step threw.

## 5. Fairness

- The intervals (`setInterval` in `workers/bootstrap.ts`) keep firing and every
  await settles: weak fairness of the steps of a pass, of the digest and of time.
- A verification pass that starts after the stale window of a dead claim is over
  puts the job back. Passes start and end for ever and the window, once over,
  stays over, so such a pass starts infinitely often: strong fairness of
  `PassReclaims(p)`, a pass that puts back at least the jobs no live pass holds.
- The notification worker delivers every due job (`EveryRowSettles`), so a day-0
  flip starts, its awaits settle, and one whose pass died is put back and starts again:
  weak fairness of `FlipStep`, of all the flips together. A flip that lives is not overtaken by the stale window
  here; `NotificationWorker` has that. Nothing obliges a flip to throw or to die.
- A request that has begun goes on, for its awaits settle: weak fairness of the steps
  of the billing, link and export requests, and of the interval passes of the billing
  and export workers.
- Stripe delivers a paid invoice until it is answered: weak fairness of `Webhook`.
- `InvitedIsReviewed` is about a vendor that does what it is asked: weak fairness of
  opening its newest working mail and of the page, strong fairness of uploading and
  submitting, which a revoked link may disable again and again.
- Nothing obliges an admin, an operator, a failure, an expiry or a crash, and nothing
  but that one property obliges a vendor.

## 6. What is proved

TLAPS checks these for every value of the constants that meets the named
assumptions; the runs of section 4 check the same properties on an instance.

- **Notification worker.** Type correctness; and, if `PassLimit < Stale`,
  `ExclusiveHold`, `DuplicateOnlyAfterLoss` and `OneEmailPerException`. Exclusion is not
  inductive: the invariant adds `HeldInv`, that the claim of a row in hand is exactly as
  old as the pass that holds it, so that (`AgeInv`) it is younger than the window and
  cannot be reclaimed. `LossInv` accounts for each hand-off: lost, recorded, or about to
  be recorded by a pass. `OneEmailPerException` adds `KeyInv`: a row the provider has
  mailed has its key at the provider or among those it has dropped, and it has mailed a
  row twice only if it had dropped the key; so a second email is a second hand-off,
  which `LossInv` puts down to a lost outcome. `NoChaseClaimedAfterRenewal` rests on the
  reclaim taking nothing from a live pass: without a crash a row that is being sent is
  in some pass's hands, so a withdrawn chase stays out of the queue; rows queued after
  the renewal (`late`) are not withdrawn, and left out. `ImplementsOutbox` goes through
  `Effect`, what a step may look like from outside: unseen, one row posted, handed over,
  lost or settled, or a set of pending rows cancelled. Each action is one of these, and
  each of these is a step of `Outbox` or leaves it alone.
- **Document pipeline.** Type correctness and `SupersededByNewer`, whatever
  overlaps, crashes or shares a millisecond. The invariant adds `HandInv`: a pass
  that has found a prior keeps two uploaded documents in hand, the prior strictly
  older; and upload times never change.
  With one pass at a time (`OnePass`), `NeverLeftWithout`: from the first
  document past the gate on there is one (`Top`) that the gate has let through, that
  nothing has displaced, and that is at least as new as every document that has
  displaced another; one pass cannot bounce it later, for it reads no document twice
  (`OnceInv`). Without failures and crashes (`NoFaults`), `ExpiredIsBounced` with any
  number of passes: what was expired when it was read still is, and is at the gate in
  some pass's hands, bounced, or flagged.
  `CurrentHasDayZero` for any number of passes, if nothing fails or dies and the tenant
  is west of UTC: the gate has then let through only what the chase still finds ahead
  of the tenant's midnight. The hypothesis `Timely` is that this stays so while the
  pass goes on to the chase: the midnight the gate reads and the tenant's are hours
  apart, and what lies between the two readings in the code are a few awaits.
  `doc_serial` does not need it, for one lapse cannot pass both midnights
  (`MaxLapses = 1`); with two and no such hypothesis a document that was gated on its
  last day is at the chase after it, and gets no job (`DayZeroInv`).
  `SurvivorsFlankASkip` if also one pass runs at a time and no two uploads share a
  millisecond: the prior a pass finds is the newest of the older documents that are
  current (`PriorInv`, which needs that such a newest exists, hence the induction of
  the natural numbers in `SmallestOf`); the SELECT of the pass has missed nothing older
  than what it still holds (`TodoInv`); so whatever stood between the prior and a
  third, still older document now stands between that and the new one (`FlankInv`).
- **Vendor review.** Type correctness, `SupersededByNewer` for the composition, and
  `ExpiresAfterLapse`. The invariant adds `DayInv` (a day-0 job exists only for a dated
  document, and has fired only after its midnight) and `FlipInv` (a flip in progress,
  whether it ends, throws or dies, is that of a fired job). `ReviewImplementsPipeline`:
  if no submit request and no flip dies, every step of the composition is a step of
  `DocumentPipeline` or leaves it alone, so its theorems hold here too. Such a death is
  a crash the pipeline does not know, which is why `NeverLeftWithout` is proved of the
  composition itself (`ReviewNeverLeftWithout`), such crashes included. For a `Patient`
  tenant (the admin waits for the worker, which runs one pass at a time and never fails,
  and no location is added) also `ApprovedIsCovered` and `UnderReviewIsVetted`. The
  invariant behind both, `CalmInv`: either there is a document as in `Top`, or nobody
  has decided anything and whatever is under review keeps the worker busy (`WorkAhead`:
  a document to read, one at the gate, or a sweep that has still to take those locations
  back), so that the admin is waiting, or a submit was overtaken: it went on to the FSM
  when the documents it had checked were gone. Without that third case the invariant,
  and both properties, are false.
- **Requirements.** Type correctness; `ReevalCatches`; `FloorIsKept`, for any values,
  with the one excuse it names; and `TighteningNeverClears`. The invariant behind the
  first, `CatchInv`: as long as an earlier approval fails the rules, some request has
  still to list it, to run over it, to read a location at which it fails, or to act on a
  failure it has found. It survives the reads of different rules by one run because
  setting a rule puts a request of its own at the start of that path. The last two rest
  on lemmas about the resolver and the engine: what `Resolve` returns is not below the
  floor, or is a grouped number no floor is stricter than, `NoLooser` is preserved by
  overrides, policy and floor, and each check that found something still does when its
  value is `NoLooser`.
- **Billing.** Type correctness, `TermsAreBilled` and `CountIsBilled`. The terms: until
  the subscription is stored it carries the price its idempotency key was first used
  with (`KeyedInv`), and a fee item that was made stays made, so an attachment that has
  read other terms is refused, but for one that has read no fee, whose call is skipped:
  that is the excuse; one that has read the tenant's has them until an edit overlaps it
  (`ReadInv`). A rate that Stripe charges and the row does not yet show is that of one
  request past its push (`ChargedInv`), and a request that nobody has overlapped still
  finds what it has read and pushed (`AloneInv`), so its write mends the rate whatever
  happened before. The count (`CountInv`): unless a race or a fault excuses it, the last
  committed snapshot is what every pass and every attachment past its reading holds
  (`TickInv`, `QuantityInv`), what the newest waiting row says (`WaitInv`) or else what
  Stripe was told (`SubInv`), and once no edit is between its change and its snapshot it
  is the number of active locations (`LastInv`). What an edit that nobody overlaps has
  counted and compared still stands when it inserts (`SoloInv`), an open onboarding's
  rows end with the count its commit brings about (`BulkRows`), and its locations are
  nobody else's (`RowsInv`). So a changed row of such an edit restores the whole
  invariant, whatever was excused before. An onboarding whose row repeats the last count
  does not: no row waits then, and nothing is pushed. The history of the model used to
  end the excuse at every onboarding; the attempt to prove `CountIsBilled` showed the
  case, TLC confirmed it with three locations, and `BulkCommit` now ends it only if one
  of its rows has changed. Types need all of this for the quantity of an attachment,
  which is a count because a committed row always exists.
- **Throttle and credentials.** `GuessesBounded` for the throttle alone, where it is
  inductive with the types: the limit is met only by a request that has just passed its
  check, and from then on each failure is one request in progress less. `Throttled`:
  every step of the composition is a step of the throttle or leaves it alone. Type
  correctness of the composition, and `LiveLinksPostdatePassword`, to which `UsersInv`
  adds that links, and requests about to issue one, are for users who exist;
  `LinksRewritten` is the lemma all steps on links share. `LastAdminStays`: behind every
  deactivation or PATCH to invited about to be written there is another active admin,
  unless a write of a status has overtaken its check (`PatchInv`).
  `ActivatedAdminIsInvited`: from the activation until something fails, a handler has
  still to issue or to mail the admin's link, or it has been mailed (`InvitedInv`).
- **Vendor links.** Type correctness, `NewestLinkWins` and `VendorHasWorkingLink`, by
  one invariant. `RequestInv`: the snapshot of a request about to commit still lists
  every live link of its vendor that it could see, for others only add rows and revoke.
  `AloneInv`: a vendor is created by one request, of which nobody else knows. What moves
  a location and no link (decisions, lapses, rule changes, a location added) leaves all
  of it alone (`MovesOn`).
  `LastInv`: the last link of a vendor works and is in a mail, or in the hands of the
  request that will mail it; a commit makes its own link the last one, and revokes
  only what it saw before.
- **Audit exports.** Type correctness, `ToldIsReady` and `SensitiveIsLogged`. `ToldInv`
  says what a pass past each await knows of its row (the file is stored; then the row
  is ready, or a step threw on it), so that an overtaken pass only repeats what is so
  already. `LoggedInv` says where a request is whose event is missing, and `AsyncOnly`
  that no worker ever holds a synchronous row.

Only model-checked: the liveness properties (`EveryRowSettles`, `JobsFinish`,
`LapseExpires`, `BilledInTheEnd`, `PaidActivates`, `InvitedIsReviewed`,
`ExportsFinish`). Liveness under fairness, ENABLED, induction over data and RECURSIVE
operators are out of the prover's reach, and no module declares a RECURSIVE operator.

## 7. Where the code and its documents part

`review_reeval` refutes a sentence of the documents, which `PROJECT.json` quotes: a
rule change that fails one approved location marks every location of the vendor
non-compliant.

Others were met while modelling. The models contain the behaviour, and the
hypotheses of section 4, or the wording of the properties, keep it out of the
passing runs:

- The worker discovers digest rows too and sends a routine notification on its own
  (`notifications/worker.ts:74`, against `queue.ts:6` and `digest.ts:2-3`).
- Supersession displaces one row; when that one bounces later in the same job, the
  older COI stays current beside the newest (`renewal.ts:268`, against 233-235).
- An admin who approves before the job has run keeps the approval when the job
  bounces the COI (`decision.ts:137`, against IMPLEMENTATION_BRIEF.md:54-55).
- The renewal of an approved vendor is stored and never processed, so the old COI's
  day-0 job expires the vendor (`vendor-fsm.ts:72`, against
  Renewal_and_Expiration_Chase.md:43).

- A pass slower than the stale window hands a row over twice without a crash
  (`notifications/worker.ts:90`, against 23-24).
- The provider drops an idempotency key after about a day (`mailer.ts:94-98`). A row
  whose pass died after the hand-off, and that is reclaimed later than that, is mailed a
  second time.
- A chase row whose pass died is queued again after the renewal withdrew the rest
  (`renewal.ts:226`), and documents read in no order get a chase scheduled after a newer
  upload has superseded them (`verification/worker.ts:64-77`): nothing withdraws it.
- The submit route reads the documents and moves the locations in a later transaction
  (`submit/route.ts:49-69`). A pass that bounces the documents in between leaves the
  vendor under review without any, and a waiting admin may approve it.
- A day-0 flip that throws is marked `failed` (`notifications/worker.ts:105-107`), and
  nothing tries it again: the location stays approved after its coverage lapsed.
- A crash between extraction and gate leaves an expired COI current
  (`verification/worker.ts:82`): no later pass looks at an extracted document.
- A document flagged before its extraction displaces nothing and leaves two
  current (`flags.ts:76`).
- Two jobs that overlap insert a ladder twice (`renewal.ts:93`, against the
  "Idempotent" of 73); east of UTC the day-0 job is never inserted for a COI read
  between the two midnights (`extractor.ts:510`, `renewal.ts:191`); a double
  extraction across a midnight lets a bounced COI displace, and can leave the vendor
  without a current document (`worker.ts:111-113`).
- A crash between the FSM transition and the insert of the job leaves the vendor
  under review with nothing to verify it (submit route, 85).
- The bounce sweep reopens a location declined in between (`worker.ts:178`).
- A location added to an expired vendor is offered for review with the lapsed COI
  (`add-to-locations.ts:64`).
- Setting the precedence policy re-evaluates nobody (`services/requirements.ts:217`),
  although Requirements_Configuration.md asks to "re-evaluate and flag".
- `1,000,000` passes the floor check, because `Number()` rejects it, and then asks
  for a limit of 1, because `parseFloat()` does not (`resolver.ts:45-47`,
  `engine.ts:225`). The form's field is free text and the route takes any string
  (`RequirementsClient.tsx:61`, `requirements/route.ts:37-39`). `FloorIsKept` excuses a
  grouped limit, and shows that nothing else undercuts the floor.
- A verification run is one transaction, but reads the rules of each location by a
  statement of its own (`run.ts:149`, against "one atomic unit (every read ...)").
- A rule-change request that dies leaves approved vendors unchecked (`re-eval.ts:58`).
- Two issuers that overlap leave two links that work (`invite-token.ts:57`, against
  "only the newest token for a vendor is ever valid, full stop" of docs/decisions.md),
  and the newest mail may carry the one that was revoked. Two creations that overlap
  both find the address free (`vendors.ts:54`).
- A vendor asked for a correction after its verification has run is shown "received"
  and no form (`app/v/[token]/page.tsx:43`, against Vendor_Onboarding_Workflow.md:95).
  The run may be that of a location added (`add-to-locations.ts:82`), before the vendor
  has uploaded anything. A vendor still pending to which a location was added never
  opens, for the transition asks that all its locations be pending
  (`vendor-fsm.ts:62-70`).
- A vendor declined before its job has run, whose COI then bounces, is mailed to upload
  a new one, gets the form, and its submit is refused for ever
  (`decision.ts:168-183`, `vendor-fsm.ts:72-74`).
- A reset link works twice for two confirmations that overlap (`password-reset.ts:301`,
  against the "single-use" of line 4).
- `inviteUser` takes an active admin back to invited, the last one too (`users.ts:283`),
  although a PATCH to invited is checked (`users.ts:236`). Two deactivations that
  overlap leave no admin (`users.ts:236`).
- A webhook that dies after the activation leaves the admin without a link, for the
  next delivery finds the tenant active (`provisioning.ts:247`); one that has read
  "provisioning" makes a tenant suspended in between active again; the lifecycle
  PATCH activates a tenant that has not paid (`tenants.ts`, VALID_TRANSITIONS).
- The general tenant PATCH writes the rate and tells Stripe nothing (`tenants.ts:137`,
  against "never a local rate Stripe isn't actually charging").
- A setup fee charged by an attachment that died, and removed before the retry, stays
  charged: without a fee the call that would be refused is skipped (`stripe.ts:48`).
- A synchronous export whose request dies stays "generating" (`audit-export.ts:52`); a
  row that is ready becomes "failed" when the notification throws
  (`exports/worker.ts:82`); an export may be generated before, or without, its
  Sensitive event (`exports/worker.ts:49`). A district manager may ask for a region
  export and is told it is ready, but only an admin can download it.

## 8. What is not modelled

- Retention: a daily sweep of guarded, idempotent UPDATEs that stamps old rows; no
  other code reads the stamp.
- What Vision reads and how text is parsed and normalised are inputs; message wording,
  recipients, advisories and the stored evaluations are left out, because nothing that
  is modelled reads them. The content of an export is formatting.
- The five rungs of the reminder ladder are one insertion, and in the pipeline and the
  review one vendor stands for all: no step there reads two vendors' rows and writes
  one of them.
- In `VendorLinks` uploading and submitting are one step each, and so is the mutation
  behind a decision, a lapse or a rule change; `VendorReview` has them apart. A page whose
  transition lost a race shows an error and is loaded again: a step that changes nothing.
- How long Stripe remembers an idempotency key is left out: the retries of `Billing` come
  while it does. The mail provider's keys are dropped at any time.
- Sessions are signed cookies without a row. Names, phones and location scopes of
  users, and contact fields of tenants, decide nothing that is modelled.
- The wizard's transaction and the parsing of imports: the first is an initial state of
  `Billing` and `Credentials`, the second is text.
- Dashboards, search, reports and the user interface keep no state; storage,
  encryption, the mail provider and the database are external.
