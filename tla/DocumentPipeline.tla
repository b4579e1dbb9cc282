-------------------------- MODULE DocumentPipeline --------------------------
(***************************************************************************)
(* The documents of one vendor and one type (the COI; a W-9 or ACH form is *)
(* a COI without a date), from upload to supersession, and the background  *)
(* jobs that work on them: the documents upload route, the verification    *)
(* worker (src/lib/verification/worker.ts), handleCoiUploadChase           *)
(* (src/lib/notifications/renewal.ts), and the replacement flag            *)
(* (src/lib/documents/flags.ts).                                           *)
(*                                                                         *)
(* Every await of a pass separates two actions.  The reclaim and discovery *)
(* statements of a pass are one action: the claims of other passes between *)
(* them are caught by the guarded UPDATE, as they are when they come later.*)
(*                                                                         *)
(* Time.  "expiry" counts the two midnights at which the same expiration   *)
(* date lapses: the gate compares with midnight UTC, the chase with        *)
(* midnight in the tenant's zone.  WestOfUTC says which comes first.       *)
(***************************************************************************)
EXTENDS Naturals, FiniteSets

CONSTANTS
    Docs,         \* document ids
    NoDoc,        \* superseded_by NULL, no document in hand
    Jobs,         \* verification_jobs rows
    NoJob,        \* no job in hand
    Passes,       \* worker passes that may be alive at once
    WestOfUTC,    \* the tenant's midnight comes after midnight UTC
    Reminded,     \* documents with a rung of the ladder ahead, of a vendor with an email
    SameInstant,  \* two uploads may carry one uploaded_at (millisecond clock)
    MaxArrival,   \* bound: midnights already past when a document is uploaded
    MaxLapses,    \* bound: midnights that pass later, over all documents
    MaxFlags,     \* bound: replacement flags set
    MaxFailures,  \* bound: jobs that throw
    MaxCrashes    \* bound: requests and passes that die half way

ASSUME PipelineAssumption ==
    /\ NoDoc \notin Docs
    /\ NoJob \notin Jobs
    /\ WestOfUTC \in BOOLEAN
    /\ Reminded \subseteq Docs
    /\ SameInstant \in BOOLEAN
    /\ MaxArrival \in 0..2
    /\ MaxLapses \in Nat /\ MaxFlags \in Nat /\ MaxFailures \in Nat /\ MaxCrashes \in Nat

VARIABLES
    \* documents
    now,           \* the upload clock
    uploadedAt,    \* documents.uploaded_at
    state,         \* documents.state ("absent": not uploaded)
    supersededBy,  \* documents.superseded_by
    dated,         \* documents whose policies carry a parseable date
    expiry,        \* midnights of its expiration date that have passed, 0..2
    extracted,     \* documents with a row in extractions
    \* chase rows of each document
    ladders,       \* how many times reminders were inserted
    dayZero,       \* notifications.status of its coi_expiration row
    \* the worker
    jobStatus,     \* verification_jobs.status
    pc, due, job, todo, doc, prior, bounced,   \* per pass
    \* the admin
    flagging,      \* flagDocumentsForReplacement: the document it has read
    \* history
    expiredSeen,   \* documents already past the gate's midnight when extracted
    everBounced,   \* documents the gate has bounced
    lapses, flags, failures, crashes

docVars == <<now, uploadedAt, state, supersededBy, dated>>
chaseVars == <<ladders, dayZero>>
passVars == <<pc, due, job, todo, doc, prior, bounced>>
history == <<expiredSeen, everBounced>>
bounds == <<lapses, flags, failures, crashes>>
vars == <<docVars, expiry, extracted, chaseVars, jobStatus, passVars, flagging, history, bounds>>

DocState == {"absent", "active", "correction_requested", "bounced_expired"}
JobStatus == {"absent", "queued", "processing", "done", "failed"}
DayZeroStatus == {"none", "queued", "sending", "sent", "failed", "superseded"}
Steps == {"idle", "claim", "select", "extract", "gate", "reopen", "displace",
          "withdraw", "ladder", "schedule", "dayZero"}

TypeOK ==
    /\ now \in Nat
    /\ uploadedAt \in [Docs -> Nat]
    /\ state \in [Docs -> DocState]
    /\ supersededBy \in [Docs -> Docs \cup {NoDoc}]
    /\ dated \in SUBSET Docs
    /\ expiry \in [Docs -> 0..2]
    /\ extracted \in SUBSET Docs
    /\ ladders \in [Docs -> Nat]
    /\ dayZero \in [Docs -> DayZeroStatus]
    /\ jobStatus \in [Jobs -> JobStatus]
    /\ pc \in [Passes -> Steps]
    /\ due \in [Passes -> SUBSET Jobs]
    /\ job \in [Passes -> Jobs \cup {NoJob}]
    /\ todo \in [Passes -> SUBSET Docs]
    /\ doc \in [Passes -> Docs \cup {NoDoc}]
    /\ prior \in [Passes -> Docs \cup {NoDoc}]
    /\ bounced \in [Passes -> BOOLEAN]
    /\ flagging \in Docs \cup {NoDoc}
    /\ expiredSeen \in SUBSET Docs
    /\ everBounced \in SUBSET Docs
    /\ lapses \in 0..MaxLapses /\ flags \in 0..MaxFlags
    /\ failures \in 0..MaxFailures /\ crashes \in 0..MaxCrashes

Init ==
    /\ now = 1
    /\ uploadedAt = [d \in Docs |-> 0]
    /\ state = [d \in Docs |-> "absent"]
    /\ supersededBy = [d \in Docs |-> NoDoc]
    /\ dated = {}
    /\ expiry = [d \in Docs |-> 0]
    /\ extracted = {}
    /\ ladders = [d \in Docs |-> 0]
    /\ dayZero = [d \in Docs |-> "none"]
    /\ jobStatus = [j \in Jobs |-> "absent"]
    /\ pc = [p \in Passes |-> "idle"]
    /\ due = [p \in Passes |-> {}]
    /\ job = [p \in Passes |-> NoJob]
    /\ todo = [p \in Passes |-> {}]
    /\ doc = [p \in Passes |-> NoDoc]
    /\ prior = [p \in Passes |-> NoDoc]
    /\ bounced = [p \in Passes |-> FALSE]
    /\ flagging = NoDoc
    /\ expiredSeen = {}
    /\ everBounced = {}
    /\ lapses = 0 /\ flags = 0 /\ failures = 0 /\ crashes = 0

-----------------------------------------------------------------------------
(* The vendor, the calendar and the admin *)

\* A row that counts as the vendor's current document (renewal.ts:265).
Live(d) == supersededBy[d] = NoDoc /\ state[d] \in {"active", "correction_requested"}

\* The documents route: stored, then inserted 'active' and not yet extracted.
\* "later" is FALSE when the next upload falls in the same millisecond.
Upload(d, midnights, withDate, later) ==
    /\ state[d] = "absent"
    /\ later \/ SameInstant
    /\ midnights > 0 => withDate
    /\ state' = [state EXCEPT ![d] = "active"]
    /\ uploadedAt' = [uploadedAt EXCEPT ![d] = now]
    /\ now' = IF later THEN now + 1 ELSE now
    /\ dated' = IF withDate THEN dated \cup {d} ELSE dated
    /\ expiry' = [expiry EXCEPT ![d] = midnights]
    /\ UNCHANGED <<supersededBy, extracted, chaseVars, jobStatus, passVars, flagging, history, bounds>>

\* A midnight of the expiration date passes.
Lapse(d) ==
    /\ d \in dated
    /\ expiry[d] < 2
    /\ lapses < MaxLapses
    /\ expiry' = [expiry EXCEPT ![d] = @ + 1]
    /\ lapses' = lapses + 1
    /\ UNCHANGED <<docVars, extracted, chaseVars, jobStatus, passVars, flagging, history, flags, failures, crashes>>

\* The submit route's insert.  It has looked for a current document several
\* statements earlier: that one is there, but may have changed since.
QueueJob(j) ==
    /\ jobStatus[j] = "absent"
    /\ \E d \in Docs : state[d] # "absent"
    /\ jobStatus' = [jobStatus EXCEPT ![j] = "queued"]
    /\ UNCHANGED <<docVars, expiry, extracted, chaseVars, passVars, flagging, history, bounds>>

Newest(S) == {d \in S : \A e \in S : uploadedAt[e] <= uploadedAt[d]}

\* flagDocumentsForReplacement reads the current document, then writes it by id.
FlagRead ==
    /\ flagging = NoDoc
    /\ flags < MaxFlags
    /\ flagging' \in Newest({d \in Docs : Live(d)})
    /\ flags' = flags + 1
    /\ UNCHANGED <<docVars, expiry, extracted, chaseVars, jobStatus, passVars, history, lapses, failures, crashes>>

FlagWrite ==
    /\ flagging # NoDoc
    /\ state' = [state EXCEPT ![flagging] = "correction_requested"]
    /\ flagging' = NoDoc
    /\ UNCHANGED <<now, uploadedAt, supersededBy, dated, expiry, extracted, chaseVars, jobStatus, passVars, history, bounds>>

-----------------------------------------------------------------------------
(* A worker pass: jobs *)

\* Claimed by a pass that has died.
Orphaned(j) == jobStatus[j] = "processing" /\ \A p \in Passes : job[p] # j

\* The interval fires.  The pass requeues the jobs claimed longer ago than the
\* stale window ("stale"), be the pass that holds them dead or only slow, and
\* discovers every queued job.
Requeued_WrongStatus(j, stale) == j \in stale /\ jobStatus[j] = "sending"
Requeued(j, stale) == j \in stale /\ jobStatus[j] = "processing"

StartPass(p, stale) ==
    /\ pc[p] = "idle"
    /\ jobStatus' = [j \in Jobs |-> IF Requeued(j, stale) THEN "queued" ELSE jobStatus[j]]
    /\ due' = [due EXCEPT ![p] = {j \in Jobs : jobStatus'[j] = "queued"}]
    /\ pc' = [pc EXCEPT ![p] = "claim"]
    /\ UNCHANGED <<docVars, expiry, extracted, chaseVars, job, todo, doc, prior, bounced, flagging, history, bounds>>

\* The guarded UPDATE; a job another pass has taken is skipped.
Claim(p, j) ==
    /\ pc[p] = "claim"
    /\ j \in due[p]
    /\ due' = [due EXCEPT ![p] = @ \ {j}]
    /\ IF jobStatus[j] = "queued"
         THEN /\ jobStatus' = [jobStatus EXCEPT ![j] = "processing"]
              /\ job' = [job EXCEPT ![p] = j]
              /\ bounced' = [bounced EXCEPT ![p] = FALSE]
              /\ pc' = [pc EXCEPT ![p] = "select"]
         ELSE UNCHANGED <<jobStatus, job, bounced, pc>>
    /\ UNCHANGED <<docVars, expiry, extracted, chaseVars, todo, doc, prior, flagging, history, bounds>>

\* Active, current and never extracted; the SELECT has no ORDER BY.
Pending(d) == state[d] = "active" /\ supersededBy[d] = NoDoc /\ d \notin extracted

Select(p) ==
    /\ pc[p] = "select"
    /\ todo' = [todo EXCEPT ![p] = {d \in Docs : Pending(d)}]
    /\ pc' = [pc EXCEPT ![p] = "extract"]
    /\ UNCHANGED <<docVars, expiry, extracted, chaseVars, jobStatus, due, job, doc, prior, bounced, flagging, history, bounds>>

\* The pass lets go of its job: 'done' (after runVerification, unless a document
\* bounced) or, when a step throws, 'failed'.  Either is an UPDATE by id.
Release(p, result) ==
    /\ jobStatus' = [jobStatus EXCEPT ![job[p]] = result]
    /\ job' = [job EXCEPT ![p] = NoJob]
    /\ todo' = [todo EXCEPT ![p] = {}]
    /\ doc' = [doc EXCEPT ![p] = NoDoc]
    /\ prior' = [prior EXCEPT ![p] = NoDoc]
    /\ bounced' = [bounced EXCEPT ![p] = FALSE]
    /\ pc' = [pc EXCEPT ![p] = "claim"]
    /\ UNCHANGED <<docVars, expiry, extracted, chaseVars, due, flagging, history, lapses, flags, crashes>>

FinishJob(p) ==
    /\ pc[p] = "extract"
    /\ todo[p] = {}
    /\ Release(p, "done")
    /\ UNCHANGED failures

FailJob(p) ==
    /\ pc[p] \notin {"idle", "claim"}
    /\ failures < MaxFailures
    /\ failures' = failures + 1
    /\ Release(p, "failed")

EndPass(p) ==
    /\ pc[p] = "claim"
    /\ due[p] = {}
    /\ pc' = [pc EXCEPT ![p] = "idle"]
    /\ UNCHANGED <<docVars, expiry, extracted, chaseVars, jobStatus, due, job, todo, doc, prior, bounced, flagging, history, bounds>>

\* The process dies; its job stays 'processing'.
CrashPass(p) ==
    /\ pc[p] # "idle"
    /\ crashes < MaxCrashes
    /\ crashes' = crashes + 1
    /\ pc' = [pc EXCEPT ![p] = "idle"]
    /\ due' = [due EXCEPT ![p] = {}]
    /\ job' = [job EXCEPT ![p] = NoJob]
    /\ todo' = [todo EXCEPT ![p] = {}]
    /\ doc' = [doc EXCEPT ![p] = NoDoc]
    /\ prior' = [prior EXCEPT ![p] = NoDoc]
    /\ bounced' = [bounced EXCEPT ![p] = FALSE]
    /\ UNCHANGED <<docVars, expiry, extracted, chaseVars, jobStatus, flagging, history, lapses, flags, failures>>

-----------------------------------------------------------------------------
(* A worker pass: one document *)

\* The step a pass takes next, the document in hand and the prior it has found.
Goto(p, step, d, e) ==
    /\ pc' = [pc EXCEPT ![p] = step]
    /\ doc' = [doc EXCEPT ![p] = d]
    /\ prior' = [prior EXCEPT ![p] = e]

Return(p) == Goto(p, "extract", NoDoc, NoDoc)

\* The gate reads "expired" at midnight UTC, the chase at the tenant's midnight.
UTCMidnightPast(d) == expiry[d] = 2 \/ (expiry[d] = 1 /\ WestOfUTC)
LocalMidnightPast(d) == expiry[d] = 2 \/ (expiry[d] = 1 /\ ~WestOfUTC)

GateExpired_Open(d) == FALSE
GateExpired(d) == UTCMidnightPast(d)

DayZeroPast_UTC(d) == UTCMidnightPast(d)
DayZeroPast(d) == LocalMidnightPast(d)

\* Vision reads the document and the extraction is inserted: from here on no
\* SELECT returns the document again.
Extract(p, d) ==
    /\ pc[p] = "extract"
    /\ d \in todo[p]
    /\ todo' = [todo EXCEPT ![p] = @ \ {d}]
    /\ extracted' = extracted \cup {d}
    /\ expiredSeen' = IF UTCMidnightPast(d) THEN expiredSeen \cup {d} ELSE expiredSeen
    /\ Goto(p, "gate", d, NoDoc)
    /\ UNCHANGED <<docVars, expiry, chaseVars, jobStatus, due, job, bounced, flagging, everBounced, bounds>>

\* checkExpirationGate fails: the document is bounced, whatever its state is
\* now; the sweep of the vendor's locations follows (Reopen).
Bounce(p) ==
    /\ pc[p] = "gate"
    /\ GateExpired(doc[p])
    /\ state' = [state EXCEPT ![doc[p]] = "bounced_expired"]
    /\ everBounced' = everBounced \cup {doc[p]}
    /\ bounced' = [bounced EXCEPT ![p] = TRUE]
    /\ Goto(p, "reopen", doc[p], NoDoc)
    /\ UNCHANGED <<now, uploadedAt, supersededBy, dated, expiry, extracted, chaseVars, jobStatus, due, job, todo, flagging, expiredSeen, bounds>>

Older_OrEqual(e, d) == uploadedAt[e] <= uploadedAt[d]
Older(e, d) == uploadedAt[e] < uploadedAt[d]

Supersedable_ActiveOnly(e) == supersededBy[e] = NoDoc /\ state[e] = "active"
Supersedable(e) == Live(e)

\* supersedePriorDocument's SELECT: the newest strictly older row that is still
\* current (ORDER BY uploaded_at DESC LIMIT 1).
Priors(d) == Newest({e \in Docs : e # d /\ Supersedable(e) /\ Older(e, d)})

\* The loop goes on with the next document; the mutant forgets to.
AfterBounce_NoContinue(p) == \E e \in Priors(doc[p]) : Goto(p, "displace", doc[p], e)
AfterBounce(p) == Return(p)

Reopen(p) ==
    /\ pc[p] = "reopen"
    /\ AfterBounce(p)
    /\ UNCHANGED <<docVars, expiry, extracted, chaseVars, jobStatus, due, job, todo, bounced, flagging, history, bounds>>

\* The gate passes and the document supersedes the prior, if there is one.
FindPrior(p) ==
    LET d == doc[p] IN
    /\ pc[p] = "gate"
    /\ ~GateExpired(d)
    /\ \/ Priors(d) = {} /\ d \in dated /\ Goto(p, "ladder", d, NoDoc)
       \/ Priors(d) = {} /\ d \notin dated /\ Return(p)
       \/ \E e \in Priors(d) : Goto(p, "displace", d, e)
    /\ UNCHANGED <<docVars, expiry, extracted, chaseVars, jobStatus, due, job, todo, bounced, flagging, history, bounds>>

\* The prior is superseded by id, whatever has become of it since.
Displace(p) ==
    /\ pc[p] = "displace"
    /\ supersededBy' = [supersededBy EXCEPT ![prior[p]] = doc[p]]
    /\ IF doc[p] \in dated THEN Goto(p, "withdraw", doc[p], prior[p]) ELSE Return(p)
    /\ UNCHANGED <<now, uploadedAt, state, dated, expiry, extracted, chaseVars, jobStatus, due, job, todo, bounced, flagging, history, bounds>>

\* supersedeReminders withdraws the unfired chase of the prior.
Withdraw(p) ==
    /\ pc[p] = "withdraw"
    /\ dayZero' = [dayZero EXCEPT ![prior[p]] = IF @ = "queued" THEN "superseded" ELSE @]
    /\ Goto(p, "ladder", doc[p], NoDoc)
    /\ UNCHANGED <<docVars, expiry, extracted, ladders, jobStatus, due, job, todo, bounced, flagging, history, bounds>>

\* scheduleRenewalReminders: does the document already have reminders?
CheckLadder(p) ==
    /\ pc[p] = "ladder"
    /\ IF ladders[doc[p]] > 0 THEN Return(p) ELSE Goto(p, "schedule", doc[p], NoDoc)
    /\ UNCHANGED <<docVars, expiry, extracted, chaseVars, jobStatus, due, job, todo, bounced, flagging, history, bounds>>

\* The reminders.  None is inserted for a vendor without an email address, or when
\* every rung of the ladder is past: another pass may then schedule again.
ScheduleLadder(p) ==
    /\ pc[p] = "schedule"
    /\ ladders' = IF doc[p] \in Reminded THEN [ladders EXCEPT ![doc[p]] = @ + 1] ELSE ladders
    /\ Goto(p, "dayZero", doc[p], NoDoc)
    /\ UNCHANGED <<docVars, expiry, extracted, dayZero, jobStatus, due, job, todo, bounced, flagging, history, bounds>>

\* The coi_expiration job, unless the tenant's midnight has already passed.
ScheduleDayZero(p) ==
    /\ pc[p] = "dayZero"
    /\ dayZero' = [dayZero EXCEPT ![doc[p]] = IF DayZeroPast(doc[p]) THEN @ ELSE "queued"]
    /\ Return(p)
    /\ UNCHANGED <<docVars, expiry, extracted, ladders, jobStatus, due, job, todo, bounced, flagging, history, bounds>>

-----------------------------------------------------------------------------
(* The notification worker and the day-0 job *)

\* It claims the job when it falls due, settles it (a flip that throws leaves it
\* 'failed' for good), and puts back one whose claim has gone stale.
FireDayZero(d) ==
    /\ dayZero[d] = "queued"
    /\ DayZeroPast(d)
    /\ dayZero' = [dayZero EXCEPT ![d] = "sending"]
    /\ UNCHANGED <<docVars, expiry, extracted, ladders, jobStatus, passVars, flagging, history, bounds>>

SettleDayZero(d, result) ==
    /\ dayZero[d] = "sending"
    /\ result = "failed" => failures < MaxFailures
    /\ failures' = IF result = "failed" THEN failures + 1 ELSE failures
    /\ dayZero' = [dayZero EXCEPT ![d] = result]
    /\ UNCHANGED <<docVars, expiry, extracted, ladders, jobStatus, passVars, flagging, history, lapses, flags, crashes>>

ReclaimDayZero(d) ==
    /\ dayZero[d] = "sending"
    /\ dayZero' = [dayZero EXCEPT ![d] = "queued"]
    /\ UNCHANGED <<docVars, expiry, extracted, ladders, jobStatus, passVars, flagging, history, bounds>>

DayZeroJob(d) ==
    FireDayZero(d) \/ ReclaimDayZero(d) \/ \E result \in {"sent", "failed"} : SettleDayZero(d, result)

-----------------------------------------------------------------------------

PassStep(p) ==
    \/ \E stale \in SUBSET Jobs : StartPass(p, stale)
    \/ \E j \in Jobs : Claim(p, j)
    \/ Select(p) \/ FinishJob(p) \/ EndPass(p)
    \/ \E d \in Docs : Extract(p, d)
    \/ Bounce(p) \/ Reopen(p)
    \/ FindPrior(p) \/ Displace(p) \/ Withdraw(p)
    \/ CheckLadder(p) \/ ScheduleLadder(p) \/ ScheduleDayZero(p)

Next ==
    \/ \E d \in Docs, midnights \in 0..MaxArrival, withDate, later \in BOOLEAN :
         Upload(d, midnights, withDate, later)
    \/ \E d \in Docs : Lapse(d) \/ DayZeroJob(d)
    \/ \E j \in Jobs : QueueJob(j)
    \/ FlagRead \/ FlagWrite
    \/ \E p \in Passes : PassStep(p) \/ FailJob(p) \/ CrashPass(p)

Spec == Init /\ [][Next]_vars

-----------------------------------------------------------------------------
(* Properties *)

AtRest ==
    /\ \A p \in Passes : pc[p] = "idle"
    /\ \A j \in Jobs : jobStatus[j] \notin {"queued", "processing"}
    /\ flagging = NoDoc

\* renewal.ts:250-253: the strictly-older guard keeps two uploads in flight from
\* superseding each other, in whatever order and by whatever passes they are
\* processed: the chain of supersession always leads to a newer upload.
SupersededByNewer ==
    \A d \in Docs : supersededBy[d] # NoDoc => uploadedAt[d] < uploadedAt[supersededBy[d]]

\* worker.ts:111-113: once a document has been superseded the vendor is never left
\* without a current one, whatever expired, failed or died on the way, as long as
\* no two passes extract it at once.
NeverLeftWithout ==
    (\E d \in Docs : supersededBy[d] # NoDoc) => \E d \in Docs : Live(d)

\* A document already expired when Vision read it does not stay current once the
\* worker is done with it (worker.ts:109-118), unless a pass died on it.
ExpiredIsBounced ==
    AtRest => \A d \in expiredSeen : ~Live(d) \/ state[d] = "correction_requested"

\* Two current documents survive a worker at rest only around an upload that
\* displaced nothing: one the gate bounced, or one an admin flagged before Vision
\* read it (renewal.ts:233-235 knows neither exception).
SurvivorsFlankASkip ==
    AtRest =>
      \A a, b \in extracted :
        Live(a) /\ Live(b) /\ Older(a, b) =>
          \E c \in Docs :
            /\ ~Older(c, a) /\ ~Older(b, c)
            /\ c \in everBounced \/ (state[c] = "correction_requested" /\ c \notin extracted)

\* A vendor's dated COI that is current and has passed the gate has its day-0 job:
\* nothing else ever expires it (renewal.ts:188-207).
CurrentHasDayZero ==
    AtRest => \A d \in extracted \cap dated :
                state[d] = "active" /\ supersededBy[d] = NoDoc => dayZero[d] # "none"

\* worker.ts:210-218: every submitted job is finished, the one that a dying pass
\* had claimed included: a later pass puts it back once its claim is stale.
JobsFinish ==
    \A j \in Jobs : jobStatus[j] = "queued" ~> jobStatus[j] \in {"done", "failed"}
=============================================================================
