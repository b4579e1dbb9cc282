---------------------------- MODULE VendorReview ----------------------------
(***************************************************************************)
(* The status of one vendor at each of its locations, composed with the    *)
(* documents and jobs of DocumentPipeline: the invite link and the submit  *)
(* route (src/lib/services/vendor-fsm.ts), the admin's decisions           *)
(* (src/lib/services/decision.ts), the bounce of an expired COI            *)
(* (bounceExpiredCOI), the day-0 flip (applyExpirationFlip), the           *)
(* re-evaluation after a rule change (src/lib/requirements/re-eval.ts) and *)
(* the adding of a location (src/lib/services/add-to-locations.ts).        *)
(*                                                                         *)
(* Only the FSM transitions run in a transaction.  Every other writer reads*)
(* the statuses first and updates each location by id later: its reads and *)
(* its writes are separate actions.                                        *)
(*                                                                         *)
(* The verification worker may overtake its own passes (DocumentPipeline); *)
(* the pass that delivers a day-0 job may die, but is not overtaken while  *)
(* it lives (NotificationWorker has that).                                 *)
(***************************************************************************)
EXTENDS DocumentPipeline

CONSTANTS
    Locations,    \* the tenant's locations
    Invitations,  \* the sets of locations the admin may invite the vendor for
    AdminWaits,   \* the admin decides only when no verification job is open
    MaxRequests,  \* bound: decisions, corrections and additions the admin starts
    MaxAdded,     \* bound: additions among them, each of one location
    MaxChanges    \* bound: requirement rule changes

ASSUME ReviewAssumption ==
    /\ IsFiniteSet(Locations)
    /\ Invitations \subseteq (SUBSET Locations) \ {{}}
    /\ AdminWaits \in BOOLEAN
    /\ MaxRequests \in Nat /\ MaxAdded \in Nat /\ MaxChanges \in Nat

VARIABLES
    locStatus,   \* vendor_locations.status ("none": no row)
    checked,     \* submit requests between the SELECT of the documents and the FSM
    submitting,  \* submit requests between the FSM and the job insert
    swept,       \* per pass: bounceExpiredCOI has read the statuses
    sweep,       \* per pass: the locations it still has to reopen
    deciding,    \* approve and reject requests between the read and the write
    correcting,  \* request_correction: how far it is
    correction,  \* the locations it still has to reopen
    flipping,    \* per document: how far its day-0 flip is
    flip,        \* per document: the locations it still has to expire
    reevals,     \* approved locations a rule change has still to re-evaluate
    opened,      \* the vendor has followed the invite link
    overtaken,   \* history: a submit went through after its documents had gone
    requests, added, changes

submitVars == <<checked, submitting, overtaken>>
adminVars == <<deciding, correcting, correction>>
requestVars == <<submitVars, adminVars>>
sweepVars == <<swept, sweep>>
flipVars == <<flipping, flip>>
reviewBounds == <<requests, added, changes>>
reviewVars == <<locStatus, requestVars, sweepVars, flipVars, reevals, opened, reviewBounds>>
allVars == <<vars, reviewVars>>

VendorStatus == {"invited_pending", "onboarding", "under_review", "approved",
                 "expired", "non_compliant", "declined"}
\* The mutant stores the name of the action.
Verdicts_ActionName == {"approved", "reject"}
Verdicts == {"approved", "declined"}

ReviewTypeOK ==
    /\ TypeOK
    /\ locStatus \in [Locations -> VendorStatus \cup {"none"}]
    /\ checked \subseteq Jobs /\ submitting \subseteq Jobs
    /\ overtaken \in BOOLEAN
    /\ swept \in [Passes -> BOOLEAN]
    /\ sweep \in [Passes -> SUBSET Locations]
    /\ deciding \subseteq Locations \X Verdicts
    /\ correcting \in {"no", "sweep", "flag"}
    /\ correction \subseteq Locations
    /\ flipping \in [Docs -> {"no", "check", "select", "write", "record"}]
    /\ flip \in [Docs -> SUBSET Locations]
    /\ reevals \in Nat
    /\ opened \in BOOLEAN
    /\ requests \in 0..MaxRequests /\ added \in 0..MaxAdded /\ changes \in 0..MaxChanges

\* The vendor is invited for some of the locations.
ReviewInit ==
    /\ Init
    /\ \E invited \in Invitations :
         locStatus = [l \in Locations |-> IF l \in invited THEN "invited_pending" ELSE "none"]
    /\ checked = {} /\ submitting = {}
    /\ overtaken = FALSE
    /\ swept = [p \in Passes |-> FALSE]
    /\ sweep = [p \in Passes |-> {}]
    /\ deciding = {}
    /\ correcting = "no"
    /\ correction = {}
    /\ flipping = [d \in Docs |-> "no"]
    /\ flip = [d \in Docs |-> {}]
    /\ reevals = 0
    /\ opened = FALSE
    /\ requests = 0 /\ added = 0 /\ changes = 0

At(statuses) == {l \in Locations : locStatus[l] \in statuses}
Assigned == {l \in Locations : locStatus[l] # "none"}

-----------------------------------------------------------------------------
(* The vendor *)

\* fireOnboardingStarted: the link moves all the locations together or none.
OpenLink ==
    /\ opened' = TRUE
    /\ locStatus' = IF Assigned = At({"invited_pending"})
                      THEN [l \in Locations |-> IF l \in Assigned THEN "onboarding" ELSE "none"]
                      ELSE locStatus
    /\ UNCHANGED <<vars, requestVars, sweepVars, flipVars, reevals, reviewBounds>>

\* The submit route's SELECT: a current document of every type is on file.
Submittable == \E d \in Docs : state[d] = "active" /\ supersededBy[d] = NoDoc

SubmitCheck(j) ==
    /\ opened
    /\ jobStatus[j] = "absent" /\ j \notin checked \cup submitting
    /\ Submittable
    /\ checked' = checked \cup {j}
    /\ UNCHANGED <<vars, locStatus, submitting, overtaken, adminVars, sweepVars, flipVars, reevals, opened, reviewBounds>>

\* The locations in onboarding move in one transaction, which does not look at the
\* documents again; with none in onboarding the request is refused.
SubmitFsm(j) ==
    /\ j \in checked
    /\ At({"onboarding"}) # {}
    /\ locStatus' = [l \in Locations |->
                       IF locStatus[l] = "onboarding" THEN "under_review" ELSE locStatus[l]]
    /\ checked' = checked \ {j}
    /\ submitting' = submitting \cup {j}
    /\ overtaken' = (overtaken \/ ~Submittable)
    /\ UNCHANGED <<vars, adminVars, sweepVars, flipVars, reevals, opened, reviewBounds>>

SubmitRefused(j) ==
    /\ j \in checked
    /\ At({"onboarding"}) = {}
    /\ checked' = checked \ {j}
    /\ UNCHANGED <<vars, locStatus, submitting, overtaken, adminVars, sweepVars, flipVars, reevals, opened, reviewBounds>>

SubmitInsert(j) ==
    /\ j \in submitting
    /\ QueueJob(j)
    /\ submitting' = submitting \ {j}
    /\ UNCHANGED <<locStatus, checked, overtaken, adminVars, sweepVars, flipVars, reevals, opened, reviewBounds>>

\* A death that leaves the documents and the worker's jobs alone.
Dies ==
    /\ crashes < MaxCrashes
    /\ crashes' = crashes + 1
    /\ UNCHANGED <<docVars, expiry, extracted, chaseVars, jobStatus, passVars, flagging, history, lapses, flags, failures>>

\* The server dies in between: the locations have moved, no job exists.
CrashSubmit(j) ==
    /\ j \in submitting
    /\ Dies
    /\ submitting' = submitting \ {j}
    /\ UNCHANGED <<locStatus, checked, overtaken, adminVars, sweepVars, flipVars, reevals, opened, reviewBounds>>

-----------------------------------------------------------------------------
(* The admin *)

JobOpen == submitting # {} \/ \E j \in Jobs : jobStatus[j] \in {"queued", "processing"}

\* The decision route knows nothing of jobs; a patient admin does.
MayDecide ==
    /\ AdminWaits => ~JobOpen
    /\ requests < MaxRequests

\* approve and reject take one location at a time: read, then write by id.
DecideRead(l, verdict) ==
    /\ MayDecide
    /\ locStatus[l] = "under_review"
    /\ deciding' = deciding \cup {<<l, verdict>>}
    /\ requests' = requests + 1
    /\ UNCHANGED <<vars, locStatus, submitVars, correcting, correction, sweepVars, flipVars, reevals, opened, added, changes>>

DecideWrite(l, verdict) ==
    /\ <<l, verdict>> \in deciding
    /\ deciding' = deciding \ {<<l, verdict>>}
    /\ locStatus' = [locStatus EXCEPT ![l] = verdict]
    /\ UNCHANGED <<vars, submitVars, correcting, correction, sweepVars, flipVars, reevals, opened, reviewBounds>>

\* request_correction sweeps the locations under review, one by one, and then
\* may flag the document.
CorrectionRead ==
    /\ MayDecide
    /\ correcting = "no"
    /\ At({"under_review"}) # {}
    /\ correction' = At({"under_review"})
    /\ correcting' = "sweep"
    /\ requests' = requests + 1
    /\ UNCHANGED <<vars, locStatus, submitVars, deciding, sweepVars, flipVars, reevals, opened, added, changes>>

CorrectionWrite(l) ==
    /\ correcting = "sweep"
    /\ l \in correction
    /\ correction' = correction \ {l}
    /\ locStatus' = [locStatus EXCEPT ![l] = "onboarding"]
    /\ correcting' = IF correction' = {} THEN "flag" ELSE "sweep"
    /\ UNCHANGED <<vars, submitVars, deciding, sweepVars, flipVars, reevals, opened, reviewBounds>>

CorrectionFlagRead ==
    /\ correcting = "flag"
    /\ FlagRead
    /\ UNCHANGED reviewVars

CorrectionFlagWrite ==
    /\ FlagWrite
    /\ correcting' = "no"
    /\ UNCHANGED <<locStatus, submitVars, deciding, correction, sweepVars, flipVars, reevals, opened, reviewBounds>>

\* No document type was ticked, or none is on file.
CorrectionSkipFlag ==
    /\ correcting = "flag"
    /\ flagging = NoDoc
    /\ correcting' = "no"
    /\ UNCHANGED <<vars, locStatus, submitVars, deciding, correction, sweepVars, flipVars, reevals, opened, reviewBounds>>

\* addVendorToLocations: whatever the vendor's other locations say.
AddLocation(l) ==
    /\ locStatus[l] = "none"
    /\ requests < MaxRequests /\ added < MaxAdded
    /\ requests' = requests + 1
    /\ added' = added + 1
    /\ locStatus' = [locStatus EXCEPT ![l] = "under_review"]
    /\ UNCHANGED <<vars, requestVars, sweepVars, flipVars, reevals, opened, changes>>

\* A rule changes: triggerRuleChangeReeval reads the approved locations, then
\* runs the rules once per location it has read.
ChangeRule ==
    /\ changes < MaxChanges
    /\ reevals = 0
    /\ changes' = changes + 1
    /\ reevals' = Cardinality(At({"approved"}))
    /\ UNCHANGED <<vars, locStatus, requestVars, sweepVars, flipVars, opened, requests, added>>

\* The UPDATE of a vendor that fails names the vendor, not the location.
Reevaluate(passes) ==
    /\ reevals > 0
    /\ reevals' = reevals - 1
    /\ locStatus' = IF passes THEN locStatus
                    ELSE [l \in Locations |-> IF l \in Assigned THEN "non_compliant" ELSE "none"]
    /\ UNCHANGED <<vars, requestVars, sweepVars, flipVars, opened, reviewBounds>>

-----------------------------------------------------------------------------
(* The workers *)

Reopenable_Onboarding == At({"onboarding"})
Reopenable == At({"under_review"})

\* bounceExpiredCOI: the SELECT, an UPDATE per location, and on with the loop.
SweepRead(p) ==
    /\ pc[p] = "reopen" /\ ~swept[p]
    /\ swept' = [swept EXCEPT ![p] = TRUE]
    /\ sweep' = [sweep EXCEPT ![p] = Reopenable]
    /\ UNCHANGED <<vars, locStatus, requestVars, flipVars, reevals, opened, reviewBounds>>

SweepWrite(p, l) ==
    /\ l \in sweep[p]
    /\ sweep' = [sweep EXCEPT ![p] = @ \ {l}]
    /\ locStatus' = [locStatus EXCEPT ![l] = "onboarding"]
    /\ UNCHANGED <<vars, requestVars, swept, flipVars, reevals, opened, reviewBounds>>

SweepEnd(p) ==
    /\ Reopen(p)
    /\ swept[p] /\ sweep[p] = {}
    /\ swept' = [swept EXCEPT ![p] = FALSE]
    /\ UNCHANGED <<locStatus, requestVars, sweep, flipVars, reevals, opened, reviewBounds>>

\* The pass throws or dies, and its sweep with it.
DropPass(p) ==
    /\ FailJob(p) \/ CrashPass(p)
    /\ swept' = [swept EXCEPT ![p] = FALSE]
    /\ sweep' = [sweep EXCEPT ![p] = {}]
    /\ UNCHANGED <<locStatus, requestVars, flipVars, reevals, opened, reviewBounds>>

\* Every other step of a pass, or of the vendor and the calendar, as it is.
PlainPassStep(p) ==
    /\ pc[p] # "reopen" /\ PassStep(p)
    /\ UNCHANGED reviewVars

VendorUpload(d) ==
    /\ opened
    /\ \E midnights \in 0..MaxArrival, withDate, later \in BOOLEAN :
         Upload(d, midnights, withDate, later)
    /\ UNCHANGED reviewVars

MidnightPasses(d) == Lapse(d) /\ UNCHANGED reviewVars

\* The notification worker claims the day-0 job and runs applyExpirationFlip:
\* superseded?, the satisfied locations, an UPDATE per location.
FlipStart(d) ==
    /\ FireDayZero(d)
    /\ flipping' = [flipping EXCEPT ![d] = "check"]
    /\ UNCHANGED <<locStatus, requestVars, sweepVars, flip, reevals, opened, reviewBounds>>

FlipCheck(d) ==
    /\ flipping[d] = "check"
    /\ flipping' = [flipping EXCEPT ![d] = IF supersededBy[d] = NoDoc THEN "select" ELSE "record"]
    /\ UNCHANGED <<vars, locStatus, requestVars, sweepVars, flip, reevals, opened, reviewBounds>>

Satisfied_NotApproved == At({"under_review"})
Satisfied == At({"approved", "under_review"})

FlipSelect(d) ==
    /\ flipping[d] = "select"
    /\ flip' = [flip EXCEPT ![d] = Satisfied]
    /\ flipping' = [flipping EXCEPT ![d] = IF Satisfied = {} THEN "record" ELSE "write"]
    /\ UNCHANGED <<vars, locStatus, requestVars, sweepVars, reevals, opened, reviewBounds>>

FlipWrite(d, l) ==
    /\ l \in flip[d]
    /\ locStatus' = [locStatus EXCEPT ![l] = "expired"]
    /\ flip' = [flip EXCEPT ![d] = @ \ {l}]
    /\ flipping' = [flipping EXCEPT ![d] = IF flip'[d] = {} THEN "record" ELSE "write"]
    /\ UNCHANGED <<vars, requestVars, sweepVars, reevals, opened, reviewBounds>>

DropFlip(d) ==
    /\ flipping' = [flipping EXCEPT ![d] = "no"]
    /\ flip' = [flip EXCEPT ![d] = {}]
    /\ UNCHANGED <<locStatus, requestVars, sweepVars, reevals, opened, reviewBounds>>

FlipRecord(d) ==
    /\ flipping[d] = "record"
    /\ SettleDayZero(d, "sent")
    /\ DropFlip(d)

\* A step of it throws: the job is 'failed', what is written stays written.
FlipFail(d) ==
    /\ flipping[d] # "no"
    /\ SettleDayZero(d, "failed")
    /\ DropFlip(d)

\* The pass dies, and the job stays 'sending' until a later pass puts it back.
CrashFlip(d) ==
    /\ flipping[d] # "no"
    /\ Dies
    /\ DropFlip(d)

ReclaimFlip(d) ==
    /\ flipping[d] = "no"
    /\ ReclaimDayZero(d)
    /\ UNCHANGED reviewVars

-----------------------------------------------------------------------------

FlipStep(d) ==
    \/ FlipStart(d) \/ FlipCheck(d) \/ FlipSelect(d)
    \/ \E l \in Locations : FlipWrite(d, l)
    \/ FlipRecord(d) \/ ReclaimFlip(d)

ReviewNext ==
    \/ OpenLink
    \/ \E d \in Docs : VendorUpload(d) \/ MidnightPasses(d)
    \/ \E d \in Docs : FlipStep(d) \/ FlipFail(d) \/ CrashFlip(d)
    \/ \E j \in Jobs : SubmitCheck(j) \/ SubmitFsm(j) \/ SubmitRefused(j) \/ SubmitInsert(j) \/ CrashSubmit(j)
    \/ \E l \in Locations, verdict \in Verdicts : DecideRead(l, verdict) \/ DecideWrite(l, verdict)
    \/ CorrectionRead \/ CorrectionFlagRead \/ CorrectionFlagWrite \/ CorrectionSkipFlag
    \/ \E l \in Locations : CorrectionWrite(l) \/ AddLocation(l)
    \/ ChangeRule
    \/ \E passes \in BOOLEAN : Reevaluate(passes)
    \/ \E p \in Passes : PlainPassStep(p) \/ DropPass(p) \/ SweepRead(p) \/ SweepEnd(p)
    \/ \E p \in Passes, l \in Locations : SweepWrite(p, l)

ReviewSpec == ReviewInit /\ [][ReviewNext]_allVars

\* The notification interval keeps firing, and a pass that lives runs the flip it
\* has begun to its end (NotificationWorker: EveryRowSettles).  The verification
\* interval keeps firing, and again after the stale window of a dead claim has run
\* out (a strong fairness: the window, once over, stays over), and every await of a
\* live pass settles.  Nothing obliges the vendor, the admin or a failure to act.
PassSettles(p) ==
    PlainPassStep(p) \/ SweepRead(p) \/ SweepEnd(p) \/ \E l \in Locations : SweepWrite(p, l)

PassReclaims(p) ==
    /\ \E stale \in SUBSET Jobs :
         /\ \A j \in Jobs : Orphaned(j) => j \in stale
         /\ StartPass(p, stale)
    /\ UNCHANGED reviewVars

ReviewFairness ==
    /\ WF_allVars(\E d \in Docs : FlipStep(d))
    /\ \A p \in Passes : WF_allVars(PassSettles(p)) /\ SF_allVars(PassReclaims(p))

ReviewFairSpec == ReviewSpec /\ ReviewFairness

-----------------------------------------------------------------------------
(* Properties *)

Quiet ==
    /\ AtRest
    /\ submitting = {} /\ deciding = {} /\ correcting = "no" /\ reevals = 0
    /\ \A d \in Docs : flipping[d] = "no"

\* A document the worker has read, the gate has let through, and that is current.
Vetted(d) == Live(d) /\ d \in extracted /\ d \notin everBounced

\* IMPLEMENTATION_BRIEF.md:54-55, Status_Vocabulary.md "Approved": an admin who
\* waits for the verification never leaves a location approved that no document
\* covers, whatever is uploaded, bounced, flagged or superseded afterwards.  The one
\* way round it: a submit request overtaken by the bounce of the documents it had
\* checked (submit/route.ts:49-69), while the gate had let none through.
ApprovedIsCovered ==
    At({"approved"}) # {} => overtaken \/ \E d \in Docs : Vetted(d)

\* Once all work is done, the admin is asked to review only a vendor with a current
\* document that the worker has read and the gate has let through: a bounce has
\* taken its locations back (worker.ts:168-181), if no submit was overtaken by it.
UnderReviewIsVetted ==
    Quiet /\ At({"under_review"}) # {} => overtaken \/ \E d \in Docs : Vetted(d)

\* renewal.ts:188-191: no location expires before the expiration date of some
\* document has passed in the tenant's own zone.
ExpiresAfterLapse ==
    [][\A l \in Locations : locStatus[l] # "expired" /\ locStatus'[l] = "expired" =>
         \E d \in dated : LocalMidnightPast(d)]_allVars

\* Renewal_and_Expiration_Chase.md:56: when the date of a current document passes,
\* the day-0 job takes every approved location out of "approved", however often the
\* worker dies on it, unless a renewal has superseded the document first, or a step
\* of the flip threw: that job is 'failed' and never tried again (worker.ts:105-107).
LapseExpires ==
    \A d \in Docs, l \in Locations :
      (dayZero[d] = "queued" /\ LocalMidnightPast(d) /\ locStatus[l] = "approved")
        ~> (locStatus[l] # "approved" \/ supersededBy[d] # NoDoc \/ dayZero[d] = "failed")

\* Status_Vocabulary.md:22, 37: Non-Compliant is a post-approval state, never that
\* of a location still in the pipeline or declined.
NonCompliantWasApproved ==
    [][\A l \in Locations : locStatus'[l] = "non_compliant" =>
         locStatus[l] \in {"approved", "non_compliant"}]_allVars
=============================================================================
