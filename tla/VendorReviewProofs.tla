------------------------- MODULE VendorReviewProofs -------------------------
(***************************************************************************)
(* No location expires before the expiration date of some document has     *)
(* passed in the tenant's zone, for every number of documents, locations,  *)
(* passes and requests, whatever crashes or fails; and the composition     *)
(* keeps the order of supersession.  The argument: a day-0 job exists only *)
(* for a dated document and is claimed only after its midnight; a flip in  *)
(* progress is that of a claimed job.  Whatever is proved of the document  *)
(* pipeline holds of the composition: its steps are steps of the pipeline, *)
(* but for the death of a submit request or of a flip.                     *)
(*                                                                         *)
(* An admin who waits for the verification approves no location that no    *)
(* document covers, and is left with nothing unvetted to review, unless a  *)
(* submit was overtaken by the bounce of what it had checked.  The         *)
(* argument: until a document has passed the gate, whatever is under review*)
(* keeps the worker busy, so that nobody decides; from then on there is    *)
(* always a document that the gate has let through.                        *)
(***************************************************************************)
EXTENDS VendorReview, DocumentPipelineProofs, FiniteSetTheorems

\* The steps of a pass that has a dated document in hand.
DatedSteps == {"withdraw", "ladder", "schedule", "dayZero"}

\* A day-0 job that the notification worker has claimed.
Claimed == {"sending", "sent", "failed"}

\* What the chase knows of the calendar.
DayInv ==
    /\ \A d \in dated : Uploaded(d)
    /\ \A d \in Docs : dayZero[d] \in {"queued"} \cup Claimed => d \in dated
    /\ \A d \in Docs : dayZero[d] \in Claimed => LocalMidnightPast(d)
    /\ \A p \in Passes : pc[p] \in DatedSteps => doc[p] \in dated

\* A flip in progress is that of a job being sent.
FlipInv ==
    /\ \A d \in Docs : flip[d] # {} => flipping[d] # "no"
    /\ \A d \in Docs : flipping[d] # "no" => dayZero[d] = "sending"

ReviewIInv == IInv /\ ReviewTypeOK /\ DayInv /\ FlipInv

-----------------------------------------------------------------------------
(* The pipeline's steps *)

\* A step that changes neither the calendar, nor the day-0 jobs, nor the hands of
\* a pass, and forgets no upload.
LEMMA DayAside ==
  ASSUME DayInv, TypeOK, UNCHANGED <<dated, expiry, dayZero, pc, doc>>,
         \A d \in Docs : Uploaded(d) => Uploaded(d)'
  PROVE  DayInv'
BY DEF DayInv, LocalMidnightPast, Claimed, TypeOK

\* A step in which a pass moves on, with a dated document where one is needed.
LEMMA DayOnward ==
  ASSUME DayInv, TypeOK, NEW p \in Passes, NEW step, NEW d, NEW e, Goto(p, step, d, e),
         step \in DatedSteps => d \in dated,
         UNCHANGED <<dated, expiry, dayZero>>,
         \A x \in Docs : Uploaded(x) => Uploaded(x)'
  PROVE  DayInv'
BY DEF DayInv, LocalMidnightPast, Claimed, TypeOK, Goto

LEMMA DayStep ==
  ASSUME IInv, DayInv, [Next]_vars
  PROVE  DayInv'
<1>0. TypeOK
  BY DEF IInv
<1> USE DEF docVars, chaseVars, passVars, history, bounds
<1>1. ASSUME NEW d \in Docs, NEW m \in 0..MaxArrival, NEW w \in BOOLEAN, NEW l \in BOOLEAN, Upload(d, m, w, l)
      PROVE DayInv'
  <2>1. d \notin dated /\ dayZero[d] \notin Claimed
    BY <1>1 DEF Upload, DayInv, Uploaded
  <2>2. \A x \in Docs \ {d} : expiry'[x] = expiry[x]
    BY <1>0, <1>1 DEF Upload, TypeOK
  <2>3. \A x \in Docs : Uploaded(x) => Uploaded(x)'
    BY <1>0, <1>1 DEF Upload, Uploaded, TypeOK
  <2>4. Uploaded(d)'
    BY <1>0, <1>1 DEF Upload, Uploaded, TypeOK
  <2>5. dated \subseteq dated' /\ dated' \subseteq dated \cup {d} /\ UNCHANGED <<dayZero, pc, doc>>
    BY <1>1 DEF Upload
  <2>6. QED
    BY <1>0, <2>1, <2>2, <2>3, <2>4, <2>5 DEF DayInv, LocalMidnightPast, Claimed, TypeOK
<1>2. ASSUME NEW d \in Docs, Lapse(d) PROVE DayInv'
  BY <1>0, <1>2 DEF Lapse, DayInv, LocalMidnightPast, Claimed, Uploaded, TypeOK
<1>3. ASSUME NEW d \in Docs, DayZeroJob(d) PROVE DayInv'
  <2>1. /\ UNCHANGED <<dated, expiry, pc, doc, state>>
        /\ \A e \in Docs \ {d} : dayZero'[e] = dayZero[e]
        /\ dayZero[d] = "sending" \/ (dayZero[d] = "queued" /\ LocalMidnightPast(d))
    BY <1>0, <1>3 DEF DayZeroJob, FireDayZero, ReclaimDayZero, SettleDayZero, DayZeroPast, TypeOK
  <2>2. QED
    BY <2>1 DEF DayInv, LocalMidnightPast, Claimed, Uploaded
<1>4. ASSUME NEW j \in Jobs, QueueJob(j) PROVE DayInv'
  BY <1>0, <1>4, DayAside DEF QueueJob, Uploaded
<1>5. CASE FlagRead
  BY <1>0, <1>5, DayAside DEF FlagRead, Uploaded
<1>6. CASE FlagWrite
  BY <1>0, <1>6, DayAside DEF FlagWrite, Uploaded, TypeOK
<1>7. ASSUME NEW p \in Passes, NEW r \in SUBSET Jobs, StartPass(p, r) PROVE DayInv'
  BY <1>0, <1>7 DEF StartPass, DayInv, LocalMidnightPast, Claimed, Uploaded, TypeOK, DatedSteps
<1>8. ASSUME NEW p \in Passes, NEW j \in Jobs, Claim(p, j) PROVE DayInv'
  <2>1. /\ pc' = pc \/ pc' = [pc EXCEPT ![p] = "select"]
        /\ UNCHANGED <<dated, expiry, dayZero, doc, state>>
    BY <1>8 DEF Claim
  <2>2. QED
    BY <1>0, <2>1 DEF DayInv, LocalMidnightPast, Claimed, Uploaded, TypeOK, DatedSteps
<1>9. ASSUME NEW p \in Passes, Select(p) PROVE DayInv'
  BY <1>0, <1>9 DEF Select, DayInv, LocalMidnightPast, Claimed, Uploaded, TypeOK, DatedSteps
<1>10. ASSUME NEW p \in Passes, Release(p, "done") \/ Release(p, "failed") PROVE DayInv'
  <2>1. Goto(p, "claim", NoDoc, NoDoc) /\ UNCHANGED <<dated, expiry, dayZero, state>>
    BY <1>10 DEF Release, Goto
  <2>2. QED
    BY <1>0, <2>1, DayOnward DEF DatedSteps, Uploaded
<1>11. ASSUME NEW p \in Passes, EndPass(p) PROVE DayInv'
  BY <1>0, <1>11 DEF EndPass, DayInv, LocalMidnightPast, Claimed, Uploaded, TypeOK, DatedSteps
<1>12. ASSUME NEW p \in Passes, NEW d \in Docs, Extract(p, d) PROVE DayInv'
  BY <1>0, <1>12, DayOnward DEF Extract, DatedSteps, Uploaded
<1>13. ASSUME NEW p \in Passes, Bounce(p) PROVE DayInv'
  <2>1. Goto(p, "reopen", doc[p], NoDoc) /\ UNCHANGED <<dated, expiry, dayZero>>
    BY <1>13 DEF Bounce
  <2>2. \A x \in Docs : Uploaded(x) => Uploaded(x)'
    BY <1>0, <1>13 DEF Bounce, Uploaded, TypeOK
  <2>3. QED
    BY <1>0, <2>1, <2>2, DayOnward DEF DatedSteps
<1>14. ASSUME NEW p \in Passes, Reopen(p) PROVE DayInv'
  BY <1>0, <1>14, DayOnward DEF Reopen, AfterBounce, Return, DatedSteps, Uploaded
<1>15. ASSUME NEW p \in Passes, FindPrior(p) PROVE DayInv'
  <2>1. UNCHANGED <<dated, expiry, dayZero, state>>
    BY <1>15 DEF FindPrior
  <2>2. CASE Return(p)
    BY <1>0, <2>1, <2>2, DayOnward DEF Return, DatedSteps, Uploaded
  <2>3. CASE doc[p] \in dated /\ Goto(p, "ladder", doc[p], NoDoc)
    BY <1>0, <2>1, <2>3, DayOnward DEF Uploaded
  <2>4. ASSUME NEW e \in Priors(doc[p]), Goto(p, "displace", doc[p], e) PROVE DayInv'
    BY <1>0, <2>1, <2>4, DayOnward DEF DatedSteps, Uploaded
  <2>5. QED
    BY <1>15, <2>2, <2>3, <2>4 DEF FindPrior
<1>16. ASSUME NEW p \in Passes, Displace(p) PROVE DayInv'
  <2>1. UNCHANGED <<dated, expiry, dayZero, state>>
    BY <1>16 DEF Displace
  <2>2. CASE doc[p] \in dated
    BY <1>0, <1>16, <2>1, <2>2, DayOnward DEF Displace, Uploaded
  <2>3. CASE doc[p] \notin dated
    BY <1>0, <1>16, <2>1, <2>3, DayOnward DEF Displace, Return, DatedSteps, Uploaded
  <2>4. QED
    BY <2>2, <2>3
<1>17. ASSUME NEW p \in Passes, Withdraw(p) PROVE DayInv'
  <2>1. /\ doc[p] \in dated /\ Goto(p, "ladder", doc[p], NoDoc)
        /\ UNCHANGED <<dated, expiry, state>>
        /\ dayZero' = [dayZero EXCEPT ![prior[p]] = IF @ = "queued" THEN "superseded" ELSE @]
    BY <1>17 DEF Withdraw, DayInv, DatedSteps
  <2>2. \A d \in Docs : dayZero'[d] = dayZero[d] \/ (dayZero[d] = "queued" /\ dayZero'[d] = "superseded")
    BY <1>0, <2>1 DEF TypeOK
  <2>3. QED
    BY <1>0, <2>1, <2>2 DEF Goto, DayInv, LocalMidnightPast, Claimed, Uploaded, TypeOK
<1>18. ASSUME NEW p \in Passes, CheckLadder(p) PROVE DayInv'
  <2>1. doc[p] \in dated /\ UNCHANGED <<dated, expiry, dayZero, state>>
    BY <1>18 DEF CheckLadder, DayInv, DatedSteps
  <2>2. Return(p) \/ Goto(p, "schedule", doc[p], NoDoc)
    BY <1>18 DEF CheckLadder
  <2>3. QED
    BY <1>0, <2>1, <2>2, DayOnward DEF Return, DatedSteps, Uploaded
<1>19. ASSUME NEW p \in Passes, ScheduleLadder(p) PROVE DayInv'
  BY <1>0, <1>19, DayOnward DEF ScheduleLadder, DayInv, DatedSteps, Uploaded
<1>20. ASSUME NEW p \in Passes, ScheduleDayZero(p) PROVE DayInv'
  <2>1. /\ doc[p] \in dated /\ Return(p) /\ UNCHANGED <<dated, expiry, state>>
        /\ dayZero' = [dayZero EXCEPT ![doc[p]] = IF DayZeroPast(doc[p]) THEN @ ELSE "queued"]
    BY <1>20 DEF ScheduleDayZero, DayInv, DatedSteps
  <2>2. \A d \in Docs : dayZero'[d] = dayZero[d] \/
                        (d \in dated /\ dayZero'[d] = "queued" /\ ~LocalMidnightPast(d))
    BY <1>0, <2>1 DEF TypeOK, DayZeroPast
  <2>3. QED
    BY <1>0, <2>1, <2>2 DEF Return, Goto, DayInv, LocalMidnightPast, Claimed, Uploaded, TypeOK, DatedSteps
<1>21. ASSUME NEW p \in Passes, CrashPass(p) PROVE DayInv'
  BY <1>0, <1>21 DEF CrashPass, DayInv, LocalMidnightPast, Claimed, Uploaded, TypeOK, DatedSteps
<1>22. CASE UNCHANGED vars
  BY <1>0, <1>22, DayAside DEF vars, Uploaded
<1>23. QED
  BY <1>1, <1>2, <1>3, <1>4, <1>5, <1>6, <1>7, <1>8, <1>9, <1>10, <1>11, <1>12, <1>13,
     <1>14, <1>15, <1>16, <1>17, <1>18, <1>19, <1>20, <1>21, <1>22
     DEF Next, PassStep, FinishJob, FailJob

\* Only the notification worker touches a job it has claimed: a day-0 job is
\* withdrawn while it is queued, and scheduled before its midnight.
LEMMA StaysSending ==
  ASSUME TypeOK, DayInv,
         \/ UNCHANGED dayZero
         \/ \E p \in Passes : PassStep(p) \/ FailJob(p) \/ CrashPass(p),
         NEW d \in Docs, dayZero[d] = "sending"
  PROVE  dayZero'[d] = "sending"
<1>1. ASSUME NEW p \in Passes, Withdraw(p) PROVE dayZero'[d] = "sending"
  BY <1>1 DEF Withdraw, TypeOK
<1>2. ASSUME NEW p \in Passes, ScheduleDayZero(p) PROVE dayZero'[d] = "sending"
  <2>1. LocalMidnightPast(d)
    BY DEF DayInv, Claimed
  <2>2. QED
    BY <1>2, <2>1 DEF ScheduleDayZero, DayZeroPast, TypeOK
<1>3. QED
  BY <1>1, <1>2
     DEF PassStep, StartPass, Claim, Select, FinishJob, FailJob, Release, EndPass, CrashPass, Extract,
         Bounce, Reopen, FindPrior, Displace, CheckLadder, ScheduleLadder, chaseVars

-----------------------------------------------------------------------------
(* The composition *)

\* What a step of the composition does to the pipeline: one of its own steps, or
\* none, or a death, which only counts.
LEMMA PipelineView ==
  ASSUME [ReviewNext]_allVars
  PROVE  [Next]_vars \/ Dies
<1> USE DEF reviewVars, requestVars, submitVars, adminVars, sweepVars, flipVars, reviewBounds
<1>1. ASSUME NEW d \in Docs, VendorUpload(d) PROVE Next
  BY <1>1 DEF VendorUpload, Next
<1>2. ASSUME NEW d \in Docs, MidnightPasses(d) \/ FlipStep(d) \/ FlipFail(d) PROVE [Next]_vars
  BY <1>2 DEF MidnightPasses, FlipStep, FlipStart, FlipCheck, FlipSelect, FlipWrite, FlipRecord, FlipFail,
     ReclaimFlip, DayZeroJob, Next
<1>3. ASSUME NEW j \in Jobs, SubmitCheck(j) \/ SubmitFsm(j) \/ SubmitRefused(j) \/ SubmitInsert(j)
      PROVE  [Next]_vars
  BY <1>3 DEF SubmitCheck, SubmitFsm, SubmitRefused, SubmitInsert, Next
<1>4. ASSUME NEW p \in Passes, PlainPassStep(p) \/ DropPass(p) \/ SweepRead(p) \/ SweepEnd(p) PROVE [Next]_vars
  BY <1>4 DEF PlainPassStep, DropPass, SweepRead, SweepEnd, PassStep, Next
<1>5. ASSUME CorrectionFlagRead \/ CorrectionFlagWrite PROVE Next
  BY <1>5 DEF CorrectionFlagRead, CorrectionFlagWrite, Next
<1>6. ASSUME \/ OpenLink \/ CorrectionRead \/ CorrectionSkipFlag \/ ChangeRule \/ UNCHANGED allVars
             \/ \E l \in Locations, v \in Verdicts : DecideRead(l, v) \/ DecideWrite(l, v)
             \/ \E l \in Locations : CorrectionWrite(l) \/ AddLocation(l)
             \/ \E b \in BOOLEAN : Reevaluate(b)
             \/ \E p \in Passes, l \in Locations : SweepWrite(p, l)
      PROVE  UNCHANGED vars
  BY <1>6 DEF allVars, OpenLink, DecideRead, DecideWrite, CorrectionRead, CorrectionWrite,
     CorrectionSkipFlag, AddLocation, ChangeRule, Reevaluate, SweepWrite
<1>7. ASSUME (\E j \in Jobs : CrashSubmit(j)) \/ (\E d \in Docs : CrashFlip(d)) PROVE Dies
  BY <1>7 DEF CrashSubmit, CrashFlip
<1>8. QED
  BY <1>1, <1>2, <1>3, <1>4, <1>5, <1>6, <1>7 DEF ReviewNext

LEMMA PipelineStep ==
  ASSUME IInv, DayInv, [ReviewNext]_allVars
  PROVE  IInv' /\ DayInv'
<1>1. CASE [Next]_vars
  BY <1>1, IInvStep, DayStep
<1>2. CASE Dies
  <2>1. TypeOK'
    BY <1>2, PipelineAssumption
       DEF Dies, IInv, TypeOK, docVars, chaseVars, passVars, history
  <2>2. UNCHANGED <<state, uploadedAt, supersededBy, pc, todo, doc, prior, dated, expiry, dayZero>>
    BY <1>2 DEF Dies, docVars, chaseVars, passVars
  <2>3. QED
    BY <2>1, <2>2, Aside, DayAside DEF IInv, Uploaded
<1>3. QED
  BY <1>1, <1>2, PipelineView

\* A flip begins with the claim of the day-0 job, and ends before the job is settled
\* or another claims it.
LEMMA FlipInvStep ==
  ASSUME ReviewIInv, [ReviewNext]_allVars
  PROVE  FlipInv'
<1>0. TypeOK /\ ReviewTypeOK /\ DayInv /\ FlipInv
  BY DEF ReviewIInv, IInv
<1> USE DEF vars, docVars, chaseVars, passVars, history, reviewVars, requestVars, sweepVars, flipVars, reviewBounds
<1>1. ASSUME NEW d \in Docs, FlipStart(d) PROVE FlipInv'
  <2>1. dayZero'[d] = "sending" /\ flipping'[d] = "check"
    BY <1>0, <1>1 DEF FlipStart, FireDayZero, TypeOK, ReviewTypeOK
  <2>2. \A e \in Docs \ {d} : flipping'[e] = flipping[e] /\ flip'[e] = flip[e] /\ dayZero'[e] = dayZero[e]
    BY <1>0, <1>1 DEF FlipStart, FireDayZero, TypeOK, ReviewTypeOK
  <2>3. QED
    BY <1>0, <2>1, <2>2 DEF FlipInv
<1>2. ASSUME NEW d \in Docs, FlipCheck(d) \/ FlipSelect(d) \/ \E l \in Locations : FlipWrite(d, l) PROVE FlipInv'
  <2>1. flipping[d] # "no" /\ flipping'[d] # "no" /\ dayZero' = dayZero
    BY <1>0, <1>2 DEF FlipCheck, FlipSelect, FlipWrite, FlipInv, ReviewTypeOK
  <2>2. \A e \in Docs \ {d} : flipping'[e] = flipping[e] /\ flip'[e] = flip[e]
    BY <1>0, <1>2 DEF FlipCheck, FlipSelect, FlipWrite, ReviewTypeOK
  <2>3. QED
    BY <1>0, <2>1, <2>2 DEF FlipInv
<1>3. ASSUME NEW d \in Docs, FlipRecord(d) \/ FlipFail(d) \/ CrashFlip(d) \/ ReclaimFlip(d) PROVE FlipInv'
  <2>1. flipping'[d] = "no" /\ flip'[d] = {}
    BY <1>0, <1>3 DEF FlipRecord, FlipFail, CrashFlip, ReclaimFlip, DropFlip, FlipInv, ReviewTypeOK
  <2>2. \A e \in Docs \ {d} : flipping'[e] = flipping[e] /\ flip'[e] = flip[e] /\ dayZero'[e] = dayZero[e]
    BY <1>0, <1>3 DEF FlipRecord, FlipFail, CrashFlip, ReclaimFlip, DropFlip, SettleDayZero, ReclaimDayZero,
       Dies, TypeOK, ReviewTypeOK
  <2>3. QED
    BY <1>0, <2>1, <2>2 DEF FlipInv
<1>4. ASSUME UNCHANGED flipVars,
             \/ UNCHANGED dayZero
             \/ \E p \in Passes : PassStep(p) \/ FailJob(p) \/ CrashPass(p)
      PROVE  FlipInv'
  BY <1>0, <1>4, StaysSending DEF FlipInv
<1>5. ASSUME NEW p \in Passes, PlainPassStep(p) \/ DropPass(p) \/ SweepRead(p) \/ SweepEnd(p) PROVE FlipInv'
  <2>1. UNCHANGED flipVars
    BY <1>5 DEF PlainPassStep, DropPass, SweepRead, SweepEnd
  <2>2. UNCHANGED dayZero \/ PassStep(p) \/ FailJob(p) \/ CrashPass(p)
    BY <1>5 DEF PlainPassStep, DropPass, SweepRead, SweepEnd, PassStep
  <2>3. QED
    BY <1>4, <2>1, <2>2
<1>6. ASSUME NEW d \in Docs, VendorUpload(d) \/ MidnightPasses(d) PROVE UNCHANGED <<flipVars, dayZero>>
  BY <1>6 DEF VendorUpload, Upload, MidnightPasses, Lapse
<1>7. ASSUME NEW j \in Jobs,
             SubmitCheck(j) \/ SubmitFsm(j) \/ SubmitRefused(j) \/ SubmitInsert(j) \/ CrashSubmit(j)
      PROVE  UNCHANGED <<flipVars, dayZero>>
  BY <1>7 DEF SubmitCheck, SubmitFsm, SubmitRefused, SubmitInsert, QueueJob, CrashSubmit, Dies
<1>8. ASSUME \/ OpenLink \/ CorrectionRead \/ CorrectionFlagRead \/ CorrectionFlagWrite \/ CorrectionSkipFlag
             \/ ChangeRule \/ UNCHANGED allVars
             \/ \E l \in Locations, v \in Verdicts : DecideRead(l, v) \/ DecideWrite(l, v)
             \/ \E l \in Locations : CorrectionWrite(l) \/ AddLocation(l)
             \/ \E b \in BOOLEAN : Reevaluate(b)
             \/ \E p \in Passes, l \in Locations : SweepWrite(p, l)
      PROVE  UNCHANGED <<flipVars, dayZero>>
  BY <1>8 DEF allVars, OpenLink, DecideRead, DecideWrite, CorrectionRead, CorrectionWrite, CorrectionFlagRead,
     FlagRead, CorrectionFlagWrite, FlagWrite, CorrectionSkipFlag, AddLocation, ChangeRule, Reevaluate, SweepWrite
<1>9. QED
  BY <1>1, <1>2, <1>3, <1>4, <1>5, <1>6, <1>7, <1>8 DEF ReviewNext, FlipStep

\* A tenant has finitely many locations, so the approved ones can be counted.
LEMMA ApprovedCount == Cardinality(At({"approved"})) \in Nat
<1>1. IsFiniteSet(Locations)
  BY ReviewAssumption
<1>2. At({"approved"}) \in SUBSET Locations
  BY DEF At
<1>3. IsFiniteSet(At({"approved"}))
  BY <1>1, <1>2, FS_Subset
<1>4. QED
  BY <1>3, FS_CardinalityType

LEMMA ReviewTypeStep ==
  ASSUME ReviewTypeOK, TypeOK', [ReviewNext]_allVars
  PROVE  ReviewTypeOK'
<1> USE ReviewAssumption
    DEF ReviewTypeOK, VendorStatus, Verdicts, At, Assigned, reviewVars, requestVars, submitVars, adminVars, sweepVars, flipVars,
        reviewBounds
<1>1. CASE OpenLink
  BY <1>1 DEF OpenLink
<1>2. ASSUME NEW d \in Docs, VendorUpload(d) PROVE ReviewTypeOK'
  BY <1>2 DEF VendorUpload
<1>3. ASSUME NEW d \in Docs, MidnightPasses(d) PROVE ReviewTypeOK'
  BY <1>3 DEF MidnightPasses
<1>4. ASSUME NEW d \in Docs, FlipStart(d) PROVE ReviewTypeOK'
  BY <1>4 DEF FlipStart
<1>5. ASSUME NEW d \in Docs, FlipCheck(d) PROVE ReviewTypeOK'
  BY <1>5 DEF FlipCheck
<1>6. ASSUME NEW d \in Docs, FlipSelect(d) PROVE ReviewTypeOK'
  BY <1>6 DEF FlipSelect, Satisfied
<1>7. ASSUME NEW d \in Docs, NEW l \in Locations, FlipWrite(d, l) PROVE ReviewTypeOK'
  BY <1>7 DEF FlipWrite
<1>8. ASSUME NEW j \in Jobs, SubmitFsm(j) PROVE ReviewTypeOK'
  <2>1. overtaken' \in BOOLEAN
    BY <1>8 DEF SubmitFsm, Submittable
  <2>2. QED
    BY <1>8, <2>1 DEF SubmitFsm
<1>9. ASSUME NEW j \in Jobs, SubmitInsert(j) PROVE ReviewTypeOK'
  BY <1>9 DEF SubmitInsert
<1>10. ASSUME NEW j \in Jobs, CrashSubmit(j) PROVE ReviewTypeOK'
  BY <1>10 DEF CrashSubmit
<1>25. ASSUME NEW j \in Jobs, SubmitCheck(j) \/ SubmitRefused(j) PROVE ReviewTypeOK'
  BY <1>25 DEF SubmitCheck, SubmitRefused
<1>26. ASSUME NEW d \in Docs, FlipRecord(d) \/ FlipFail(d) \/ CrashFlip(d) PROVE ReviewTypeOK'
  BY <1>26 DEF FlipRecord, FlipFail, CrashFlip, DropFlip
<1>27. ASSUME NEW d \in Docs, ReclaimFlip(d) PROVE ReviewTypeOK'
  BY <1>27 DEF ReclaimFlip
<1>11. ASSUME NEW l \in Locations, NEW v \in Verdicts, DecideRead(l, v) PROVE ReviewTypeOK'
  BY <1>11 DEF DecideRead, MayDecide
<1>12. ASSUME NEW l \in Locations, NEW v \in Verdicts, DecideWrite(l, v) PROVE ReviewTypeOK'
  BY <1>12 DEF DecideWrite
<1>13. CASE CorrectionRead
  BY <1>13 DEF CorrectionRead, MayDecide
<1>14. CASE CorrectionFlagRead \/ CorrectionFlagWrite \/ CorrectionSkipFlag
  BY <1>14 DEF CorrectionFlagRead, CorrectionFlagWrite, CorrectionSkipFlag
<1>15. ASSUME NEW l \in Locations, CorrectionWrite(l) PROVE ReviewTypeOK'
  BY <1>15 DEF CorrectionWrite
<1>16. ASSUME NEW l \in Locations, AddLocation(l) PROVE ReviewTypeOK'
  BY <1>16 DEF AddLocation
<1>17. CASE ChangeRule
  <2>1. Cardinality(At({"approved"})) \in Nat
    BY ApprovedCount
  <2>2. QED
    BY <1>17, <2>1 DEF ChangeRule
<1>18. ASSUME NEW b \in BOOLEAN, Reevaluate(b) PROVE ReviewTypeOK'
  BY <1>18 DEF Reevaluate
<1>19. ASSUME NEW p \in Passes, PlainPassStep(p) PROVE ReviewTypeOK'
  BY <1>19 DEF PlainPassStep
<1>20. ASSUME NEW p \in Passes, DropPass(p) PROVE ReviewTypeOK'
  BY <1>20 DEF DropPass
<1>21. ASSUME NEW p \in Passes, SweepRead(p) PROVE ReviewTypeOK'
  <2>1. Reopenable \in SUBSET Locations
    BY DEF Reopenable
  <2>2. swept' \in [Passes -> BOOLEAN] /\ sweep' \in [Passes -> SUBSET Locations]
    BY <1>21, <2>1 DEF SweepRead
  <2>3. UNCHANGED <<locStatus, requestVars, flipVars, reevals, opened, reviewBounds>>
    BY <1>21 DEF SweepRead
  <2>4. QED
    BY <2>2, <2>3
<1>22. ASSUME NEW p \in Passes, SweepEnd(p) PROVE ReviewTypeOK'
  <2>1. swept' \in [Passes -> BOOLEAN]
    BY <1>22 DEF SweepEnd
  <2>2. UNCHANGED <<locStatus, requestVars, sweep, flipVars, reevals, opened, reviewBounds>>
    BY <1>22 DEF SweepEnd
  <2>3. QED
    BY <2>1, <2>2
<1>23. ASSUME NEW p \in Passes, NEW l \in Locations, SweepWrite(p, l) PROVE ReviewTypeOK'
  BY <1>23 DEF SweepWrite
<1>24. CASE UNCHANGED allVars
  BY <1>24 DEF allVars
<1>28. QED
  BY <1>1, <1>2, <1>3, <1>4, <1>5, <1>6, <1>7, <1>8, <1>9, <1>10, <1>11, <1>12, <1>13, <1>14, <1>15,
     <1>16, <1>17, <1>18, <1>19, <1>20, <1>21, <1>22, <1>23, <1>24, <1>25, <1>26, <1>27 DEF ReviewNext, FlipStep

LEMMA InitReviewIInv == ReviewInit => ReviewIInv
<1> SUFFICES ASSUME ReviewInit PROVE ReviewIInv
  OBVIOUS
<1>1. IInv /\ Init
  BY InitIInv DEF ReviewInit
<1>2. ReviewTypeOK
  <2>1. locStatus \in [Locations -> VendorStatus \cup {"none"}]
    BY DEF ReviewInit, VendorStatus
  <2>2. swept \in [Passes -> BOOLEAN]
    BY DEF ReviewInit
  <2>3. /\ sweep \in [Passes -> SUBSET Locations] /\ flip \in [Docs -> SUBSET Locations]
        /\ flipping \in [Docs -> {"no", "check", "select", "write", "record"}]
    BY DEF ReviewInit
  <2>4. requests \in 0..MaxRequests /\ added \in 0..MaxAdded /\ changes \in 0..MaxChanges /\ reevals \in Nat
    BY ReviewAssumption DEF ReviewInit
  <2>5. QED
    BY <1>1, <2>1, <2>2, <2>3, <2>4 DEF ReviewInit, ReviewTypeOK, IInv
<1>3. DayInv /\ FlipInv
  BY <1>1 DEF ReviewInit, Init, DayInv, FlipInv, DatedSteps, Claimed
<1>4. QED
  BY <1>1, <1>2, <1>3 DEF ReviewIInv

LEMMA ReviewIInvStep == ReviewIInv /\ [ReviewNext]_allVars => ReviewIInv'
<1> SUFFICES ASSUME ReviewIInv, [ReviewNext]_allVars PROVE ReviewIInv'
  OBVIOUS
<1>1. IInv' /\ DayInv'
  BY PipelineStep DEF ReviewIInv
<1>2. ReviewTypeOK'
  BY <1>1, ReviewTypeStep DEF ReviewIInv, IInv
<1>3. FlipInv'
  BY FlipInvStep
<1>4. QED
  BY <1>1, <1>2, <1>3 DEF ReviewIInv

\* Only the write of a flip expires a location, and its document has lapsed.
LEMMA OnlyFlipsExpire ==
  ASSUME ReviewIInv, [ReviewNext]_allVars,
         NEW l \in Locations, locStatus[l] # "expired", locStatus'[l] = "expired"
  PROVE  \E d \in dated : LocalMidnightPast(d)
<1> USE DEF reviewVars, requestVars, submitVars, adminVars, sweepVars, flipVars, reviewBounds, ReviewIInv, ReviewTypeOK, VendorStatus
<1>1. ASSUME NEW d \in Docs, NEW k \in Locations, FlipWrite(d, k) PROVE \E e \in dated : LocalMidnightPast(e)
  BY <1>1 DEF FlipWrite, FlipInv, DayInv, Claimed
<1>2. ASSUME NEW k \in Locations, NEW v \in Verdicts, DecideWrite(k, v) PROVE FALSE
  BY <1>2 DEF DecideWrite, Verdicts
<1>3. ASSUME NEW k \in Locations, CorrectionWrite(k) \/ AddLocation(k) \/ (\E p \in Passes : SweepWrite(p, k))
      PROVE FALSE
  BY <1>3 DEF CorrectionWrite, AddLocation, SweepWrite
<1>4. ASSUME OpenLink \/ (\E b \in BOOLEAN : Reevaluate(b)) \/ (\E j \in Jobs : SubmitFsm(j)) PROVE FALSE
  BY <1>4 DEF OpenLink, Reevaluate, SubmitFsm
<1>5. CASE UNCHANGED locStatus
  BY <1>5
<1>6. QED
  BY <1>1, <1>2, <1>3, <1>4, <1>5
     DEF ReviewNext, allVars, VendorUpload, MidnightPasses, FlipStep, FlipStart, FlipCheck, FlipSelect,
         FlipRecord, FlipFail, CrashFlip, ReclaimFlip, DropFlip, SubmitCheck, SubmitRefused, SubmitInsert, CrashSubmit, DecideRead, CorrectionRead, CorrectionFlagRead, CorrectionFlagWrite,
         CorrectionSkipFlag, ChangeRule, PlainPassStep, DropPass, SweepRead, SweepEnd

-----------------------------------------------------------------------------
(* Theorems *)

\* Every reachable state of the composition has the declared types.
THEOREM ReviewTypeCorrect == ReviewSpec => []ReviewTypeOK
<1>1. ReviewIInv => ReviewTypeOK
  BY DEF ReviewIInv
<1>2. QED
  BY <1>1, InitReviewIInv, ReviewIInvStep, PTL DEF ReviewSpec

\* Decisions, sweeps, flips and crashing submits do not disturb the documents:
\* supersession still leads to a strictly newer upload (renewal.ts:250-253).
THEOREM ReviewKeepsSupersession == ReviewSpec => []SupersededByNewer
<1>1. ReviewIInv => SupersededByNewer
  BY DEF ReviewIInv, IInv
<1>2. QED
  BY <1>1, InitReviewIInv, ReviewIInvStep, PTL DEF ReviewSpec

\* No location expires before the expiration date of some document has passed in
\* the tenant's own zone (renewal.ts:188-191, 356-367).
THEOREM ExpiresAfterLapseHolds == ReviewSpec => ExpiresAfterLapse
<1>1. ReviewIInv /\ [ReviewNext]_allVars =>
        [\A l \in Locations : locStatus[l] # "expired" /\ locStatus'[l] = "expired" =>
           \E d \in dated : LocalMidnightPast(d)]_allVars
  BY OnlyFlipsExpire
<1>2. QED
  BY <1>1, InitReviewIInv, ReviewIInvStep, PTL DEF ReviewSpec, ExpiresAfterLapse

\* What the locations go through leaves the documents alone: as long as no submit
\* request and no flip dies, which counts a crash the pipeline does not know, the
\* composition does to the documents and to the worker only what the pipeline does,
\* so that what is proved of it holds here.
THEOREM ReviewImplementsPipeline == MaxCrashes = 0 => (ReviewSpec => Spec)
<1> SUFFICES ASSUME MaxCrashes = 0 PROVE ReviewSpec => Spec
  OBVIOUS
<1>1. ReviewInit => Init
  BY DEF ReviewInit
<1>2. ReviewIInv /\ [ReviewNext]_allVars => [Next]_vars
  <2>1. ReviewIInv => ~Dies
    BY DEF Dies, ReviewIInv, IInv, TypeOK
  <2>2. QED
    BY <2>1, PipelineView
<1>3. QED
  BY <1>1, <1>2, InitReviewIInv, ReviewIInvStep, PTL DEF ReviewSpec, Spec

\* worker.ts:111-113 at the level of the vendor: whatever the admin decides, flags or
\* sends back, whatever expires, fails or dies, a submit request included, a vendor
\* that has renewed keeps a current document under a worker of one pass at a time.
THEOREM ReviewNeverLeftWithout == OnePass => (ReviewSpec => []NeverLeftWithout)
<1> SUFFICES ASSUME OnePass PROVE ReviewSpec => []NeverLeftWithout
  OBVIOUS
<1>1. ReviewInit => KeptInv
  BY InitKept DEF ReviewInit
<1>2. KeptInv /\ ReviewIInv /\ [ReviewNext]_allVars => KeptInv'
  <2> SUFFICES ASSUME KeptInv, ReviewIInv, [ReviewNext]_allVars PROVE KeptInv'
    OBVIOUS
  <2>1. CASE [Next]_vars
    BY <2>1, KeptStep
  <2>2. CASE Dies
    <3>1. IInv'
      BY PipelineStep DEF ReviewIInv
    <3>2. UNCHANGED <<state, uploadedAt, supersededBy, extracted, dayZero, pc, todo, doc, everBounced>>
      BY <2>2 DEF Dies, docVars, chaseVars, passVars, history
    <3>3. OnceInv'
      BY <3>2 DEF KeptInv, OnceInv, Current, Uploaded
    <3>4. TopInv'
      BY <3>2 DEF KeptInv, TopInv, TopKept, Top, Kept, Current
    <3>5. QED
      BY <3>1, <3>3, <3>4 DEF KeptInv
  <2>3. QED
    BY <2>1, <2>2, PipelineView
<1>3. QED
  BY <1>1, <1>2, InitReviewIInv, ReviewIInvStep, KeptOne, PTL DEF ReviewSpec

-----------------------------------------------------------------------------
(* An admin who waits *)

\* The admin waits for the worker, nothing fails, the worker runs one pass at a time,
\* and the vendor is added to no further location.
Patient == AdminWaits /\ OnePass /\ NoFaults /\ MaxAdded = 0

\* A pass at work holds a job; a sweep is that of a pass that has bounced a document.
WorkInv ==
    /\ \A p \in Passes : pc[p] \notin {"idle", "claim"} =>
         job[p] \in Jobs /\ jobStatus[job[p]] = "processing"
    /\ \A p \in Passes : todo[p] # {} => pc[p] \notin {"idle", "claim", "select"}
    /\ \A p \in Passes : swept[p] \/ sweep[p] # {} => pc[p] = "reopen"
    /\ \A d \in Docs : state[d] = "active" => d \notin everBounced

\* A document that the worker is still to read, or has in hand, or has bounced and
\* whose locations it is taking back.
Awaited(d) ==
    /\ Pending(d)
    /\ \/ submitting # {}
       \/ \E j \in Jobs : jobStatus[j] = "queued"
       \/ \E p \in Passes : pc[p] = "select" \/ d \in todo[p]
Sweeping(p) == pc[p] = "reopen" /\ (~swept[p] \/ At({"under_review"}) \subseteq sweep[p])
WorkAhead ==
    \/ \E d \in Docs : Awaited(d)
    \/ \E p \in Passes : pc[p] = "gate" \/ Sweeping(p)

\* Before a document has passed the gate nobody has decided anything, and what is
\* under review keeps the worker busy, unless a submit has been overtaken.
Undecided ==
    /\ deciding = {} /\ correcting = "no" /\ flagging = NoDoc /\ reevals = 0
    /\ \A l \in Locations : locStatus[l] \in {"none", "invited_pending", "onboarding", "under_review"}
    /\ At({"under_review"}) # {} => WorkAhead
CalmInv == overtaken \/ TopKept \/ Undecided

PatientInv == ReviewIInv /\ KeptInv /\ WorkInv /\ CalmInv

LEMMA InitPatient == ReviewInit => PatientInv
<1> SUFFICES ASSUME ReviewInit PROVE PatientInv
  OBVIOUS
<1>1. ReviewIInv /\ KeptInv
  BY InitReviewIInv, InitKept DEF ReviewInit
<1>2. WorkInv
  BY DEF ReviewInit, Init, WorkInv
<1>3. Undecided
  BY DEF ReviewInit, Init, Undecided, At
<1>4. QED
  BY <1>1, <1>2, <1>3 DEF PatientInv, CalmInv

\* Nobody dies, so every step is the pipeline's own or none of its.
LEMMA PatientView ==
  ASSUME Patient, ReviewIInv, [ReviewNext]_allVars
  PROVE  [Next]_vars /\ ~Dies
<1>1. ~Dies
  BY DEF Dies, Patient, NoFaults, ReviewIInv, IInv, TypeOK
<1>2. QED
  BY <1>1, PipelineView

LEMMA WorkStep ==
  ASSUME Patient, ReviewIInv, KeptInv, WorkInv, [ReviewNext]_allVars
  PROVE  WorkInv'
<1>0. TypeOK /\ HandInv /\ ReviewTypeOK
  BY DEF ReviewIInv, IInv
<1> USE DEF docVars, chaseVars, passVars, history, bounds, reviewVars, requestVars, submitVars, adminVars, sweepVars, flipVars, reviewBounds
<1>1. ASSUME NEW d \in Docs, VendorUpload(d) PROVE WorkInv'
  <2>1. PICK m \in 0..MaxArrival, w \in BOOLEAN, l \in BOOLEAN : Upload(d, m, w, l)
    BY <1>1 DEF VendorUpload
  <2>2. d \notin everBounced
    BY <2>1 DEF Upload, KeptInv, OnceInv, Uploaded
  <2>3. UNCHANGED <<pc, job, jobStatus, todo, swept, sweep, everBounced>>
    BY <1>1, <2>1 DEF VendorUpload, Upload
  <2>4. \A e \in Docs \ {d} : state'[e] = state[e]
    BY <1>0, <2>1 DEF Upload, TypeOK
  <2>5. QED
    BY <2>2, <2>3, <2>4 DEF WorkInv
<1>2. CASE CorrectionFlagWrite
  <2>1. UNCHANGED <<pc, job, jobStatus, todo, swept, sweep, everBounced>>
    BY <1>2 DEF CorrectionFlagWrite, FlagWrite
  <2>2. \A e \in Docs : state'[e] = "active" => state[e] = "active"
    BY <1>0, <1>2 DEF CorrectionFlagWrite, FlagWrite, TypeOK
  <2>3. QED
    BY <2>1, <2>2 DEF WorkInv
<1>3. ASSUME NEW j \in Jobs, SubmitInsert(j) PROVE WorkInv'
  <2>1. /\ UNCHANGED <<pc, job, todo, swept, sweep, everBounced, state>>
        /\ jobStatus[j] = "absent" /\ \A k \in Jobs \ {j} : jobStatus'[k] = jobStatus[k]
    BY <1>0, <1>3 DEF SubmitInsert, QueueJob, TypeOK
  <2>2. QED
    BY <2>1 DEF WorkInv
<1>4. CASE UNCHANGED <<pc, job, jobStatus, todo, swept, sweep, everBounced, state>>
  BY <1>4 DEF WorkInv
<1>5. ASSUME NEW p \in Passes, NEW r \in SUBSET Jobs, StartPass(p, r), UNCHANGED reviewVars PROVE WorkInv'
  <2>1. /\ UNCHANGED <<job, todo, swept, sweep, everBounced, state>> /\ pc[p] = "idle"
        /\ \A q \in Passes : q = p /\ pc'[q] = "claim"
    BY <1>0, <1>5 DEF StartPass, TypeOK, Patient, OnePass
  <2>2. QED
    BY <2>1 DEF WorkInv
<1>6. ASSUME NEW p \in Passes, NEW j \in Jobs, Claim(p, j), UNCHANGED reviewVars PROVE WorkInv'
  <2>1. CASE jobStatus[j] = "queued"
    <3>1. /\ UNCHANGED <<todo, swept, sweep, everBounced, state>> /\ pc[p] = "claim"
          /\ \A q \in Passes : q = p
          /\ pc'[p] = "select" /\ job'[p] = j /\ jobStatus'[j] = "processing"
      BY <1>0, <1>6, <2>1 DEF Claim, TypeOK, Patient, OnePass
    <3>2. QED
      BY <3>1 DEF WorkInv
  <2>2. CASE jobStatus[j] # "queued"
    BY <1>4, <1>6, <2>2 DEF Claim
  <2>3. QED
    BY <2>1, <2>2
<1>7. ASSUME NEW p \in Passes, Select(p), UNCHANGED reviewVars PROVE WorkInv'
  <2>1. /\ UNCHANGED <<job, jobStatus, swept, sweep, everBounced, state>> /\ pc[p] = "select"
        /\ \A q \in Passes : q = p /\ pc'[q] = "extract"
    BY <1>0, <1>7 DEF Select, TypeOK, Patient, OnePass
  <2>2. QED
    BY <2>1 DEF WorkInv
<1>8. ASSUME NEW p \in Passes, FinishJob(p) \/ EndPass(p), UNCHANGED reviewVars PROVE WorkInv'
  <2>1. /\ UNCHANGED <<swept, sweep, everBounced, state>> /\ pc[p] \in {"extract", "claim"}
        /\ \A q \in Passes : q = p /\ pc'[q] \in {"claim", "idle"} /\ todo'[q] \in {{}, todo[q]}
        /\ pc[p] = "extract" => todo'[p] = {}
    BY <1>0, <1>8 DEF FinishJob, Release, EndPass, TypeOK, Patient, OnePass
  <2>2. QED
    BY <2>1 DEF WorkInv
<1>9. ASSUME NEW p \in Passes, NEW d \in Docs, Extract(p, d), UNCHANGED reviewVars PROVE WorkInv'
  <2>1. /\ UNCHANGED <<job, jobStatus, swept, sweep, everBounced, state>> /\ pc[p] = "extract"
        /\ \A q \in Passes : q = p /\ pc'[q] = "gate"
    BY <1>0, <1>9 DEF Extract, Goto, TypeOK, Patient, OnePass
  <2>2. QED
    BY <2>1 DEF WorkInv
<1>10. ASSUME NEW p \in Passes, Bounce(p), UNCHANGED reviewVars PROVE WorkInv'
  <2>1. /\ UNCHANGED <<job, jobStatus, swept, sweep>> /\ pc[p] = "gate"
        /\ \A q \in Passes : q = p /\ pc'[q] = "reopen"
        /\ everBounced' = everBounced \cup {doc[p]}
        /\ \A e \in Docs : state'[e] = IF e = doc[p] THEN "bounced_expired" ELSE state[e]
    BY <1>0, <1>10 DEF Bounce, Goto, TypeOK, Patient, OnePass
  <2>2. QED
    BY <2>1 DEF WorkInv
<1>11. ASSUME NEW p \in Passes, FindPrior(p) \/ Displace(p) \/ Withdraw(p) \/ CheckLadder(p)
                                \/ ScheduleLadder(p) \/ ScheduleDayZero(p), UNCHANGED reviewVars
       PROVE  WorkInv'
  <2>1. /\ UNCHANGED <<job, jobStatus, swept, sweep, everBounced, state, todo>>
        /\ pc[p] \notin {"idle", "claim", "select", "reopen"}
        /\ \A q \in Passes : q = p /\ pc'[q] \notin {"idle", "claim", "select"}
    BY <1>0, <1>11 DEF FindPrior, Displace, Withdraw, CheckLadder, ScheduleLadder, ScheduleDayZero,
       Return, Goto, TypeOK, Patient, OnePass
  <2>2. QED
    BY <2>1 DEF WorkInv
<1>12. ASSUME NEW p \in Passes, SweepRead(p) PROVE WorkInv'
  <2>1. /\ UNCHANGED <<pc, job, jobStatus, todo, everBounced, state>>
        /\ pc[p] = "reopen" /\ \A q \in Passes : q = p
    BY <1>12 DEF SweepRead, vars, Patient, OnePass
  <2>2. QED
    BY <2>1 DEF WorkInv
<1>13. ASSUME NEW p \in Passes, NEW l \in Locations, SweepWrite(p, l) PROVE WorkInv'
  <2>1. /\ UNCHANGED <<pc, job, jobStatus, todo, everBounced, state, swept>>
        /\ l \in sweep[p] /\ \A q \in Passes : q = p
    BY <1>13 DEF SweepWrite, vars, Patient, OnePass
  <2>2. QED
    BY <2>1 DEF WorkInv
<1>14. ASSUME NEW p \in Passes, SweepEnd(p) PROVE WorkInv'
  <2>1. /\ UNCHANGED <<job, jobStatus, todo, everBounced, state, sweep>>
        /\ pc[p] = "reopen" /\ sweep[p] = {}
        /\ \A q \in Passes : q = p /\ pc'[q] = "extract" /\ swept'[q] = FALSE
    BY <1>0, <1>14 DEF SweepEnd, Reopen, AfterBounce, Return, Goto, TypeOK, ReviewTypeOK, Patient, OnePass
  <2>2. QED
    BY <2>1 DEF WorkInv
<1>15. ASSUME NEW p \in Passes, DropPass(p) PROVE FALSE
  BY <1>0, <1>15 DEF DropPass, FailJob, CrashPass, Patient, NoFaults, TypeOK
<1>16. ASSUME NEW p \in Passes, PlainPassStep(p) PROVE WorkInv'
  <2>1. /\ PassStep(p) /\ pc[p] # "reopen" /\ UNCHANGED reviewVars
    BY <1>16, Zenon DEF PlainPassStep
  <2>2. ~Reopen(p)
    BY <2>1 DEF Reopen
  <2> HIDE DEF reviewVars
  <2>3. QED
    BY <1>5, <1>6, <1>7, <1>8, <1>9, <1>10, <1>11, <2>1, <2>2 DEF PassStep
<1>17. ASSUME \/ OpenLink \/ CorrectionRead \/ CorrectionFlagRead \/ CorrectionSkipFlag \/ ChangeRule
              \/ \E d \in Docs : MidnightPasses(d) \/ FlipStep(d)
              \/ \E d \in Docs : FlipFail(d)
              \/ \E j \in Jobs : SubmitCheck(j) \/ SubmitFsm(j) \/ SubmitRefused(j)
              \/ \E l \in Locations, v \in Verdicts : DecideRead(l, v) \/ DecideWrite(l, v)
              \/ \E l \in Locations : CorrectionWrite(l) \/ AddLocation(l)
              \/ \E b \in BOOLEAN : Reevaluate(b)
              \/ UNCHANGED allVars
       PROVE  UNCHANGED <<pc, job, jobStatus, todo, swept, sweep, everBounced, state>>
  BY <1>17 DEF OpenLink, CorrectionRead, CorrectionFlagRead, FlagRead, CorrectionSkipFlag, ChangeRule,
     MidnightPasses, Lapse, FlipStep, FlipStart, FireDayZero, FlipCheck, FlipSelect, FlipWrite, FlipRecord, FlipFail,
     DropFlip, SettleDayZero, ReclaimFlip, ReclaimDayZero, SubmitCheck, SubmitFsm, SubmitRefused,
     DecideRead, DecideWrite, CorrectionWrite, AddLocation, Reevaluate, allVars, vars
<1>18. QED
  BY <1>1, <1>2, <1>3, <1>4, <1>12, <1>13, <1>14, <1>15, <1>16, <1>17, PatientView
     DEF ReviewNext, CrashSubmit, CrashFlip

\* A worker that has work ahead of it has an open job, and the admin waits.
LEMMA AdminWaitsForWork ==
  ASSUME Patient, WorkInv, Undecided, At({"under_review"}) # {}
  PROVE  ~MayDecide
<1>1. WorkAhead
  BY DEF Undecided
<1>2. \A p \in Passes : pc[p] \notin {"idle", "claim"} => JobOpen
  BY DEF WorkInv, JobOpen
<1>3. JobOpen
  BY <1>1, <1>2 DEF WorkAhead, Awaited, Sweeping, WorkInv, JobOpen
<1>4. QED
  BY <1>3 DEF MayDecide, Patient

\* A step that takes no work from the worker, and brings nothing under review.
LEMMA WorkAside ==
  ASSUME At({"under_review"}) # {} => WorkAhead,
         \A d \in Docs : Pending(d) => Pending(d)',
         submitting # {} \/ (\E j \in Jobs : jobStatus[j] = "queued")
           => submitting' # {} \/ \E j \in Jobs : jobStatus'[j] = "queued",
         \A p \in Passes : /\ pc[p] \in {"select", "gate", "reopen"} => pc'[p] = pc[p]
                           /\ todo[p] \subseteq todo'[p],
         swept' = swept, sweep' = sweep, At({"under_review"})' \subseteq At({"under_review"})
  PROVE  At({"under_review"})' # {} => WorkAhead'
<1> SUFFICES ASSUME At({"under_review"})' # {}, WorkAhead PROVE WorkAhead'
  OBVIOUS
<1>1. ASSUME NEW d \in Docs, Awaited(d) PROVE Awaited(d)'
  BY <1>1 DEF Awaited
<1>2. ASSUME NEW p \in Passes, Sweeping(p) PROVE Sweeping(p)'
  BY <1>2 DEF Sweeping
<1>3. QED
  BY <1>1, <1>2 DEF WorkAhead

\* The worker's own steps, while no document has passed the gate.
LEMMA CalmPass ==
  ASSUME Patient, ReviewIInv, KeptInv, WorkInv, Undecided, ~TopKept, NEW p \in Passes,
         PlainPassStep(p)
  PROVE  CalmInv'
<1>0. TypeOK /\ HandInv
  BY DEF ReviewIInv, IInv
<1> USE DEF docVars, chaseVars, passVars, history, bounds
<1>1. /\ PassStep(p) /\ pc[p] # "reopen"
      /\ UNCHANGED <<locStatus, submitting, deciding, correcting, swept, sweep, reevals>>
  BY DEF PlainPassStep, reviewVars, requestVars, submitVars, adminVars, sweepVars
<1>2. \A q \in Passes : q = p
  BY DEF Patient, OnePass
<1>3. UNCHANGED flagging /\ At({"under_review"})' = At({"under_review"})
  BY <1>1 DEF PassStep, StartPass, Claim, Select, FinishJob, Release, EndPass, Extract, Bounce, Reopen,
     FindPrior, Displace, Withdraw, CheckLadder, ScheduleLadder, ScheduleDayZero, At
<1>4. SUFFICES (At({"under_review"}) # {} => WorkAhead') \/ TopKept'
  BY <1>1, <1>3 DEF CalmInv, Undecided
<1>5. At({"under_review"}) # {} => WorkAhead
  BY DEF Undecided
<1>6. ASSUME NEW r \in SUBSET Jobs, StartPass(p, r) PROVE At({"under_review"}) # {} => WorkAhead'
  <2>1. /\ UNCHANGED <<state, supersededBy, extracted, todo>> /\ pc[p] = "idle"
        /\ \A j \in Jobs : jobStatus[j] = "queued" => jobStatus'[j] = "queued"
    BY <1>6 DEF StartPass
  <2>2. QED
    BY <1>1, <1>2, <1>3, <1>5, <2>1, WorkAside DEF Pending
<1>7. ASSUME NEW j \in Jobs, Claim(p, j) PROVE At({"under_review"}) # {} => WorkAhead'
  <2>1. /\ UNCHANGED <<state, supersededBy, extracted, todo>> /\ pc[p] = "claim"
    BY <1>7 DEF Claim
  <2>2. CASE jobStatus[j] = "queued"
    <3>1. pc'[p] = "select"
      BY <1>0, <1>7, <2>2 DEF Claim, TypeOK
    <3>2. \A d \in Docs : Pending(d) => Awaited(d)'
      BY <2>1, <3>1 DEF Awaited, Pending
    <3>3. QED
      BY <1>2, <1>5, <2>1, <3>2 DEF WorkAhead, Awaited, Sweeping
  <2>3. CASE jobStatus[j] # "queued"
    BY <1>1, <1>3, <1>5, <1>7, <2>1, <2>3, WorkAside DEF Claim, Pending
  <2>4. QED
    BY <2>2, <2>3
<1>8. CASE Select(p)
  <2>1. /\ UNCHANGED <<state, supersededBy, extracted>> /\ pc[p] = "select"
        /\ todo'[p] = {d \in Docs : Pending(d)}
    BY <1>0, <1>8 DEF Select, TypeOK
  <2>2. \A d \in Docs : Pending(d) => Awaited(d)'
    BY <2>1 DEF Awaited, Pending
  <2>3. QED
    BY <1>2, <1>5, <2>1, <2>2 DEF WorkAhead, Awaited, Sweeping
<1>9. CASE FinishJob(p) \/ EndPass(p)
  <2>1. /\ UNCHANGED <<state, supersededBy, extracted>> /\ pc[p] \in {"extract", "claim"}
        /\ todo[p] \subseteq todo'[p]
    BY <1>0, <1>9 DEF FinishJob, Release, EndPass, TypeOK
  <2>2. \A j \in Jobs : jobStatus[j] = "queued" => jobStatus'[j] = "queued"
    <3>1. CASE FinishJob(p)
      <4>1. jobStatus[job[p]] = "processing" /\ jobStatus' = [jobStatus EXCEPT ![job[p]] = "done"]
        BY <3>1 DEF FinishJob, Release, WorkInv
      <4>2. QED
        BY <1>0, <4>1 DEF TypeOK
    <3>2. CASE EndPass(p)
      BY <3>2 DEF EndPass
    <3>3. QED
      BY <1>9, <3>1, <3>2
  <2>3. QED
    BY <1>1, <1>2, <1>3, <1>5, <2>1, <2>2, WorkAside DEF Pending
<1>10. ASSUME NEW d \in Docs, Extract(p, d) PROVE WorkAhead'
  BY <1>0, <1>10 DEF Extract, Goto, TypeOK, WorkAhead
<1>11. CASE Bounce(p)
  <2>1. pc'[p] = "reopen" /\ pc[p] = "gate" /\ ~swept[p]
    BY <1>0, <1>11 DEF Bounce, Goto, TypeOK, WorkInv
  <2>2. Sweeping(p)'
    BY <1>1, <2>1 DEF Sweeping
  <2>3. QED
    BY <2>2 DEF WorkAhead
<1>12. CASE FindPrior(p)
  BY <1>12, TopFound DEF Patient
<1>13. CASE Displace(p) \/ Withdraw(p) \/ CheckLadder(p) \/ ScheduleLadder(p) \/ ScheduleDayZero(p)
  BY <1>13 DEF KeptInv, TopInv, PastGate, Displace, Withdraw, CheckLadder, ScheduleLadder, ScheduleDayZero
<1>14. ~Reopen(p)
  BY <1>1 DEF Reopen
<1>15. QED
  BY <1>1, <1>6, <1>7, <1>8, <1>9, <1>10, <1>11, <1>12, <1>13, <1>14 DEF PassStep

\* The sweep of a bounced document's locations.
LEMMA CalmSweep ==
  ASSUME Patient, ReviewIInv, WorkInv, Undecided, NEW p \in Passes,
         SweepRead(p) \/ SweepEnd(p) \/ \E l \in Locations : SweepWrite(p, l)
  PROVE  CalmInv'
<1>0. TypeOK /\ ReviewTypeOK
  BY DEF ReviewIInv, IInv
<1> USE DEF vars, docVars, chaseVars, passVars, history, bounds, requestVars, submitVars, adminVars
<1>1. \A q \in Passes : q = p
  BY DEF Patient, OnePass
<1>2. At({"under_review"}) # {} => WorkAhead
  BY DEF Undecided
<1>3. CASE SweepRead(p)
  <2>1. UNCHANGED <<locStatus, deciding, correcting, flagging, reevals>> /\ pc'[p] = "reopen"
    BY <1>3 DEF SweepRead
  <2>2. sweep'[p] = At({"under_review"}) /\ At({"under_review"})' = At({"under_review"})
    BY <1>0, <1>3 DEF SweepRead, Reopenable, ReviewTypeOK, At
  <2>3. Sweeping(p)'
    BY <2>1, <2>2 DEF Sweeping
  <2>4. WorkAhead'
    BY <2>3 DEF WorkAhead
  <2>5. QED
    BY <2>1, <2>4 DEF CalmInv, Undecided
<1>4. ASSUME NEW l \in Locations, SweepWrite(p, l) PROVE CalmInv'
  <2>1. /\ UNCHANGED <<deciding, correcting, flagging, reevals, submitting, swept, jobStatus, pc, todo,
                       state, supersededBy, extracted>>
        /\ locStatus' = [locStatus EXCEPT ![l] = "onboarding"]
        /\ sweep'[p] = sweep[p] \ {l}
    BY <1>0, <1>4 DEF SweepWrite, ReviewTypeOK
  <2>2. /\ At({"under_review"})' = At({"under_review"}) \ {l}
        /\ \A k \in Locations : locStatus'[k] \in {locStatus[k], "onboarding"}
    BY <1>0, <2>1 DEF ReviewTypeOK, At
  <2>3. ASSUME At({"under_review"})' # {} PROVE WorkAhead'
    <3>1. WorkAhead
      BY <1>2, <2>2, <2>3
    <3>2. ASSUME NEW d \in Docs, Awaited(d) PROVE Awaited(d)'
      BY <2>1, <3>2 DEF Awaited, Pending
    <3>3. ASSUME Sweeping(p) PROVE Sweeping(p)'
      BY <2>1, <2>2, <3>3 DEF Sweeping
    <3>4. QED
      BY <1>1, <2>1, <3>1, <3>2, <3>3 DEF WorkAhead
  <2>4. QED
    BY <2>1, <2>2, <2>3 DEF CalmInv, Undecided
<1>5. CASE SweepEnd(p)
  <2>1. /\ UNCHANGED <<locStatus, deciding, correcting, flagging, reevals, submitting, jobStatus, todo,
                       state, supersededBy, extracted>>
        /\ swept[p] /\ sweep[p] = {} /\ pc[p] = "reopen"
    BY <1>5 DEF SweepEnd, Reopen
  <2>2. At({"under_review"})' = At({"under_review"})
    BY <2>1 DEF At
  <2>3. ASSUME At({"under_review"})' # {} PROVE WorkAhead'
    <3>1. WorkAhead
      BY <1>2, <2>2, <2>3
    <3>2. PICK d \in Docs : Awaited(d)
      BY <1>1, <2>1, <2>2, <2>3, <3>1 DEF WorkAhead, Sweeping
    <3>3. Awaited(d)'
      BY <1>1, <2>1, <3>2 DEF Awaited, Pending
    <3>4. QED
      BY <3>3 DEF WorkAhead
  <2>4. QED
    BY <2>1, <2>3 DEF CalmInv, Undecided
<1>6. QED
  BY <1>3, <1>4, <1>5

\* A submit while no document has passed the gate leaves the worker something to
\* read, unless what it had checked is gone.
LEMMA CalmSubmit ==
  ASSUME Patient, ReviewIInv, KeptInv, WorkInv, Undecided, ~TopKept, NEW j \in Jobs, SubmitFsm(j)
  PROVE  CalmInv'
<1>1. /\ UNCHANGED <<vars, deciding, correcting, swept, sweep, reevals>>
      /\ submitting' # {}
      /\ locStatus' = [l \in Locations |-> IF locStatus[l] = "onboarding" THEN "under_review" ELSE locStatus[l]]
  BY DEF SubmitFsm, sweepVars, adminVars
<1>2. UNCHANGED <<flagging, state, supersededBy, extracted, pc, doc>>
  BY <1>1 DEF vars, docVars, passVars
<1> SUFFICES ASSUME ~overtaken' PROVE CalmInv'
  BY DEF CalmInv
<1>3. PICK d \in Docs : state[d] = "active" /\ supersededBy[d] = NoDoc
  BY DEF SubmitFsm, Submittable
<1>4. CASE d \notin extracted
  <2>1. Awaited(d)'
    BY <1>1, <1>2, <1>3, <1>4 DEF Awaited, Pending
  <2>2. QED
    BY <1>1, <1>2, <2>1 DEF CalmInv, Undecided, WorkAhead
<1>5. CASE d \in extracted
  <2>1. \E p \in Passes : pc[p] = "gate"
    <3>1. Current(d) /\ d \notin everBounced
      BY <1>3 DEF Current, WorkInv
    <3>2. \A e \in Docs : supersededBy[e] = NoDoc
      BY DEF KeptInv, TopInv
    <3>3. QED
      BY <1>3, <1>5, <3>1, <3>2 DEF TopKept, Top, Kept
  <2>2. WorkAhead'
    BY <1>2, <2>1 DEF WorkAhead
  <2>3. QED
    BY <1>1, <1>2, <2>2 DEF CalmInv, Undecided
<1>6. QED
  BY <1>4, <1>5

\* What has been overtaken stays so.
LEMMA OvertakenStays ==
  ASSUME overtaken, [ReviewNext]_allVars
  PROVE  overtaken'
BY DEF ReviewNext, allVars, reviewVars, requestVars, submitVars, OpenLink, VendorUpload, MidnightPasses,
   FlipStep, FlipStart, FlipCheck, FlipSelect, FlipWrite, FlipRecord, FlipFail, CrashFlip, ReclaimFlip, DropFlip,
   SubmitCheck, SubmitFsm, SubmitRefused, SubmitInsert, CrashSubmit, DecideRead, DecideWrite, CorrectionRead,
   CorrectionWrite, CorrectionFlagRead, CorrectionFlagWrite, CorrectionSkipFlag, AddLocation, ChangeRule,
   Reevaluate, PlainPassStep, DropPass, SweepRead, SweepEnd, SweepWrite

LEMMA CalmStep ==
  ASSUME Patient, PatientInv, [ReviewNext]_allVars
  PROVE  CalmInv'
<1>0. /\ TypeOK /\ ReviewTypeOK /\ FlipInv /\ ReviewIInv /\ KeptInv /\ WorkInv
      /\ OnePass /\ MaxAdded = 0
  BY DEF PatientInv, ReviewIInv, IInv, Patient
<1> USE DEF requestVars, submitVars, adminVars, sweepVars, flipVars, reviewBounds
<1>1. CASE TopKept
  BY <1>0, <1>1, TopStays, PatientView DEF CalmInv
<1>2. CASE overtaken
  BY <1>2, OvertakenStays DEF CalmInv
<1>3. CASE ~TopKept /\ ~overtaken
  <2>0. /\ Undecided
        /\ \A d \in Docs : supersededBy[d] = NoDoc /\ dayZero[d] = "none"
    BY <1>0, <1>3 DEF PatientInv, CalmInv, KeptInv, TopInv
  <2>a. At({"under_review"}) # {} => WorkAhead
    BY <2>0 DEF Undecided
  <2>1. ASSUME NEW p \in Passes, PlainPassStep(p) PROVE CalmInv'
    BY <1>0, <1>3, <2>0, <2>1, CalmPass
  <2>2. ASSUME NEW p \in Passes, SweepRead(p) \/ SweepEnd(p) \/ \E l \in Locations : SweepWrite(p, l)
        PROVE  CalmInv'
    BY <1>0, <2>0, <2>2, CalmSweep
  <2>3. ASSUME NEW j \in Jobs, SubmitFsm(j) PROVE CalmInv'
    BY <1>0, <1>3, <2>0, <2>3, CalmSubmit
  <2>4. ASSUME NEW j \in Jobs, SubmitInsert(j) PROVE CalmInv'
    <3>1. /\ UNCHANGED <<docVars, extracted, passVars, flagging, locStatus, deciding, correcting, sweepVars, reevals>>
          /\ jobStatus[j] = "absent" /\ jobStatus' = [jobStatus EXCEPT ![j] = "queued"]
      BY <2>4 DEF SubmitInsert, QueueJob
    <3>2. \E k \in Jobs : jobStatus'[k] = "queued"
      BY <1>0, <3>1 DEF TypeOK
    <3>3. At({"under_review"})' # {} => WorkAhead'
      BY <2>a, <3>1, <3>2, WorkAside DEF Pending, docVars, passVars, At
    <3>4. QED
      BY <2>0, <3>1, <3>3 DEF CalmInv, Undecided
  <2>5. CASE OpenLink
    <3>1. /\ UNCHANGED <<vars, submitting, deciding, correcting, sweepVars, reevals>>
          /\ locStatus' \in {locStatus, [l \in Locations |-> IF l \in Assigned THEN "onboarding" ELSE "none"]}
      BY <2>5 DEF OpenLink
    <3>2. At({"under_review"})' \subseteq At({"under_review"})
      BY <3>1 DEF At
    <3>3. At({"under_review"})' # {} => WorkAhead'
      BY <2>a, <3>1, <3>2, WorkAside DEF Pending, vars, docVars, passVars
    <3>4. \A l \in Locations : locStatus'[l] \in {"none", "invited_pending", "onboarding", "under_review"}
      BY <2>0, <3>1 DEF Undecided
    <3>5. QED
      BY <2>0, <3>1, <3>3, <3>4 DEF CalmInv, Undecided, vars
  <2>6. ASSUME NEW d \in Docs, VendorUpload(d) PROVE CalmInv'
    <3>1. PICK m \in 0..MaxArrival, w \in BOOLEAN, l \in BOOLEAN : Upload(d, m, w, l)
      BY <2>6 DEF VendorUpload
    <3>2. /\ UNCHANGED <<supersededBy, extracted, jobStatus, passVars, flagging, locStatus, submitting,
                         deciding, correcting, sweepVars, reevals>>
          /\ \A e \in Docs : state[e] = "active" => state'[e] = "active"
      BY <1>0, <2>6, <3>1 DEF VendorUpload, Upload, reviewVars, TypeOK
    <3>3. At({"under_review"})' # {} => WorkAhead'
      BY <2>a, <3>2, WorkAside DEF Pending, passVars, At
    <3>4. QED
      BY <2>0, <3>2, <3>3 DEF CalmInv, Undecided
  <2>7. CASE \/ \E d \in Docs : MidnightPasses(d)
             \/ \E j \in Jobs : SubmitCheck(j) \/ SubmitRefused(j)
             \/ ChangeRule \/ UNCHANGED allVars
    <3>1. UNCHANGED <<docVars, extracted, jobStatus, passVars, flagging, locStatus, submitting,
                      deciding, correcting, sweepVars>>
      BY <2>7 DEF MidnightPasses, Lapse, SubmitCheck, SubmitRefused, ChangeRule, allVars, vars, reviewVars
    <3>2. reevals' = 0
      <4>1. At({"approved"}) = {}
        BY <2>0 DEF Undecided, At
      <4>2. QED
        BY <2>0, <2>7, <4>1, FS_EmptySet DEF MidnightPasses, SubmitCheck, SubmitRefused, ChangeRule, allVars, reviewVars, Undecided
    <3>3. At({"under_review"})' # {} => WorkAhead'
      BY <2>a, <3>1, WorkAside DEF Pending, docVars, passVars, At
    <3>4. QED
      BY <2>0, <3>1, <3>2, <3>3 DEF CalmInv, Undecided
  <2>8. ASSUME \/ CorrectionRead
               \/ \E l \in Locations, v \in Verdicts : DecideRead(l, v)
        PROVE  FALSE
    <3>1. At({"under_review"}) # {} /\ MayDecide
      BY <2>8 DEF CorrectionRead, DecideRead, At
    <3>2. QED
      BY <1>0, <2>0, <3>1, AdminWaitsForWork DEF PatientInv
  <2>9. ASSUME \/ CorrectionFlagRead \/ CorrectionFlagWrite \/ CorrectionSkipFlag
               \/ \E l \in Locations, v \in Verdicts : DecideWrite(l, v)
               \/ \E l \in Locations : CorrectionWrite(l) \/ AddLocation(l)
               \/ \E b \in BOOLEAN : Reevaluate(b)
        PROVE  FALSE
    BY <1>0, <2>0, <2>9 DEF CorrectionFlagRead, CorrectionFlagWrite, FlagWrite, CorrectionSkipFlag,
       DecideWrite, CorrectionWrite, AddLocation, Reevaluate, Undecided, ReviewTypeOK
  <2>10. ASSUME NEW d \in Docs, FlipStep(d) \/ FlipFail(d) PROVE FALSE
    BY <1>0, <2>0, <2>10 DEF FlipStep, FlipStart, FireDayZero, FlipCheck, FlipSelect, FlipWrite, FlipRecord,
       FlipFail, ReclaimFlip, ReclaimDayZero, FlipInv
  <2>11. ASSUME NEW p \in Passes, DropPass(p) PROVE FALSE
    BY <1>0, <2>11 DEF DropPass, FailJob, CrashPass, Patient, NoFaults, TypeOK
  <2>12. QED
    BY <1>0, <2>1, <2>2, <2>3, <2>4, <2>5, <2>6, <2>7, <2>8, <2>9, <2>10, <2>11, PatientView
       DEF ReviewNext, CrashSubmit, CrashFlip
<1>4. QED
  BY <1>1, <1>2, <1>3

LEMMA PatientStep ==
  ASSUME Patient, PatientInv, [ReviewNext]_allVars
  PROVE  PatientInv'
<1>1. KeptInv'
  BY KeptStep, PatientView DEF PatientInv, Patient
<1>2. QED
  BY <1>1, ReviewIInvStep, WorkStep, CalmStep DEF PatientInv

LEMMA TopIsVetted == TopKept => \E d \in Docs : Vetted(d)
BY DEF TopKept, Top, Kept, Current, Vetted, Live

LEMMA PatientCovers == PatientInv => ApprovedIsCovered
<1>1. Undecided => At({"approved"}) = {}
  BY DEF Undecided, At
<1>2. QED
  BY <1>1, TopIsVetted DEF PatientInv, CalmInv, ApprovedIsCovered

LEMMA PatientVets == PatientInv => UnderReviewIsVetted
<1>1. ASSUME WorkInv, Quiet PROVE ~WorkAhead
  BY <1>1 DEF Quiet, AtRest, WorkAhead, Awaited, Sweeping, WorkInv
<1>2. QED
  BY <1>1, TopIsVetted DEF PatientInv, CalmInv, Undecided, UnderReviewIsVetted

\* IMPLEMENTATION_BRIEF.md:54-55: an admin who waits for the verification never
\* leaves a location approved that no document covers, with any number of documents,
\* jobs, locations, decisions, flags, rule changes and lapses (decision.ts, worker.ts),
\* unless a submit was overtaken by the bounce of what it had checked.
THEOREM ApprovedIsCoveredHolds == Patient => (ReviewSpec => []ApprovedIsCovered)
<1> SUFFICES ASSUME Patient PROVE ReviewSpec => []ApprovedIsCovered
  OBVIOUS
<1>1. PatientInv /\ [ReviewNext]_allVars => PatientInv'
  BY PatientStep
<1>2. QED
  BY <1>1, InitPatient, PatientCovers, PTL DEF ReviewSpec

\* Under the same conditions, once all work is done, whatever is under review has a
\* document that the gate has let through: the bounce of the only document has taken
\* its locations back (worker.ts:168-181), but for those of an overtaken submit.
THEOREM UnderReviewIsVettedHolds == Patient => (ReviewSpec => []UnderReviewIsVetted)
<1> SUFFICES ASSUME Patient PROVE ReviewSpec => []UnderReviewIsVetted
  OBVIOUS
<1>1. PatientInv /\ [ReviewNext]_allVars => PatientInv'
  BY PatientStep
<1>2. QED
  BY <1>1, InitPatient, PatientVets, PTL DEF ReviewSpec
=============================================================================
