----------------------- MODULE DocumentPipelineProofs -----------------------
(***************************************************************************)
(* Supersession only ever points to a strictly newer upload, for every     *)
(* number of documents, jobs and overlapping passes, any crashes, failed   *)
(* jobs, lapses and flags, and uploads that share a millisecond.  The      *)
(* argument: a pass that has found a prior keeps two uploaded documents in *)
(* hand, the prior strictly older, and an upload time never changes.       *)
(*                                                                         *)
(* A worker that runs one pass at a time never leaves a vendor that has    *)
(* renewed without a current document: there is always a document that the *)
(* gate has let through and that is at least as new as all that displaced  *)
(* another.  And a worker that never dies bounces every document that was  *)
(* expired when it was read, however many passes overlap.                  *)
(*                                                                         *)
(* With neither failures nor deaths, a worker at rest also leaves no       *)
(* current dated document without its day-0 job (passes may overlap; the   *)
(* tenant is west of UTC), and two current documents only around a         *)
(* skipped upload (one pass at a time).  For the second: the prior a pass  *)
(* has found is the newest of the older documents, its first SELECT misses *)
(* none that is older, and so whatever kept the prior apart from a still   *)
(* older document now keeps the new one apart from it.                     *)
(***************************************************************************)
EXTENDS DocumentPipeline, WellFoundedInduction, TLAPS

Uploaded(d) == d \in Docs /\ state[d] # "absent"

InHand == {"gate", "reopen", "displace", "withdraw", "ladder", "schedule", "dayZero"}

\* What a pass works on has been uploaded, and a prior it holds is older than
\* the document it holds.
HandInv ==
    \A p \in Passes :
        /\ \A d \in todo[p] : Uploaded(d)
        /\ pc[p] \in InHand => Uploaded(doc[p])
        /\ pc[p] \in {"displace", "withdraw"} =>
             Uploaded(prior[p]) /\ uploadedAt[prior[p]] < uploadedAt[doc[p]]

\* Both ends of a supersession have been uploaded, and so has a flagged document.
ChainInv ==
    \A d \in Docs : supersededBy[d] # NoDoc => Uploaded(d) /\ Uploaded(supersededBy[d])

IInv == TypeOK /\ HandInv /\ ChainInv /\ SupersededByNewer

-----------------------------------------------------------------------------

LEMMA PriorsAreOlder ==
  ASSUME TypeOK, NEW d \in Docs, NEW e \in Priors(d)
  PROVE  Uploaded(e) /\ uploadedAt[e] < uploadedAt[d]
BY DEF Priors, Newest, Supersedable, Live, Older, Uploaded, TypeOK

LEMMA InitIInv == Init => IInv
<1> SUFFICES ASSUME Init PROVE IInv
  OBVIOUS
<1>1. TypeOK
  BY PipelineAssumption DEF Init, TypeOK, DocState, JobStatus, DayZeroStatus, Steps
<1>2. HandInv /\ ChainInv /\ SupersededByNewer
  BY DEF Init, HandInv, ChainInv, SupersededByNewer, InHand
<1>3. QED
  BY <1>1, <1>2 DEF IInv

\* A step that leaves the documents and the passes' hands alone.
LEMMA Aside ==
  ASSUME IInv, TypeOK',
         UNCHANGED <<state, uploadedAt, supersededBy, pc, todo, doc, prior>>
  PROVE  IInv'
BY DEF IInv, HandInv, ChainInv, SupersededByNewer, Uploaded

\* A step in which pass p takes the step "step" with d and e in hand, and the
\* documents stay as they are.
LEMMA Onward ==
  ASSUME IInv, TypeOK', NEW p \in Passes, NEW step, NEW d, NEW e, Goto(p, step, d, e),
         todo'[p] \subseteq todo[p], \A q \in Passes : q # p => todo'[q] = todo[q],
         UNCHANGED <<state, uploadedAt, supersededBy>>,
         step \in InHand => Uploaded(d),
         step \in {"displace", "withdraw"} => Uploaded(e) /\ uploadedAt[e] < uploadedAt[d]
  PROVE  IInv'
BY DEF IInv, TypeOK, HandInv, ChainInv, SupersededByNewer, Uploaded, Goto, InHand

-----------------------------------------------------------------------------
(* Types *)

LEMMA GotoTypes ==
  ASSUME TypeOK, NEW p \in Passes, NEW step \in Steps,
         NEW d \in Docs \cup {NoDoc}, NEW e \in Docs \cup {NoDoc}, Goto(p, step, d, e)
  PROVE  /\ pc' \in [Passes -> Steps]
         /\ doc' \in [Passes -> Docs \cup {NoDoc}]
         /\ prior' \in [Passes -> Docs \cup {NoDoc}]
BY DEF TypeOK, Goto, Steps

LEMMA TypeStep ==
  ASSUME TypeOK, HandInv, [Next]_vars
  PROVE  TypeOK'
<1> USE PipelineAssumption
    DEF TypeOK, HandInv, Uploaded, InHand, DocState, JobStatus, DayZeroStatus, Steps,
        docVars, chaseVars, passVars, history, bounds
<1>1. ASSUME NEW d \in Docs, NEW m \in 0..MaxArrival, NEW w \in BOOLEAN, NEW l \in BOOLEAN, Upload(d, m, w, l) PROVE TypeOK'
  BY <1>1 DEF Upload
<1>2. ASSUME NEW d \in Docs, Lapse(d) PROVE TypeOK'
  BY <1>2 DEF Lapse
<1>3. ASSUME NEW d \in Docs, DayZeroJob(d) PROVE TypeOK'
  BY <1>3 DEF DayZeroJob, FireDayZero, ReclaimDayZero, SettleDayZero
<1>4. ASSUME NEW j \in Jobs, QueueJob(j) PROVE TypeOK'
  BY <1>4 DEF QueueJob
<1>5. CASE FlagRead
  <2>1. flagging' \in Docs
    BY <1>5 DEF FlagRead, Newest
  <2>2. QED
    BY <1>5, <2>1 DEF FlagRead
<1>6. CASE FlagWrite
  BY <1>6 DEF FlagWrite
<1>7. ASSUME NEW p \in Passes, NEW r \in SUBSET Jobs, StartPass(p, r) PROVE TypeOK'
  BY <1>7 DEF StartPass
<1>8. ASSUME NEW p \in Passes, NEW j \in Jobs, Claim(p, j) PROVE TypeOK'
  <2>1. CASE jobStatus[j] = "queued"
    <3>1. /\ jobStatus' = [jobStatus EXCEPT ![j] = "processing"]
          /\ job' = [job EXCEPT ![p] = j] /\ bounced' = [bounced EXCEPT ![p] = FALSE]
          /\ pc' = [pc EXCEPT ![p] = "select"] /\ due' = [due EXCEPT ![p] = @ \ {j}]
      BY <1>8, <2>1 DEF Claim
    <3>2. /\ jobStatus' \in [Jobs -> JobStatus] /\ job' \in [Passes -> Jobs \cup {NoJob}]
          /\ pc' \in [Passes -> Steps] /\ due' \in [Passes -> SUBSET Jobs]
      BY <3>1
    <3>3. bounced' \in [Passes -> BOOLEAN]
      BY <3>1
    <3>4. QED
      BY <1>8, <3>2, <3>3 DEF Claim
  <2>2. CASE jobStatus[j] # "queued"
    BY <1>8, <2>2 DEF Claim
  <2>3. QED
    BY <2>1, <2>2
<1>9. ASSUME NEW p \in Passes, Select(p) PROVE TypeOK'
  BY <1>9 DEF Select
<1>10. ASSUME NEW p \in Passes, FinishJob(p) PROVE TypeOK'
  BY <1>10 DEF FinishJob, Release
<1>11. ASSUME NEW p \in Passes, EndPass(p) PROVE TypeOK'
  BY <1>11 DEF EndPass
<1>12. ASSUME NEW p \in Passes, NEW d \in Docs, Extract(p, d) PROVE TypeOK'
  BY <1>12 DEF Extract, Goto
<1>13. ASSUME NEW p \in Passes, Bounce(p) PROVE TypeOK'
  BY <1>13 DEF Bounce, Goto
<1>14. ASSUME NEW p \in Passes, Reopen(p) PROVE TypeOK'
  BY <1>14 DEF Reopen, AfterBounce, Return, Goto
<1>15. ASSUME NEW p \in Passes, FindPrior(p) PROVE TypeOK'
  <2>1. doc[p] \in Docs /\ (\A e \in Priors(doc[p]) : e \in Docs)
    BY <1>15, PriorsAreOlder DEF FindPrior
  <2>2. PICK step \in Steps, d, e \in Docs \cup {NoDoc} : Goto(p, step, d, e)
    BY <1>15, <2>1 DEF FindPrior, Return
  <2>3. /\ pc' \in [Passes -> Steps] /\ doc' \in [Passes -> Docs \cup {NoDoc}]
        /\ prior' \in [Passes -> Docs \cup {NoDoc}]
    BY <2>2, GotoTypes
  <2>4. QED
    BY <1>15, <2>3 DEF FindPrior
<1>16. ASSUME NEW p \in Passes, Displace(p) PROVE TypeOK'
  <2>1. doc[p] \in Docs /\ prior[p] \in Docs
    BY <1>16 DEF Displace
  <2>2. PICK step \in Steps, d, e \in Docs \cup {NoDoc} : Goto(p, step, d, e)
    BY <1>16, <2>1 DEF Displace, Return
  <2>3. /\ pc' \in [Passes -> Steps] /\ doc' \in [Passes -> Docs \cup {NoDoc}]
        /\ prior' \in [Passes -> Docs \cup {NoDoc}]
    BY <2>2, GotoTypes
  <2>4. supersededBy' \in [Docs -> Docs \cup {NoDoc}]
    BY <1>16, <2>1 DEF Displace
  <2>5. QED
    BY <1>16, <2>3, <2>4 DEF Displace
<1>17. ASSUME NEW p \in Passes, Withdraw(p) PROVE TypeOK'
  BY <1>17 DEF Withdraw, Goto
<1>18. ASSUME NEW p \in Passes, CheckLadder(p) PROVE TypeOK'
  <2>1. doc[p] \in Docs
    BY <1>18 DEF CheckLadder
  <2>2. PICK step \in Steps, d, e \in Docs \cup {NoDoc} : Goto(p, step, d, e)
    BY <1>18, <2>1 DEF CheckLadder, Return
  <2>3. /\ pc' \in [Passes -> Steps] /\ doc' \in [Passes -> Docs \cup {NoDoc}]
        /\ prior' \in [Passes -> Docs \cup {NoDoc}]
    BY <2>2, GotoTypes
  <2>4. QED
    BY <1>18, <2>3 DEF CheckLadder
<1>19. ASSUME NEW p \in Passes, ScheduleLadder(p) PROVE TypeOK'
  BY <1>19 DEF ScheduleLadder, Goto
<1>20. ASSUME NEW p \in Passes, ScheduleDayZero(p) PROVE TypeOK'
  BY <1>20 DEF ScheduleDayZero, Return, Goto
<1>21. ASSUME NEW p \in Passes, FailJob(p) PROVE TypeOK'
  <2>1. failures' \in 0..MaxFailures
    BY <1>21 DEF FailJob
  <2>2. QED
    BY <1>21, <2>1 DEF FailJob, Release
<1>22. ASSUME NEW p \in Passes, CrashPass(p) PROVE TypeOK'
  BY <1>22 DEF CrashPass
<1>23. CASE UNCHANGED vars
  BY <1>23 DEF vars
<1> HIDE DEF TypeOK, HandInv, Uploaded, InHand, DocState, JobStatus, DayZeroStatus, Steps,
        docVars, chaseVars, passVars, history, bounds
<1>24. QED
  BY <1>1, <1>2, <1>3, <1>4, <1>5, <1>6, <1>7, <1>8, <1>9, <1>10, <1>11, <1>12,
     <1>13, <1>14, <1>15, <1>16, <1>17, <1>18, <1>19, <1>20, <1>21, <1>22, <1>23 DEF Next, PassStep

-----------------------------------------------------------------------------
(* The chain of supersession *)

LEMMA IInvStep ==
  ASSUME IInv, [Next]_vars
  PROVE  IInv'
<1> USE DEF docVars, chaseVars, passVars, history, bounds
<1>0. TypeOK /\ HandInv /\ TypeOK'
  BY TypeStep DEF IInv
<1>1. ASSUME NEW d \in Docs, NEW m \in 0..MaxArrival, NEW w \in BOOLEAN, NEW l \in BOOLEAN,
             Upload(d, m, w, l)
      PROVE  IInv'
  <2>1. /\ state[d] = "absent"
        /\ UNCHANGED <<supersededBy, pc, todo, doc, prior>>
        /\ \A e \in Docs : Uploaded(e) => Uploaded(e)' /\ uploadedAt'[e] = uploadedAt[e]
    BY <1>0, <1>1 DEF Upload, Uploaded, TypeOK, DocState
  <2>2. HandInv'
    <3>1. ASSUME NEW p \in Passes
          PROVE  /\ \A e \in todo[p] : Uploaded(e)'
                 /\ pc[p] \in InHand => Uploaded(doc[p])'
                 /\ pc[p] \in {"displace", "withdraw"} =>
                      Uploaded(prior[p])' /\ uploadedAt'[prior[p]] < uploadedAt'[doc[p]]
      <4>1. pc[p] \in {"displace", "withdraw"} => pc[p] \in InHand
        BY DEF InHand
      <4>2. /\ \A e \in todo[p] : e \in Docs /\ Uploaded(e)
            /\ pc[p] \in InHand => doc[p] \in Docs /\ Uploaded(doc[p])
            /\ pc[p] \in {"displace", "withdraw"} =>
                 /\ prior[p] \in Docs /\ Uploaded(prior[p])
                 /\ uploadedAt[prior[p]] < uploadedAt[doc[p]]
        BY <1>0 DEF HandInv, Uploaded
      <4>3. QED
        BY <2>1, <4>1, <4>2
    <3>2. QED
      BY <2>1, <3>1 DEF HandInv, Uploaded
  <2>3. ChainInv'
    BY <2>1 DEF IInv, ChainInv, Uploaded
  <2>4. SupersededByNewer'
    BY <2>1 DEF IInv, ChainInv, SupersededByNewer, Uploaded
  <2>5. QED
    BY <1>0, <2>2, <2>3, <2>4 DEF IInv
<1>2. ASSUME NEW d \in Docs, Lapse(d) PROVE IInv'
  BY <1>0, <1>2, Aside DEF Lapse
<1>3. ASSUME NEW d \in Docs, DayZeroJob(d) PROVE IInv'
  BY <1>0, <1>3, Aside DEF DayZeroJob, FireDayZero, ReclaimDayZero, SettleDayZero
<1>4. ASSUME NEW j \in Jobs, QueueJob(j) PROVE IInv'
  BY <1>0, <1>4, Aside DEF QueueJob
<1>5. CASE FlagRead
  BY <1>0, <1>5, Aside DEF FlagRead
<1>6. CASE FlagWrite
  <2>1. /\ UNCHANGED <<uploadedAt, supersededBy, pc, todo, doc, prior>>
        /\ \A e \in Docs : Uploaded(e) => Uploaded(e)'
    BY <1>0, <1>6 DEF FlagWrite, Uploaded, TypeOK
  <2>2. QED
    BY <1>0, <2>1 DEF IInv, HandInv, ChainInv, SupersededByNewer, Uploaded
<1>7. ASSUME NEW p \in Passes, NEW r \in SUBSET Jobs, StartPass(p, r) PROVE IInv'
  BY <1>0, <1>7 DEF StartPass, IInv, HandInv, ChainInv, SupersededByNewer, Uploaded, InHand, TypeOK
<1>8. ASSUME NEW p \in Passes, NEW j \in Jobs, Claim(p, j) PROVE IInv'
  <2>1. /\ UNCHANGED <<state, uploadedAt, supersededBy, todo, doc, prior>>
        /\ pc' = pc \/ pc' = [pc EXCEPT ![p] = "select"]
    BY <1>8 DEF Claim
  <2>2. QED
    BY <1>0, <2>1 DEF IInv, HandInv, ChainInv, SupersededByNewer, Uploaded, InHand, TypeOK
<1>9. ASSUME NEW p \in Passes, Select(p) PROVE IInv'
  BY <1>0, <1>9 DEF Select, Pending, IInv, HandInv, ChainInv, SupersededByNewer, Uploaded, InHand, TypeOK
<1>10. ASSUME NEW p \in Passes, Release(p, "done") \/ Release(p, "failed") PROVE IInv'
  <2>1. /\ UNCHANGED <<state, uploadedAt, supersededBy>>
        /\ todo' = [todo EXCEPT ![p] = {}]
        /\ Goto(p, "claim", NoDoc, NoDoc)
    BY <1>10 DEF Release, Goto
  <2>2. QED
    BY <1>0, <2>1, Onward DEF InHand, TypeOK
<1>11. ASSUME NEW p \in Passes, EndPass(p) PROVE IInv'
  BY <1>0, <1>11 DEF EndPass, IInv, HandInv, ChainInv, SupersededByNewer, Uploaded, InHand, TypeOK
<1>12. ASSUME NEW p \in Passes, NEW d \in Docs, Extract(p, d) PROVE IInv'
  BY <1>0, <1>12, Onward DEF Extract, HandInv, TypeOK
<1>13. ASSUME NEW p \in Passes, Bounce(p) PROVE IInv'
  <2>1. /\ UNCHANGED <<uploadedAt, supersededBy, todo>>
        /\ pc[p] = "gate" /\ Goto(p, "reopen", doc[p], NoDoc)
        /\ \A e \in Docs : Uploaded(e) => Uploaded(e)'
    BY <1>0, <1>13 DEF Bounce, Uploaded, TypeOK
  <2>2. QED
    BY <1>0, <2>1 DEF Goto, IInv, HandInv, ChainInv, SupersededByNewer, Uploaded, InHand, TypeOK
<1>14. ASSUME NEW p \in Passes, Reopen(p) PROVE IInv'
  BY <1>0, <1>14, Onward DEF Reopen, AfterBounce, Return, InHand
<1>15. ASSUME NEW p \in Passes, FindPrior(p) PROVE IInv'
  <2>1. Uploaded(doc[p]) /\ UNCHANGED <<state, uploadedAt, supersededBy, todo>>
    BY <1>0, <1>15 DEF FindPrior, HandInv, InHand
  <2>2. CASE Return(p) \/ Goto(p, "ladder", doc[p], NoDoc)
    BY <1>0, <2>1, <2>2, Onward DEF Return, InHand
  <2>3. ASSUME NEW e \in Priors(doc[p]), Goto(p, "displace", doc[p], e) PROVE IInv'
    <3>1. Uploaded(e) /\ uploadedAt[e] < uploadedAt[doc[p]]
      BY <1>0, <2>1, PriorsAreOlder DEF Uploaded
    <3>2. QED
      BY <1>0, <2>1, <2>3, <3>1, Onward
  <2>4. QED
    BY <1>15, <2>2, <2>3 DEF FindPrior
<1>16. ASSUME NEW p \in Passes, Displace(p) PROVE IInv'
  <2>1. /\ Uploaded(doc[p]) /\ Uploaded(prior[p])
        /\ uploadedAt[prior[p]] < uploadedAt[doc[p]]
        /\ supersededBy' = [supersededBy EXCEPT ![prior[p]] = doc[p]]
        /\ UNCHANGED <<state, uploadedAt, todo>>
    BY <1>0, <1>16 DEF Displace, HandInv, InHand
  <2>2. HandInv'
    <3>1. CASE doc[p] \in dated
      BY <1>0, <1>16, <2>1, <3>1 DEF Displace, Goto, HandInv, Uploaded, InHand, TypeOK
    <3>2. CASE doc[p] \notin dated
      BY <1>0, <1>16, <2>1, <3>2 DEF Displace, Return, Goto, HandInv, Uploaded, InHand, TypeOK
    <3>3. QED
      BY <3>1, <3>2
  <2>3. ChainInv' /\ SupersededByNewer'
    BY <1>0, <2>1 DEF IInv, ChainInv, SupersededByNewer, Uploaded, TypeOK
  <2>4. QED
    BY <1>0, <2>2, <2>3 DEF IInv
<1>17. ASSUME NEW p \in Passes, Withdraw(p) PROVE IInv'
  BY <1>0, <1>17, Onward DEF Withdraw, HandInv, InHand
<1>18. ASSUME NEW p \in Passes, CheckLadder(p) PROVE IInv'
  BY <1>0, <1>18, Onward DEF CheckLadder, Return, HandInv, InHand
<1>19. ASSUME NEW p \in Passes, ScheduleLadder(p) PROVE IInv'
  BY <1>0, <1>19, Onward DEF ScheduleLadder, HandInv, InHand
<1>20. ASSUME NEW p \in Passes, ScheduleDayZero(p) PROVE IInv'
  BY <1>0, <1>20, Onward DEF ScheduleDayZero, Return, InHand
<1>21. ASSUME NEW p \in Passes, CrashPass(p) PROVE IInv'
  BY <1>0, <1>21 DEF CrashPass, IInv, HandInv, ChainInv, SupersededByNewer, Uploaded, InHand, TypeOK
<1>22. CASE UNCHANGED vars
  BY <1>0, <1>22, Aside DEF vars
<1>23. QED
  BY <1>1, <1>2, <1>3, <1>4, <1>5, <1>6, <1>7, <1>8, <1>9, <1>10, <1>11, <1>12, <1>13,
     <1>14, <1>15, <1>16, <1>17, <1>18, <1>19, <1>20, <1>21, <1>22
     DEF Next, PassStep, FinishJob, FailJob

\* Every reachable state of the pipeline has the declared types.
THEOREM TypeCorrect == Spec => []TypeOK
<1>1. IInv => TypeOK
  BY DEF IInv
<1>2. QED
  BY <1>1, InitIInv, IInvStep, PTL DEF Spec

\* The strictly-older guard (renewal.ts:250-253): no order of processing and no
\* number of overlapping passes makes two uploads supersede each other, or any
\* document point back to an upload that is not strictly newer.
THEOREM SupersessionIsNewer == Spec => []SupersededByNewer
<1>1. IInv => SupersededByNewer
  BY DEF IInv
<1>2. QED
  BY <1>1, InitIInv, IInvStep, PTL DEF Spec

-----------------------------------------------------------------------------
(* One pass at a time: the vendor keeps a current document *)

OnePass == \A p, q \in Passes : p = q

Current(d) == state[d] \in {"active", "correction_requested"}

\* A pass extracts a document once, and while it has it in hand nobody bounces it.
OnceInv ==
    /\ \A p \in Passes : \A d \in todo[p] : d \notin extracted /\ Current(d)
    /\ \A p \in Passes : pc[p] \in InHand \ {"reopen"} =>
         doc[p] \in extracted /\ Current(doc[p]) /\ doc[p] \notin everBounced
    /\ everBounced \subseteq extracted
    /\ \A d \in extracted : Uploaded(d)

\* A document the gate has let through, and that nothing has displaced, at least as
\* new as every document that has displaced another.
Kept(d) ==
    /\ d \in extracted /\ Current(d) /\ d \notin everBounced
    /\ \A p \in Passes : pc[p] = "gate" => doc[p] # d
Top(d) ==
    /\ Kept(d) /\ supersededBy[d] = NoDoc
    /\ \A e \in Docs : supersededBy[e] # NoDoc => uploadedAt[supersededBy[e]] <= uploadedAt[d]
TopKept == \E d \in Docs : Top(d)

PastGate == {"displace", "withdraw", "ladder", "schedule", "dayZero"}

\* There is one as soon as a document has passed the gate.
TopInv ==
    \/ TopKept
    \/ /\ \A d \in Docs : supersededBy[d] = NoDoc /\ dayZero[d] = "none"
       /\ \A p \in Passes : pc[p] \notin PastGate

KeptInv == IInv /\ OnceInv /\ TopInv

\* Nobody dies or fails: what was expired when it was read is bounced by the pass
\* that has it in hand, however many passes overlap.
NoFaults == MaxFailures = 0 /\ MaxCrashes = 0

ExpiredInv ==
    \A d \in expiredSeen :
        /\ UTCMidnightPast(d)
        /\ \/ state[d] \in {"bounced_expired", "correction_requested"}
           \/ \E p \in Passes : pc[p] = "gate" /\ doc[p] = d

LEMMA InitKept == Init => KeptInv /\ ExpiredInv
<1> SUFFICES ASSUME Init PROVE KeptInv /\ ExpiredInv
  OBVIOUS
<1>1. OnceInv /\ TopInv /\ ExpiredInv
  BY DEF Init, OnceInv, TopInv, ExpiredInv, InHand, PastGate
<1>2. QED
  BY <1>1, InitIInv DEF KeptInv

\* A step that bounces nothing, displaces nothing, and brings no document to the gate.
LEMMA TopAside ==
  ASSUME IInv, OnceInv, TopKept,
         supersededBy' = supersededBy, extracted' = extracted, everBounced' = everBounced,
         \A d \in Docs : Uploaded(d) => uploadedAt'[d] = uploadedAt[d],
         \A d \in Docs : Current(d) => Current(d)',
         \A p \in Passes : pc'[p] = "gate" => pc[p] = "gate" /\ doc'[p] = doc[p]
  PROVE  TopKept'
<1>1. PICK x \in Docs : Top(x)
  BY DEF TopKept
<1>2. Kept(x)'
  BY <1>1 DEF Top, Kept
<1>3. \A e \in Docs : supersededBy[e] # NoDoc => uploadedAt'[supersededBy[e]] = uploadedAt[supersededBy[e]]
  BY DEF IInv, ChainInv, Uploaded
<1>4. uploadedAt'[x] = uploadedAt[x]
  BY <1>1 DEF Top, Kept, Current, Uploaded
<1>5. Top(x)'
  BY <1>1, <1>2, <1>3, <1>4 DEF Top
<1>6. QED
  BY <1>5 DEF TopKept

LEMMA TopExtract ==
  ASSUME IInv, OnceInv, TopKept, NEW p \in Passes, NEW d \in Docs, Extract(p, d)
  PROVE  TopKept'
<1>1. PICK x \in Docs : Top(x)
  BY DEF TopKept
<1>2. /\ d \notin extracted /\ extracted' = extracted \cup {d}
      /\ UNCHANGED <<state, supersededBy, uploadedAt, everBounced>>
      /\ \A q \in Passes \ {p} : pc'[q] = pc[q] /\ doc'[q] = doc[q]
      /\ doc'[p] = d
  BY DEF Extract, OnceInv, Goto, docVars, IInv, TypeOK
<1>3. Top(x)'
  BY <1>1, <1>2 DEF Top, Kept, Current
<1>4. QED
  BY <1>3 DEF TopKept

LEMMA TopBounce ==
  ASSUME IInv, OnceInv, TopKept, NEW p \in Passes, Bounce(p)
  PROVE  TopKept'
<1>1. PICK x \in Docs : Top(x)
  BY DEF TopKept
<1>2. /\ pc[p] = "gate" /\ everBounced' = everBounced \cup {doc[p]}
      /\ state' = [state EXCEPT ![doc[p]] = "bounced_expired"]
      /\ UNCHANGED <<supersededBy, uploadedAt, extracted>>
      /\ \A q \in Passes \ {p} : pc'[q] = pc[q] /\ doc'[q] = doc[q]
      /\ pc'[p] = "reopen"
  BY DEF Bounce, Goto, IInv, TypeOK
<1>3. x # doc[p]
  BY <1>1, <1>2 DEF Top, Kept
<1>4. Kept(x)'
  BY <1>1, <1>2, <1>3 DEF Top, Kept, Current, IInv, TypeOK
<1>5. Top(x)'
  BY <1>1, <1>2, <1>4 DEF Top
<1>6. QED
  BY <1>5 DEF TopKept

\* The document that displaces another is the newest now, or older than the one that is.
LEMMA TopDisplace ==
  ASSUME OnePass, KeptInv, TopKept, NEW p \in Passes, Displace(p)
  PROVE  TopKept'
<1>0. doc[p] \in Docs /\ prior[p] \in Docs
  BY DEF Displace, KeptInv, IInv, HandInv, InHand, Uploaded
<1>10. PICK d \in Docs : d = doc[p]
  BY <1>0
<1>11. PICK e \in Docs : e = prior[p]
  BY <1>0
<1>1. /\ uploadedAt[e] < uploadedAt[d]
      /\ d \in extracted /\ Current(d) /\ d \notin everBounced
      /\ uploadedAt \in [Docs -> Nat]
  BY <1>10, <1>11 DEF Displace, KeptInv, IInv, HandInv, OnceInv, InHand, Uploaded, TypeOK
<1>2. /\ supersededBy' = [supersededBy EXCEPT ![e] = d]
      /\ UNCHANGED <<state, uploadedAt, extracted, everBounced>>
  BY <1>10, <1>11 DEF Displace, history
<1>3. \A q \in Passes : pc'[q] # "gate"
  BY DEF Displace, Return, Goto, OnePass, KeptInv, IInv, TypeOK
<1>4. /\ supersededBy'[e] = d
      /\ \A x \in Docs \ {e} : supersededBy'[x] = supersededBy[x]
  BY <1>1, <1>2 DEF KeptInv, IInv, TypeOK
<1>5. PICK x \in Docs : Top(x)
  BY DEF TopKept
<1>6. \A y \in Docs : supersededBy[y] # NoDoc => supersededBy[y] \in Docs
  BY DEF KeptInv, IInv, TypeOK
<1>7. CASE uploadedAt[x] >= uploadedAt[d]
  <2>1. x # e
    BY <1>1, <1>7
  <2>2. Kept(x)'
    BY <1>2, <1>3, <1>5 DEF Top, Kept, Current
  <2>3. \A y \in Docs : supersededBy'[y] # NoDoc => uploadedAt[supersededBy'[y]] <= uploadedAt[x]
    BY <1>1, <1>4, <1>5, <1>6, <1>7 DEF Top
  <2>4. Top(x)'
    BY <1>2, <1>4, <1>5, <2>1, <2>2, <2>3 DEF Top
  <2>5. QED
    BY <2>4 DEF TopKept
<1>8. CASE uploadedAt[x] < uploadedAt[d]
  <2>1. supersededBy[d] = NoDoc /\ d # e
    <3>1. ASSUME supersededBy[d] # NoDoc PROVE FALSE
      <4>1. uploadedAt[d] < uploadedAt[supersededBy[d]]
        BY <1>1, <3>1 DEF KeptInv, IInv, SupersededByNewer
      <4>2. uploadedAt[supersededBy[d]] <= uploadedAt[x]
        BY <1>1, <1>5, <3>1 DEF Top
      <4>3. supersededBy[d] \in Docs
        BY <1>1, <1>6, <3>1
      <4>4. QED
        BY <1>1, <1>8, <4>1, <4>2, <4>3
    <3>2. QED
      BY <1>1, <3>1
  <2>2. Kept(d)'
    BY <1>1, <1>2, <1>3 DEF Kept, Current
  <2>3. \A y \in Docs : supersededBy'[y] # NoDoc => uploadedAt[supersededBy'[y]] <= uploadedAt[d]
    BY <1>1, <1>4, <1>5, <1>6, <1>8 DEF Top
  <2>4. Top(d)'
    BY <1>1, <1>2, <1>4, <2>1, <2>2, <2>3 DEF Top
  <2>5. QED
    BY <1>1, <2>4 DEF TopKept
<1>9. QED
  BY <1>1, <1>5, <1>7, <1>8

\* The document that passes the gate is the newest now, unless there is one already.
LEMMA TopFound ==
  ASSUME OnePass, KeptInv, NEW p \in Passes, FindPrior(p)
  PROVE  TopKept'
<1>1. /\ pc[p] = "gate" /\ UNCHANGED <<state, uploadedAt, supersededBy, extracted, everBounced>>
      /\ doc[p] \in Docs /\ doc[p] \in extracted /\ Current(doc[p]) /\ doc[p] \notin everBounced
  BY DEF FindPrior, docVars, history, KeptInv, IInv, HandInv, OnceInv, InHand, Uploaded
<1>2. \A q \in Passes : pc'[q] # "gate"
  BY DEF FindPrior, Return, Goto, OnePass, KeptInv, IInv, TypeOK
<1>3. CASE TopKept
  BY <1>1, <1>2, <1>3, TopAside DEF KeptInv, Current
<1>4. CASE ~TopKept
  <2>1. \A e \in Docs : supersededBy[e] = NoDoc
    BY <1>4 DEF KeptInv, TopInv
  <2>2. PICK d \in Docs : d = doc[p]
    BY <1>1
  <2>3. Top(d)'
    BY <1>1, <1>2, <2>1, <2>2 DEF Top, Kept, Current
  <2>4. QED
    BY <2>3 DEF TopKept
<1>5. QED
  BY <1>3, <1>4

\* Releasing a job and dying leave a pass without a document.
LEMMA TopStays ==
  ASSUME OnePass, KeptInv, TopKept, [Next]_vars
  PROVE  TopKept'
<1>0. TypeOK /\ IInv /\ OnceInv
  BY DEF KeptInv, IInv
<1> USE DEF docVars, chaseVars, passVars, history, bounds
<1>1. ASSUME NEW d \in Docs, NEW m \in 0..MaxArrival, NEW w \in BOOLEAN, NEW l \in BOOLEAN, Upload(d, m, w, l)
      PROVE  TopKept'
  <2>1. \A e \in Docs : Uploaded(e) => uploadedAt'[e] = uploadedAt[e]
    BY <1>0, <1>1 DEF Upload, Uploaded, TypeOK
  <2>2. \A e \in Docs : Current(e) => Current(e)'
    BY <1>0, <1>1 DEF Upload, Current, TypeOK
  <2>3. QED
    BY <1>0, <1>1, <2>1, <2>2, TopAside DEF Upload
<1>2. CASE FlagWrite
  <2>1. \A e \in Docs : Current(e) => Current(e)'
    BY <1>0, <1>2 DEF FlagWrite, Current, TypeOK
  <2>2. QED
    BY <1>0, <1>2, <2>1, TopAside DEF FlagWrite
<1>3. CASE \/ \E d \in Docs : Lapse(d) \/ DayZeroJob(d)
           \/ \E j \in Jobs : QueueJob(j)
           \/ FlagRead \/ UNCHANGED vars
  BY <1>0, <1>3, TopAside DEF Lapse, DayZeroJob, FireDayZero, ReclaimDayZero, SettleDayZero, QueueJob, FlagRead, vars, Current
<1>4. ASSUME NEW p \in Passes, \/ \E r \in SUBSET Jobs : StartPass(p, r)
                               \/ \E j \in Jobs : Claim(p, j)
                               \/ Select(p) \/ EndPass(p)
      PROVE  TopKept'
  <2>1. /\ UNCHANGED <<state, uploadedAt, supersededBy, extracted, everBounced, doc>>
        /\ pc' = pc \/ \E step \in {"claim", "select", "extract", "idle"} : pc' = [pc EXCEPT ![p] = step]
    BY <1>4 DEF StartPass, Claim, Select, EndPass
  <2>2. \A q \in Passes : pc'[q] = "gate" => pc[q] = "gate" /\ doc'[q] = doc[q]
    BY <1>0, <2>1 DEF TypeOK
  <2>3. QED
    BY <1>0, <2>1, <2>2, TopAside DEF Current
<1>5. ASSUME NEW p \in Passes, Release(p, "done") \/ Release(p, "failed") \/ CrashPass(p)
      PROVE  TopKept'
  <2>1. /\ UNCHANGED <<state, uploadedAt, supersededBy, extracted, everBounced>>
        /\ \E step \in {"claim", "idle"} : pc' = [pc EXCEPT ![p] = step]
        /\ doc' = [doc EXCEPT ![p] = NoDoc]
    BY <1>5 DEF Release, CrashPass
  <2>2. \A q \in Passes : pc'[q] = "gate" => pc[q] = "gate" /\ doc'[q] = doc[q]
    BY <1>0, <2>1 DEF TypeOK
  <2>3. QED
    BY <1>0, <2>1, <2>2, TopAside DEF Current
<1>6. ASSUME NEW p \in Passes, NEW d \in Docs, Extract(p, d) PROVE TopKept'
  BY <1>0, <1>6, TopExtract
<1>7. ASSUME NEW p \in Passes, Bounce(p) PROVE TopKept'
  BY <1>0, <1>7, TopBounce
<1>8. ASSUME NEW p \in Passes, \/ Reopen(p) \/ Withdraw(p) \/ CheckLadder(p) \/ ScheduleLadder(p)
                               \/ ScheduleDayZero(p)
      PROVE  TopKept'
  <2>1. /\ UNCHANGED <<state, uploadedAt, supersededBy, extracted, everBounced>>
        /\ \E step \in {"extract", "ladder", "schedule", "dayZero"} : pc' = [pc EXCEPT ![p] = step]
        /\ \A q \in Passes \ {p} : doc'[q] = doc[q]
    BY <1>0, <1>8 DEF Reopen, AfterBounce, Withdraw, CheckLadder, ScheduleLadder, ScheduleDayZero,
       Return, Goto, TypeOK
  <2>2. \A q \in Passes : pc'[q] = "gate" => pc[q] = "gate" /\ doc'[q] = doc[q]
    BY <1>0, <2>1 DEF TypeOK
  <2>3. QED
    BY <1>0, <2>1, <2>2, TopAside DEF Current
<1>9. ASSUME NEW p \in Passes, FindPrior(p) PROVE TopKept'
  BY <1>9, TopFound
<1>10. ASSUME NEW p \in Passes, Displace(p) PROVE TopKept'
  BY <1>10, TopDisplace
<1>11. QED
  BY <1>1, <1>2, <1>3, <1>4, <1>5, <1>6, <1>7, <1>8, <1>9, <1>10
     DEF Next, PassStep, FinishJob, FailJob

LEMMA TopStep ==
  ASSUME OnePass, KeptInv, [Next]_vars
  PROVE  TopInv'
<1>0. TypeOK /\ IInv /\ OnceInv
  BY DEF KeptInv, IInv
<1>1. CASE TopKept
  BY <1>1, TopStays DEF TopInv
<1>2. CASE ~TopKept
  <2>1. /\ \A d \in Docs : supersededBy[d] = NoDoc /\ dayZero[d] = "none"
        /\ \A p \in Passes : pc[p] \notin PastGate
    BY <1>2 DEF KeptInv, TopInv
  <2>2. ASSUME NEW p \in Passes, FindPrior(p) PROVE TopInv'
    BY <2>2, TopFound DEF TopInv
  <2>3. ASSUME NEW p \in Passes, \/ Displace(p) \/ Withdraw(p) \/ CheckLadder(p) \/ ScheduleLadder(p)
                                 \/ ScheduleDayZero(p)
        PROVE  FALSE
    BY <2>1, <2>3 DEF PastGate, Displace, Withdraw, CheckLadder, ScheduleLadder, ScheduleDayZero
  <2>4. ASSUME NEW d \in Docs, DayZeroJob(d) PROVE FALSE
    BY <2>1, <2>4 DEF DayZeroJob, FireDayZero, ReclaimDayZero, SettleDayZero
  <2> DEFINE Still == /\ UNCHANGED <<supersededBy, dayZero>>
                      /\ \/ pc' = pc
                         \/ \E p \in Passes, step \in Steps \ PastGate : pc' = [pc EXCEPT ![p] = step]
  <2>5. Still => TopInv'
    BY <1>0, <2>1 DEF TopInv, PastGate, TypeOK
  <2> USE DEF docVars, chaseVars, passVars, history, bounds, Steps, PastGate
  <2>6. ASSUME \/ \E d \in Docs, m \in 0..MaxArrival, w, l \in BOOLEAN : Upload(d, m, w, l)
               \/ \E d \in Docs : Lapse(d)
               \/ \E j \in Jobs : QueueJob(j)
               \/ FlagRead \/ FlagWrite \/ UNCHANGED vars
        PROVE  Still
    BY <2>6 DEF Upload, Lapse, QueueJob, FlagRead, FlagWrite, vars
  <2>7. ASSUME NEW p \in Passes, \/ \E r \in SUBSET Jobs : StartPass(p, r)
                                 \/ \E j \in Jobs : Claim(p, j)
                                 \/ Select(p) \/ EndPass(p) \/ FinishJob(p) \/ FailJob(p) \/ CrashPass(p)
        PROVE  Still
    BY <2>7 DEF StartPass, Claim, Select, EndPass, FinishJob, FailJob, Release, CrashPass
  <2>8. ASSUME NEW p \in Passes, (\E d \in Docs : Extract(p, d)) \/ Bounce(p) \/ Reopen(p)
        PROVE  Still
    BY <2>8 DEF Extract, Bounce, Reopen, AfterBounce, Return, Goto
  <2> HIDE DEF Still
  <2>9. QED
    BY <2>2, <2>3, <2>4, <2>5, <2>6, <2>7, <2>8 DEF Next, PassStep
<1>3. QED
  BY <1>1, <1>2

\* A step in which pass p takes the step "step" with d and e in hand, and neither the
\* documents nor what is extracted or bounced changes.
LEMMA OnceOnward ==
  ASSUME TypeOK, OnceInv, NEW p \in Passes, NEW step, NEW d, NEW e, Goto(p, step, d, e),
         step \in InHand \ {"reopen"} => d \in extracted /\ Current(d) /\ d \notin everBounced,
         todo' = todo, UNCHANGED <<state, extracted, everBounced>>
  PROVE  OnceInv'
BY DEF OnceInv, Goto, Current, Uploaded, TypeOK

LEMMA OnceStep ==
  ASSUME OnePass, IInv, OnceInv, [Next]_vars
  PROVE  OnceInv'
<1>0. TypeOK /\ HandInv
  BY DEF IInv
<1> USE DEF docVars, chaseVars, passVars, history, bounds
<1>1. ASSUME NEW d \in Docs, NEW m \in 0..MaxArrival, NEW w \in BOOLEAN, NEW l \in BOOLEAN, Upload(d, m, w, l)
      PROVE  OnceInv'
  <2>1. /\ \A e \in Docs : Current(e) => Current(e)'
        /\ \A e \in Docs : Uploaded(e) => Uploaded(e)'
        /\ UNCHANGED <<extracted, everBounced, pc, todo, doc>>
    BY <1>0, <1>1 DEF Upload, Current, Uploaded, TypeOK
  <2>2. /\ \A p \in Passes : todo[p] \subseteq Docs
        /\ \A p \in Passes : pc[p] \in InHand => doc[p] \in Docs
    BY <1>0 DEF TypeOK, HandInv, Uploaded
  <2>3. QED
    BY <1>0, <2>1, <2>2 DEF OnceInv, Uploaded
<1>2. CASE FlagWrite
  <2>1. /\ \A e \in Docs : Current(e) => Current(e)'
        /\ \A e \in Docs : Uploaded(e) => Uploaded(e)'
        /\ UNCHANGED <<extracted, everBounced, pc, todo, doc>>
    BY <1>0, <1>2 DEF FlagWrite, Current, Uploaded, TypeOK
  <2>2. /\ \A p \in Passes : todo[p] \subseteq Docs
        /\ \A p \in Passes : pc[p] \in InHand => doc[p] \in Docs
    BY <1>0 DEF TypeOK, HandInv, Uploaded
  <2>3. QED
    BY <1>0, <2>1, <2>2 DEF OnceInv, Uploaded
<1>3. CASE \/ \E d \in Docs : Lapse(d) \/ DayZeroJob(d)
           \/ \E j \in Jobs : QueueJob(j)
           \/ FlagRead \/ UNCHANGED vars
  BY <1>3 DEF Lapse, DayZeroJob, FireDayZero, ReclaimDayZero, SettleDayZero, QueueJob, FlagRead, vars, OnceInv, Current, Uploaded
<1>4. ASSUME NEW p \in Passes, \/ \E r \in SUBSET Jobs : StartPass(p, r)
                               \/ \E j \in Jobs : Claim(p, j)
                               \/ EndPass(p)
      PROVE  OnceInv'
  <2>1. /\ UNCHANGED <<state, extracted, everBounced, doc, todo>>
        /\ pc' = pc \/ \E step \in {"claim", "select", "idle"} : pc' = [pc EXCEPT ![p] = step]
    BY <1>4 DEF StartPass, Claim, EndPass
  <2>2. \A q \in Passes : pc'[q] \in InHand => pc[q] = pc'[q]
    BY <1>0, <2>1 DEF TypeOK, InHand
  <2>3. QED
    BY <2>1, <2>2 DEF OnceInv, Current, Uploaded
<1>5. ASSUME NEW p \in Passes, Release(p, "done") \/ Release(p, "failed") \/ CrashPass(p)
      PROVE  OnceInv'
  <2>1. /\ UNCHANGED <<state, extracted, everBounced>>
        /\ \E step \in {"claim", "idle"} : pc' = [pc EXCEPT ![p] = step]
        /\ doc' = [doc EXCEPT ![p] = NoDoc] /\ todo' = [todo EXCEPT ![p] = {}]
    BY <1>5 DEF Release, CrashPass
  <2>2. /\ \A q \in Passes : todo'[q] \subseteq todo[q]
        /\ \A q \in Passes : pc'[q] \in InHand => pc[q] = pc'[q] /\ doc'[q] = doc[q]
    BY <1>0, <2>1 DEF TypeOK, InHand
  <2>3. QED
    BY <2>1, <2>2 DEF OnceInv, Current, Uploaded
<1>6. ASSUME NEW p \in Passes, Select(p) PROVE OnceInv'
  <2>1. /\ UNCHANGED <<state, extracted, everBounced, doc>>
        /\ pc' = [pc EXCEPT ![p] = "extract"]
        /\ todo' = [todo EXCEPT ![p] = {d \in Docs : Pending(d)}]
    BY <1>6 DEF Select
  <2>2. \A q \in Passes : pc'[q] \in InHand => pc[q] = pc'[q]
    BY <1>0, <2>1 DEF TypeOK, InHand
  <2>3. \A q \in Passes : \A d \in todo'[q] : d \in todo[q] \/ Pending(d)
    BY <1>0, <2>1 DEF TypeOK
  <2>4. QED
    BY <2>1, <2>2, <2>3 DEF OnceInv, Current, Uploaded, Pending
<1>7. ASSUME NEW p \in Passes, NEW d \in Docs, Extract(p, d) PROVE OnceInv'
  <2>1. /\ d \in todo[p] /\ d \notin extracted /\ Current(d) /\ Uploaded(d)
        /\ extracted' = extracted \cup {d} /\ UNCHANGED <<state, everBounced>>
    BY <1>0, <1>7 DEF Extract, OnceInv, HandInv
  <2>2. /\ \A q \in Passes : q = p
        /\ todo'[p] = todo[p] \ {d} /\ doc'[p] = d
    BY <1>0, <1>7 DEF Extract, Goto, TypeOK, OnePass
  <2>3. QED
    BY <2>1, <2>2 DEF OnceInv, Current, Uploaded
<1>8. ASSUME NEW p \in Passes, Bounce(p) PROVE OnceInv'
  <2>1. PICK d \in Docs : d = doc[p]
    BY <1>0, <1>8 DEF Bounce, HandInv, InHand, Uploaded
  <2>2. /\ d \in extracted /\ everBounced' = everBounced \cup {d}
        /\ state' = [state EXCEPT ![d] = "bounced_expired"] /\ UNCHANGED <<extracted, todo>>
    BY <1>8, <2>1 DEF Bounce, OnceInv, InHand
  <2>3. \A q \in Passes : q = p /\ pc'[q] = "reopen" /\ todo[q] \subseteq Docs
    BY <1>0, <1>8 DEF Bounce, Goto, TypeOK, OnePass
  <2>4. \A e \in Docs \ {d} : Current(e) => Current(e)'
    BY <1>0, <2>2 DEF Current, TypeOK
  <2>5. \A e \in Docs : Uploaded(e) => Uploaded(e)'
    BY <1>0, <2>2 DEF Uploaded, TypeOK
  <2>6. QED
    BY <2>2, <2>3, <2>4, <2>5 DEF OnceInv, Uploaded
<1>9. ASSUME NEW p \in Passes, \/ Reopen(p) \/ FindPrior(p) \/ Displace(p) \/ Withdraw(p)
                               \/ CheckLadder(p) \/ ScheduleLadder(p) \/ ScheduleDayZero(p)
      PROVE  OnceInv'
  <2>1. /\ UNCHANGED <<state, extracted, everBounced, todo>>
        /\ \E step \in Steps, e \in Docs \cup {NoDoc} : \/ Goto(p, step, doc[p], e) /\ pc[p] # "reopen"
                                                        \/ Return(p)
    <3>1. CASE FindPrior(p)
      <4>1. doc[p] \in Docs /\ \A e \in Priors(doc[p]) : e \in Docs
        BY <1>0, <3>1 DEF FindPrior, HandInv, InHand, Uploaded, Priors, Newest
      <4>2. QED
        BY <3>1, <4>1 DEF FindPrior, Steps
    <3>2. CASE Displace(p)
      BY <1>0, <3>2 DEF Displace, Steps, TypeOK
    <3>3. QED
      BY <1>9, <3>1, <3>2 DEF Reopen, AfterBounce, Withdraw, CheckLadder, ScheduleLadder, ScheduleDayZero, Steps
  <2>2. pc[p] \in InHand
    BY <1>9 DEF Reopen, FindPrior, Displace, Withdraw, CheckLadder, ScheduleLadder, ScheduleDayZero, InHand
  <2>3. QED
    BY <1>0, <2>1, <2>2, OnceOnward DEF Return, OnceInv, InHand
<1>10. QED
  BY <1>1, <1>2, <1>3, <1>4, <1>5, <1>6, <1>7, <1>8, <1>9
     DEF Next, PassStep, FinishJob, FailJob

LEMMA KeptStep ==
  ASSUME OnePass, KeptInv, [Next]_vars
  PROVE  KeptInv'
BY IInvStep, OnceStep, TopStep DEF KeptInv

LEMMA KeptOne == KeptInv => NeverLeftWithout
BY DEF KeptInv, TopInv, TopKept, Top, Kept, Current, NeverLeftWithout, Live

\* worker.ts:111-113: the gate comes before the supersession, so that a worker that
\* runs one pass at a time never leaves a vendor that has renewed without a current
\* document, with any number of documents, jobs, lapses, flags, failures and crashes.
THEOREM NeverLeftWithoutHolds == OnePass => (Spec => []NeverLeftWithout)
<1> SUFFICES ASSUME OnePass PROVE Spec => []NeverLeftWithout
  OBVIOUS
<1>1. KeptInv /\ [Next]_vars => KeptInv'
  BY KeptStep
<1>2. QED
  BY <1>1, InitKept, KeptOne, PTL DEF Spec

-----------------------------------------------------------------------------
(* What was expired when it was read *)

LEMMA ExpiredStep ==
  ASSUME NoFaults, IInv, ExpiredInv, [Next]_vars
  PROVE  ExpiredInv'
<1>0. TypeOK /\ HandInv
  BY DEF IInv
<1> USE DEF docVars, chaseVars, passVars, history, bounds
<1>a. ASSUME expiredSeen' = expiredSeen, UNCHANGED <<expiry, state>>,
             \A p \in Passes : pc[p] = "gate" => pc'[p] = "gate" /\ doc'[p] = doc[p]
      PROVE  ExpiredInv'
  BY <1>a DEF ExpiredInv, UTCMidnightPast
<1>1. ASSUME NEW d \in Docs, NEW m \in 0..MaxArrival, NEW w \in BOOLEAN, NEW l \in BOOLEAN, Upload(d, m, w, l)
      PROVE  ExpiredInv'
  <2>1. d \notin expiredSeen
    BY <1>0, <1>1 DEF Upload, ExpiredInv, HandInv, InHand, Uploaded
  <2>2. /\ \A e \in Docs \ {d} : state'[e] = state[e] /\ expiry'[e] = expiry[e]
        /\ UNCHANGED <<expiredSeen, pc, doc>> /\ expiredSeen \subseteq Docs
    BY <1>0, <1>1 DEF Upload, TypeOK
  <2>3. QED
    BY <2>1, <2>2 DEF ExpiredInv, UTCMidnightPast
<1>2. CASE FlagWrite
  <2>1. /\ \A e \in Docs : state'[e] \in {state[e], "correction_requested"}
        /\ UNCHANGED <<expiry, expiredSeen, pc, doc>> /\ expiredSeen \subseteq Docs
    BY <1>0, <1>2 DEF FlagWrite, TypeOK
  <2>2. QED
    BY <2>1 DEF ExpiredInv, UTCMidnightPast
<1>3. ASSUME NEW d \in Docs, Lapse(d) PROVE ExpiredInv'
  <2>1. /\ \A e \in Docs : UTCMidnightPast(e) => UTCMidnightPast(e)'
        /\ UNCHANGED <<state, expiredSeen, pc, doc>> /\ expiredSeen \subseteq Docs
    BY <1>0, <1>3 DEF Lapse, UTCMidnightPast, TypeOK
  <2>2. QED
    BY <2>1 DEF ExpiredInv
<1>4. CASE \/ \E d \in Docs : DayZeroJob(d)
           \/ \E j \in Jobs : QueueJob(j)
           \/ FlagRead \/ UNCHANGED vars
  BY <1>a, <1>4 DEF DayZeroJob, FireDayZero, ReclaimDayZero, SettleDayZero, QueueJob, FlagRead, vars
<1>5. ASSUME NEW p \in Passes, \/ \E r \in SUBSET Jobs : StartPass(p, r)
                               \/ \E j \in Jobs : Claim(p, j)
                               \/ Select(p) \/ EndPass(p) \/ FinishJob(p)
      PROVE  ExpiredInv'
  <2>1. /\ UNCHANGED <<state, expiry, expiredSeen>> /\ pc[p] # "gate"
        /\ \A q \in Passes \ {p} : pc'[q] = pc[q] /\ doc'[q] = doc[q]
    BY <1>0, <1>5 DEF StartPass, Claim, Select, EndPass, FinishJob, Release, TypeOK
  <2>2. QED
    BY <1>a, <2>1
<1>6. ASSUME NEW p \in Passes, FailJob(p) \/ CrashPass(p) PROVE FALSE
  BY <1>0, <1>6 DEF FailJob, CrashPass, NoFaults, TypeOK
<1>7. ASSUME NEW p \in Passes, NEW d \in Docs, Extract(p, d) PROVE ExpiredInv'
  <2>1. /\ UNCHANGED <<state, expiry>> /\ pc[p] # "gate"
        /\ pc'[p] = "gate" /\ doc'[p] = d
        /\ \A q \in Passes \ {p} : pc'[q] = pc[q] /\ doc'[q] = doc[q]
        /\ expiredSeen' = IF UTCMidnightPast(d) THEN expiredSeen \cup {d} ELSE expiredSeen
    BY <1>0, <1>7 DEF Extract, Goto, TypeOK
  <2>2. QED
    BY <2>1 DEF ExpiredInv, UTCMidnightPast
<1>8. ASSUME NEW p \in Passes, Bounce(p) PROVE ExpiredInv'
  <2>1. /\ UNCHANGED <<expiry, expiredSeen>> /\ expiredSeen \subseteq Docs
        /\ \A q \in Passes \ {p} : pc'[q] = pc[q] /\ doc'[q] = doc[q]
        /\ \A e \in Docs : state'[e] = IF e = doc[p] THEN "bounced_expired" ELSE state[e]
    BY <1>0, <1>8 DEF Bounce, Goto, TypeOK
  <2>2. QED
    BY <2>1 DEF ExpiredInv, UTCMidnightPast
<1>9. ASSUME NEW p \in Passes, FindPrior(p) PROVE ExpiredInv'
  <2>1. /\ UNCHANGED <<state, expiry, expiredSeen>> /\ ~UTCMidnightPast(doc[p])
        /\ \A q \in Passes \ {p} : pc'[q] = pc[q] /\ doc'[q] = doc[q]
    BY <1>0, <1>9 DEF FindPrior, GateExpired, Return, Goto, TypeOK
  <2>2. QED
    BY <2>1 DEF ExpiredInv, UTCMidnightPast
<1>10. ASSUME NEW p \in Passes, \/ Reopen(p) \/ Displace(p) \/ Withdraw(p)
                                \/ CheckLadder(p) \/ ScheduleLadder(p) \/ ScheduleDayZero(p)
       PROVE  ExpiredInv'
  <2>1. /\ UNCHANGED <<state, expiry, expiredSeen>> /\ pc[p] # "gate"
        /\ \A q \in Passes \ {p} : pc'[q] = pc[q] /\ doc'[q] = doc[q]
    BY <1>0, <1>10 DEF Reopen, AfterBounce, Displace, Withdraw, CheckLadder, ScheduleLadder,
       ScheduleDayZero, Return, Goto, TypeOK
  <2>2. QED
    BY <1>a, <2>1
<1>11. QED
  BY <1>1, <1>2, <1>3, <1>4, <1>5, <1>6, <1>7, <1>8, <1>9, <1>10 DEF Next, PassStep

\* worker.ts:109-118: without a failure or a crash no document that had expired when
\* Vision read it is still current once the worker is at rest, unless an admin has
\* flagged it: with any number of overlapping passes, whatever lapses meanwhile.
THEOREM ExpiredIsBouncedHolds == NoFaults => (Spec => []ExpiredIsBounced)
<1> SUFFICES ASSUME NoFaults PROVE Spec => []ExpiredIsBounced
  OBVIOUS
<1>1. Init => IInv /\ ExpiredInv
  BY InitKept DEF KeptInv
<1>2. IInv /\ ExpiredInv /\ [Next]_vars => (IInv /\ ExpiredInv)'
  BY IInvStep, ExpiredStep
<1>3. IInv /\ ExpiredInv => ExpiredIsBounced
  BY DEF ExpiredInv, ExpiredIsBounced, AtRest, Live
<1>4. QED
  BY <1>1, <1>2, <1>3, PTL DEF Spec

-----------------------------------------------------------------------------
(* The day-0 job of a current document *)

Carrying == {"gate"} \cup PastGate

\* Hours pass between the midnight the gate reads and the tenant's: the second
\* does not come while a pass still carries a document the gate let through.
Timely ==
    \A p \in Passes, d \in Docs :
        pc[p] \in PastGate /\ doc[p] = d /\ LocalMidnightPast(d)' => LocalMidnightPast(d)

\* A document the gate let through is not past the tenant's midnight; a ladder is
\* followed by its day-0 job; and a dated document that is extracted, active and
\* current has its job, or a pass carries it there.
DayZeroInv ==
    /\ \A d \in extracted : Uploaded(d)
    /\ \A p \in Passes : pc[p] \in PastGate => ~LocalMidnightPast(doc[p])
    /\ \A d \in Docs : ladders[d] > 0 =>
         dayZero[d] # "none" \/ \E p \in Passes : pc[p] = "dayZero" /\ doc[p] = d
    /\ \A d \in extracted \cap dated : state[d] = "active" /\ supersededBy[d] = NoDoc =>
         dayZero[d] # "none" \/ \E p \in Passes : pc[p] \in Carrying /\ doc[p] = d

\* A step that extracts nothing, activates nothing, and leaves what passes carry.
LEMMA DayZeroAside ==
  ASSUME IInv, DayZeroInv,
         UNCHANGED <<extracted, dated, expiry, ladders, supersededBy>>,
         \A d \in Docs : Uploaded(d) => Uploaded(d)',
         \A d \in Docs : state'[d] = "active" => state[d] = "active",
         \A d \in Docs : dayZero[d] # "none" => dayZero'[d] # "none",
         \A p \in Passes : pc[p] \in Carrying \/ pc'[p] \in Carrying =>
                             pc'[p] = pc[p] /\ doc'[p] = doc[p]
  PROVE  DayZeroInv'
<1>1. extracted \subseteq Docs
  BY DEF IInv, TypeOK
<1>2. \A d \in Docs : LocalMidnightPast(d)' = LocalMidnightPast(d)
  BY DEF LocalMidnightPast
<1>3. \A p \in Passes : pc'[p] \in PastGate => pc[p] \in PastGate /\ doc'[p] = doc[p]
  BY DEF Carrying
<1>4. (\A p \in Passes : pc[p] \in PastGate => ~LocalMidnightPast(doc[p]))'
  BY <1>3 DEF DayZeroInv, LocalMidnightPast
<1>5. \A p \in Passes : pc[p] = "dayZero" => pc'[p] = "dayZero" /\ doc'[p] = doc[p]
  BY DEF Carrying, PastGate
<1>6. QED
  BY <1>1, <1>3, <1>4, <1>5 DEF DayZeroInv, LocalMidnightPast, Uploaded

LEMMA DayZeroStep ==
  ASSUME NoFaults, WestOfUTC, IInv, DayZeroInv, [Next]_vars, [Timely]_vars
  PROVE  DayZeroInv'
<1>0. TypeOK /\ HandInv
  BY DEF IInv
<1>t. \A p \in Passes : pc[p] \in Carrying => doc[p] \in Docs /\ Uploaded(doc[p])
  BY <1>0 DEF HandInv, InHand, Carrying, PastGate, Uploaded
<1> USE DEF docVars, chaseVars, passVars, history, bounds
<1>1. ASSUME NEW d \in Docs, NEW m \in 0..MaxArrival, NEW w \in BOOLEAN, NEW l \in BOOLEAN, Upload(d, m, w, l)
      PROVE  DayZeroInv'
  <2>1. /\ ~Uploaded(d)
        /\ \A e \in Docs \ {d} : state'[e] = state[e] /\ expiry'[e] = expiry[e]
        /\ \A e \in Docs \ {d} : e \in dated' <=> e \in dated
        /\ UNCHANGED <<supersededBy, extracted, ladders, dayZero, pc, doc>>
    BY <1>0, <1>1 DEF Upload, TypeOK, Uploaded
  <2>2. d \notin extracted /\ extracted \subseteq Docs
    BY <1>0, <2>1 DEF DayZeroInv, TypeOK
  <2>3. \A p \in Passes : pc[p] \in Carrying => doc[p] # d
    BY <1>t, <2>1
  <2>4. (\A e \in extracted : Uploaded(e))'
    BY <2>1, <2>2 DEF DayZeroInv, Uploaded
  <2>5. (\A p \in Passes : pc[p] \in PastGate => ~LocalMidnightPast(doc[p]))'
    BY <1>t, <2>1, <2>3 DEF DayZeroInv, LocalMidnightPast, Carrying
  <2>6. QED
    BY <2>1, <2>2, <2>4, <2>5 DEF DayZeroInv
<1>2. ASSUME NEW d \in Docs, Lapse(d) PROVE DayZeroInv'
  <2>1. /\ \A e \in Docs \ {d} : expiry'[e] = expiry[e]
        /\ UNCHANGED <<state, supersededBy, dated, extracted, ladders, dayZero, pc, doc>>
    BY <1>0, <1>2 DEF Lapse, TypeOK
  <2>2. expiry'[d] # expiry[d]
    BY <1>0, <1>2 DEF Lapse, TypeOK
  <2>3. Timely
    BY <2>2 DEF vars
  <2>4. (\A p \in Passes : pc[p] \in PastGate => ~LocalMidnightPast(doc[p]))'
    <3>1. ASSUME NEW p \in Passes, pc[p] \in PastGate PROVE ~LocalMidnightPast(doc[p])'
      <4>1. PICK e \in Docs : e = doc[p]
        BY <1>t, <3>1 DEF Carrying
      <4>2. ~LocalMidnightPast(e)'
        BY <2>3, <3>1, <4>1 DEF Timely, DayZeroInv
      <4>3. QED
        BY <2>1, <4>1, <4>2 DEF LocalMidnightPast
    <3>2. QED
      BY <2>1, <3>1
  <2>5. QED
    BY <2>1, <2>4 DEF DayZeroInv, Uploaded
<1>3. CASE \/ \E d \in Docs : DayZeroJob(d)
           \/ \E j \in Jobs : QueueJob(j)
           \/ FlagRead \/ FlagWrite \/ UNCHANGED vars
  <2>1. /\ UNCHANGED <<extracted, dated, expiry, ladders, supersededBy, pc, doc>>
        /\ \A d \in Docs : state'[d] \in {state[d], "correction_requested"}
        /\ \A d \in Docs : dayZero[d] # "none" => dayZero'[d] # "none"
    BY <1>0, <1>3 DEF DayZeroJob, FireDayZero, ReclaimDayZero, SettleDayZero, QueueJob, FlagRead, FlagWrite, vars, TypeOK
  <2>2. QED
    BY <2>1, DayZeroAside DEF Uploaded
<1>4. ASSUME NEW p \in Passes, \/ \E r \in SUBSET Jobs : StartPass(p, r)
                               \/ \E j \in Jobs : Claim(p, j)
                               \/ Select(p) \/ EndPass(p) \/ FinishJob(p) \/ Reopen(p)
      PROVE  DayZeroInv'
  <2>1. /\ UNCHANGED <<extracted, dated, expiry, ladders, supersededBy, state, dayZero>>
        /\ pc[p] \notin Carrying /\ pc'[p] \notin Carrying
        /\ \A q \in Passes \ {p} : pc'[q] = pc[q] /\ doc'[q] = doc[q]
    BY <1>0, <1>4 DEF StartPass, Claim, Select, EndPass, FinishJob, Release, Reopen, AfterBounce,
       Return, Goto, TypeOK, Carrying, PastGate
  <2>2. QED
    BY <2>1, DayZeroAside DEF Uploaded
<1>5. ASSUME NEW p \in Passes, FailJob(p) \/ CrashPass(p) PROVE FALSE
  BY <1>0, <1>5 DEF FailJob, CrashPass, NoFaults, TypeOK
<1>6. ASSUME NEW p \in Passes, NEW d \in Docs, Extract(p, d) PROVE DayZeroInv'
  <2>1. /\ UNCHANGED <<dated, expiry, ladders, supersededBy, state, dayZero>>
        /\ pc[p] = "extract" /\ pc'[p] = "gate" /\ doc'[p] = d
        /\ \A q \in Passes \ {p} : pc'[q] = pc[q] /\ doc'[q] = doc[q]
        /\ extracted' = extracted \cup {d} /\ Uploaded(d)
    BY <1>0, <1>6 DEF Extract, Goto, TypeOK, HandInv
  <2>2. \A q \in Passes : pc[q] \in Carrying => pc'[q] = pc[q] /\ doc'[q] = doc[q]
    BY <2>1 DEF Carrying, PastGate
  <2>3. \A q \in Passes : pc'[q] \in PastGate => pc[q] = pc'[q] /\ doc'[q] = doc[q]
    BY <2>1 DEF PastGate
  <2>4. "dayZero" \in Carrying /\ "gate" \in Carrying
    BY DEF Carrying, PastGate
  <2>5. (\A q \in Passes : pc[q] \in PastGate => ~LocalMidnightPast(doc[q]))'
    BY <2>1, <2>3 DEF DayZeroInv, LocalMidnightPast
  <2>6. (\A e \in extracted : Uploaded(e))'
    BY <2>1 DEF DayZeroInv, Uploaded
  <2>7. QED
    BY <2>1, <2>2, <2>4, <2>5, <2>6 DEF DayZeroInv
<1>7. ASSUME NEW p \in Passes, Bounce(p) PROVE DayZeroInv'
  <2>1. /\ UNCHANGED <<dated, expiry, ladders, supersededBy, extracted, dayZero>>
        /\ pc[p] = "gate" /\ pc'[p] = "reopen"
        /\ \A q \in Passes \ {p} : pc'[q] = pc[q] /\ doc'[q] = doc[q]
        /\ \A e \in Docs : state'[e] = IF e = doc[p] THEN "bounced_expired" ELSE state[e]
        /\ extracted \subseteq Docs
    BY <1>0, <1>7 DEF Bounce, Goto, TypeOK
  <2>2. (\A q \in Passes : pc[q] \in PastGate => ~LocalMidnightPast(doc[q]))'
    BY <2>1 DEF DayZeroInv, LocalMidnightPast, PastGate
  <2>3. (\A e \in extracted : Uploaded(e))'
    BY <2>1 DEF DayZeroInv, Uploaded
  <2>4. QED
    BY <2>1, <2>2, <2>3 DEF DayZeroInv
<1>8. ASSUME NEW p \in Passes, FindPrior(p) PROVE DayZeroInv'
  <2>1. /\ UNCHANGED <<dated, expiry, ladders, supersededBy, state, extracted, dayZero>>
        /\ pc[p] = "gate" /\ ~UTCMidnightPast(doc[p]) /\ doc[p] \in Docs
        /\ \A q \in Passes \ {p} : pc'[q] = pc[q] /\ doc'[q] = doc[q]
    BY <1>0, <1>t, <1>8 DEF FindPrior, GateExpired, Return, Goto, TypeOK, Carrying
  <2>2. \/ pc'[p] \in {"ladder", "displace"} /\ doc'[p] = doc[p]
        \/ pc'[p] = "extract" /\ doc[p] \notin dated
    BY <1>0, <1>8 DEF FindPrior, Return, Goto, TypeOK
  <2>3. ~LocalMidnightPast(doc[p])
    BY <1>0, <2>1 DEF UTCMidnightPast, LocalMidnightPast, TypeOK
  <2>4. (\A q \in Passes : pc[q] \in PastGate => ~LocalMidnightPast(doc[q]))'
    BY <2>1, <2>2, <2>3 DEF DayZeroInv, LocalMidnightPast, PastGate
  <2>5. (\A e \in extracted : Uploaded(e))'
    BY <2>1 DEF DayZeroInv, Uploaded
  <2>6. {"ladder", "displace"} \subseteq Carrying
    BY DEF Carrying, PastGate
  <2>7. QED
    BY <2>1, <2>2, <2>4, <2>5, <2>6 DEF DayZeroInv
<1>9. ASSUME NEW p \in Passes, Displace(p) \/ Withdraw(p) \/ CheckLadder(p) \/ ScheduleLadder(p)
      PROVE  DayZeroInv'
  <2>1. PICK d \in Docs : d = doc[p] /\ pc[p] \in PastGate \ {"dayZero"} /\ ~LocalMidnightPast(d)
    BY <1>t, <1>9 DEF Displace, Withdraw, CheckLadder, ScheduleLadder, DayZeroInv, PastGate, Carrying
  <2>2. /\ UNCHANGED <<dated, expiry, state, extracted>>
        /\ \A q \in Passes \ {p} : pc'[q] = pc[q] /\ doc'[q] = doc[q]
        /\ \A e \in Docs : dayZero[e] # "none" => dayZero'[e] # "none"
    BY <1>0, <1>9 DEF Displace, Withdraw, CheckLadder, ScheduleLadder, Return, Goto, TypeOK
  <2>3. \A e \in Docs : supersededBy'[e] = NoDoc => supersededBy[e] = NoDoc
    BY <1>0, <1>9, <2>1, PipelineAssumption DEF Displace, Withdraw, CheckLadder, ScheduleLadder, TypeOK
  <2>4. \A e \in Docs : ladders'[e] > 0 => ladders[e] > 0 \/ (e = d /\ pc'[p] = "dayZero" /\ doc'[p] = d)
    BY <1>0, <1>9, <2>1 DEF Displace, Withdraw, CheckLadder, ScheduleLadder, Goto, TypeOK
  <2>5. \/ pc'[p] \in PastGate /\ doc'[p] = d
        \/ pc'[p] = "extract" /\ (d \notin dated \/ ladders[d] > 0)
    BY <1>0, <1>9, <2>1 DEF Displace, Withdraw, CheckLadder, ScheduleLadder, Return, Goto, TypeOK, PastGate
  <2>6. (\A q \in Passes : pc[q] \in PastGate => ~LocalMidnightPast(doc[q]))'
    BY <2>1, <2>2, <2>5 DEF DayZeroInv, LocalMidnightPast, PastGate
  <2>7. (\A e \in extracted : Uploaded(e))'
    BY <2>2 DEF DayZeroInv, Uploaded
  <2>8. ASSUME NEW e \in Docs, ladders'[e] > 0
        PROVE  dayZero'[e] # "none" \/ \E q \in Passes : pc'[q] = "dayZero" /\ doc'[q] = e
    BY <2>1, <2>2, <2>4, <2>8 DEF DayZeroInv
  <2>9. ASSUME NEW e \in extracted \cap dated, state[e] = "active", supersededBy'[e] = NoDoc
        PROVE  dayZero'[e] # "none" \/ \E q \in Passes : pc'[q] \in Carrying /\ doc'[q] = e
    <3>1. e \in Docs /\ supersededBy[e] = NoDoc
      BY <1>0, <2>3, <2>9 DEF TypeOK
    <3>2. CASE dayZero[e] # "none"
      BY <2>2, <3>1, <3>2
    <3>3. ASSUME NEW q \in Passes, pc[q] \in Carrying, doc[q] = e, dayZero[e] = "none"
          PROVE  dayZero'[e] # "none" \/ \E r \in Passes : pc'[r] \in Carrying /\ doc'[r] = e
      <4>1. CASE q # p
        BY <2>2, <3>3, <4>1
      <4>2. CASE q = p
        <5>1. CASE pc'[p] \in PastGate /\ doc'[p] = d
          BY <2>1, <3>3, <4>2, <5>1 DEF Carrying
        <5>2. CASE ladders[d] > 0
          <6>1. PICK r \in Passes : pc[r] = "dayZero" /\ doc[r] = e
            BY <2>1, <3>3, <4>2, <5>2 DEF DayZeroInv
          <6>2. r # p
            BY <2>1, <6>1
          <6>3. pc'[r] \in Carrying /\ doc'[r] = e
            BY <2>2, <6>1, <6>2 DEF Carrying, PastGate
          <6>4. QED
            BY <6>3
        <5>3. QED
          BY <2>1, <2>5, <2>9, <3>3, <4>2, <5>1, <5>2
      <4>3. QED
        BY <4>1, <4>2
    <3>4. QED
      BY <2>9, <3>1, <3>2, <3>3 DEF DayZeroInv
  <2>10. QED
    BY <2>2, <2>6, <2>7, <2>8, <2>9 DEF DayZeroInv
<1>10. ASSUME NEW p \in Passes, ScheduleDayZero(p) PROVE DayZeroInv'
  <2>1. PICK d \in Docs : d = doc[p] /\ pc[p] = "dayZero" /\ ~LocalMidnightPast(d)
    BY <1>t, <1>10 DEF ScheduleDayZero, DayZeroInv, PastGate, Carrying
  <2>2. /\ UNCHANGED <<dated, expiry, state, extracted, supersededBy, ladders>>
        /\ \A q \in Passes \ {p} : pc'[q] = pc[q] /\ doc'[q] = doc[q]
        /\ pc'[p] = "extract" /\ dayZero'[d] = "queued"
        /\ \A e \in Docs \ {d} : dayZero'[e] = dayZero[e]
        /\ extracted \subseteq Docs
    BY <1>0, <1>10, <2>1 DEF ScheduleDayZero, DayZeroPast, Return, Goto, TypeOK
  <2>3. (\A q \in Passes : pc[q] \in PastGate => ~LocalMidnightPast(doc[q]))'
    BY <2>2 DEF DayZeroInv, LocalMidnightPast, PastGate
  <2>4. (\A e \in extracted : Uploaded(e))'
    BY <2>2 DEF DayZeroInv, Uploaded
  <2>5. QED
    BY <2>1, <2>2, <2>3, <2>4 DEF DayZeroInv
<1>11. QED
  BY <1>1, <1>2, <1>3, <1>4, <1>5, <1>6, <1>7, <1>8, <1>9, <1>10 DEF Next, PassStep

\* renewal.ts:188-207: west of UTC, and as long as nothing fails or dies and no pass
\* takes from one midnight to the other, a worker at rest leaves no dated document
\* active and current without the day-0 job that expires it, with any number of
\* overlapping passes, two of them working on the same document included.
THEOREM CurrentHasDayZeroHolds ==
  NoFaults /\ WestOfUTC => (Spec /\ [][Timely]_vars => []CurrentHasDayZero)
<1> SUFFICES ASSUME NoFaults, WestOfUTC PROVE Spec /\ [][Timely]_vars => []CurrentHasDayZero
  OBVIOUS
<1>1. Init => IInv /\ DayZeroInv
  BY InitIInv DEF Init, DayZeroInv, PastGate
<1>2. IInv /\ DayZeroInv /\ [Next]_vars /\ [Timely]_vars => (IInv /\ DayZeroInv)'
  BY IInvStep, DayZeroStep
<1>3. IInv /\ DayZeroInv => CurrentHasDayZero
  BY DEF DayZeroInv, CurrentHasDayZero, AtRest, Carrying, PastGate
<1>4. QED
  BY <1>1, <1>2, <1>3, PTL DEF Spec

-----------------------------------------------------------------------------
(* Two current documents flank a skip *)

LEMMA SmallestOf ==
  ASSUME NEW T, T \subseteq Nat, T # {}
  PROVE  \E x \in T : \A y \in T : x <= y
<1> DEFINE R == OpToRel(<, Nat)
<1>1. R = {ss \in Nat \X Nat : ss[1] < ss[2]}
  BY DEF OpToRel
<1>2. \A x, y \in Nat : <<y, x>> \in R <=> y < x
  BY <1>1, Zenon
<1>3. IsWellFoundedOn(R, Nat)
  BY NatLessThanWellFounded, Zenon
<1> HIDE DEF R
<1>4. PICK x \in T : \A y \in T : <<y, x>> \notin R
  BY <1>3, WFMin
<1>5. ASSUME NEW y \in T PROVE x <= y
  <2>1. x \in Nat /\ y \in Nat /\ ~(y < x)
    BY <1>2, <1>4
  <2>2. QED
    BY <2>1
<1>6. QED
  BY <1>5

\* Documents older than a given one have a newest: how far each is behind is a
\* natural number, and the least of these belongs to it.
LEMMA OlderHaveNewest ==
  ASSUME TypeOK, NEW d \in Docs, NEW S \in SUBSET Docs, S # {}, \A e \in S : Older(e, d)
  PROVE  Newest(S) # {}
<1> DEFINE T == {uploadedAt[d] - uploadedAt[e] : e \in S}
<1>1. \A e \in S : uploadedAt[e] \in Nat /\ uploadedAt[d] - uploadedAt[e] \in Nat
  <2>1. ASSUME NEW e \in S PROVE uploadedAt[e] \in Nat /\ uploadedAt[d] - uploadedAt[e] \in Nat
    <3>1. uploadedAt[e] \in Nat /\ uploadedAt[d] \in Nat /\ uploadedAt[e] < uploadedAt[d]
      BY DEF TypeOK, Older
    <3>2. QED
      BY <3>1
  <2>2. QED
    BY <2>1
<1>2. T \subseteq Nat /\ T # {}
  BY <1>1
<1>3. PICK t \in T : \A u \in T : t <= u
  BY <1>2, SmallestOf
<1>4. PICK x \in S : t = uploadedAt[d] - uploadedAt[x]
  OBVIOUS
<1>5. ASSUME NEW e \in S PROVE uploadedAt[e] <= uploadedAt[x]
  <2>1. /\ t <= uploadedAt[d] - uploadedAt[e]
        /\ uploadedAt[x] \in Nat /\ uploadedAt[e] \in Nat /\ uploadedAt[d] \in Nat
    BY <1>1, <1>3 DEF TypeOK
  <2>2. QED
    BY <1>4, <2>1
<1>6. QED
  BY <1>5 DEF Newest

\* Uploads are told apart by their time; what is bounced stays known; a pass
\* between two jobs has nothing left to do.
LogInv ==
    /\ \A d \in Docs : Uploaded(d) => uploadedAt[d] < now
    /\ \A d, e \in Docs : Uploaded(d) /\ Uploaded(e) /\ uploadedAt[d] = uploadedAt[e] => d = e
    /\ \A d \in Docs : state[d] = "bounced_expired" => d \in everBounced
    /\ flagging # NoDoc => Uploaded(flagging)
    /\ \A p \in Passes : pc[p] \in {"idle", "claim", "select"} => todo[p] = {}

\* What a pass has still to supersede an older document with.
Ahead(p) == IF pc[p] \in {"gate", "displace"} THEN todo[p] \cup {doc[p]} ELSE todo[p]

\* The SELECT has no order, but it misses no document older than one it returns.
TodoInv ==
    \A p \in Passes : \A b \in Ahead(p) : \A e \in Docs :
        Pending(e) /\ Older(e, b) => e \in todo[p]

\* The prior a pass has found is the newest of the older current documents.
PriorInv ==
    \A p \in Passes : pc[p] = "displace" =>
        /\ Live(prior[p]) /\ Older(prior[p], doc[p])
        /\ \A a \in Docs : Live(a) /\ Older(a, doc[p]) /\ a \notin everBounced =>
             ~Older(prior[p], a)

\* An upload that displaces nothing, and one that may do so yet.
Skipped(c) == c \in everBounced \/ (state[c] = "correction_requested" /\ c \notin extracted)
Between(c) == Skipped(c) \/ \E p \in Passes : c \in Ahead(p)

\* Two documents are both current only if the older has been bounced, or an upload
\* between them was skipped or is still to be worked on.
FlankInv ==
    \A a, b \in Docs : Live(a) /\ Live(b) /\ b \in extracted /\ Older(a, b) =>
        \/ a \in everBounced
        \/ \E c \in Docs : Older(a, c) /\ ~Older(b, c) /\ Between(c)

SkipInv == IInv /\ OnceInv /\ LogInv /\ TodoInv /\ PriorInv /\ FlankInv

LEMMA AheadUploaded ==
  ASSUME IInv, NEW p \in Passes, NEW c \in Ahead(p)
  PROVE  Uploaded(c)
BY DEF IInv, HandInv, Ahead, InHand

LEMMA LogStep ==
  ASSUME ~SameInstant, IInv, LogInv, [Next]_vars
  PROVE  LogInv'
<1>0. TypeOK /\ HandInv
  BY DEF IInv
<1> USE DEF docVars, chaseVars, passVars, history, bounds
<1>1. ASSUME NEW d \in Docs, NEW m \in 0..MaxArrival, NEW w \in BOOLEAN, NEW l \in BOOLEAN, Upload(d, m, w, l)
      PROVE  LogInv'
  <2>1. /\ state[d] = "absent" /\ state'[d] = "active"
        /\ \A e \in Docs \ {d} : state'[e] = state[e] /\ uploadedAt'[e] = uploadedAt[e]
        /\ uploadedAt'[d] = now /\ now' = now + 1
        /\ UNCHANGED <<everBounced, flagging, pc, todo>>
        /\ now \in Nat /\ \A e \in Docs : uploadedAt[e] \in Nat
    BY <1>0, <1>1 DEF Upload, TypeOK
  <2>2. \A e \in Docs \ {d} : Uploaded(e)' <=> Uploaded(e)
    BY <2>1 DEF Uploaded
  <2>3. (\A e \in Docs : Uploaded(e) => uploadedAt[e] < now)'
    BY <2>1, <2>2 DEF LogInv
  <2>4. (\A e, f \in Docs : Uploaded(e) /\ Uploaded(f) /\ uploadedAt[e] = uploadedAt[f] => e = f)'
    BY <2>1, <2>2 DEF LogInv
  <2>5. QED
    BY <2>1, <2>3, <2>4 DEF LogInv, Uploaded
<1>2. ASSUME UNCHANGED <<now, uploadedAt>>,
             \A d \in Docs : Uploaded(d)' <=> Uploaded(d),
             \A d \in Docs : state'[d] = "bounced_expired" => state[d] = "bounced_expired",
             everBounced \subseteq everBounced',
             flagging' # NoDoc => flagging' = flagging \/ Uploaded(flagging'),
             \A p \in Passes : pc'[p] \in {"idle", "claim", "select"} =>
                                 todo'[p] = {} \/ (todo'[p] = todo[p] /\ pc[p] \in {"idle", "claim", "select"})
      PROVE  LogInv'
  <2>1. (flagging # NoDoc => Uploaded(flagging))'
    BY <1>0, <1>2 DEF LogInv, Uploaded
  <2>2. QED
    BY <1>2, <2>1 DEF LogInv
<1>3. CASE FlagRead
  <2>1. Uploaded(flagging')
    BY <1>3 DEF FlagRead, Newest, Live, Uploaded
  <2>2. QED
    BY <1>2, <1>3, <2>1 DEF FlagRead, Uploaded
<1>4. CASE FlagWrite
  <2>1. /\ Uploaded(flagging) /\ flagging' = NoDoc
        /\ state' = [state EXCEPT ![flagging] = "correction_requested"]
        /\ UNCHANGED <<now, uploadedAt, everBounced, pc, todo>>
    BY <1>4 DEF FlagWrite, LogInv
  <2>2. \A d \in Docs : Uploaded(d)' <=> Uploaded(d)
    BY <1>0, <2>1 DEF Uploaded, TypeOK
  <2>3. \A d \in Docs : state'[d] = "bounced_expired" => state[d] = "bounced_expired"
    BY <1>0, <2>1 DEF TypeOK
  <2>4. QED
    BY <1>2, <2>1, <2>2, <2>3
<1>5. CASE \/ \E d \in Docs : Lapse(d) \/ DayZeroJob(d)
           \/ \E j \in Jobs : QueueJob(j)
           \/ UNCHANGED vars
  BY <1>2, <1>5 DEF Lapse, DayZeroJob, FireDayZero, ReclaimDayZero, SettleDayZero, QueueJob, vars, Uploaded
<1>6. ASSUME NEW p \in Passes, \/ \E r \in SUBSET Jobs : StartPass(p, r)
                               \/ \E j \in Jobs : Claim(p, j)
                               \/ EndPass(p)
      PROVE  LogInv'
  <2>1. /\ UNCHANGED <<now, uploadedAt, state, everBounced, flagging, todo>>
        /\ pc[p] \in {"idle", "claim"}
        /\ \A q \in Passes \ {p} : pc'[q] = pc[q]
    BY <1>0, <1>6 DEF StartPass, Claim, EndPass, TypeOK
  <2>2. QED
    BY <1>2, <2>1 DEF Uploaded
<1>7. ASSUME NEW p \in Passes, FinishJob(p) \/ FailJob(p) \/ CrashPass(p)
      PROVE  LogInv'
  <2>1. /\ UNCHANGED <<now, uploadedAt, state, everBounced, flagging>>
        /\ todo'[p] = {}
        /\ \A q \in Passes \ {p} : pc'[q] = pc[q] /\ todo'[q] = todo[q]
    BY <1>0, <1>7 DEF FinishJob, FailJob, Release, CrashPass, TypeOK
  <2>2. QED
    BY <1>2, <2>1 DEF Uploaded
<1>8. ASSUME NEW p \in Passes, \/ Select(p) \/ (\E d \in Docs : Extract(p, d)) \/ Reopen(p)
                               \/ FindPrior(p) \/ Displace(p) \/ Withdraw(p) \/ CheckLadder(p)
                               \/ ScheduleLadder(p) \/ ScheduleDayZero(p)
      PROVE  LogInv'
  <2>1. /\ UNCHANGED <<now, uploadedAt, state, everBounced, flagging>>
        /\ pc'[p] \notin {"idle", "claim", "select"}
        /\ \A q \in Passes \ {p} : pc'[q] = pc[q] /\ todo'[q] = todo[q]
    BY <1>0, <1>8 DEF Select, Extract, Reopen, AfterBounce, FindPrior, Displace, Withdraw,
       CheckLadder, ScheduleLadder, ScheduleDayZero, Return, Goto, TypeOK
  <2>2. QED
    BY <1>2, <2>1 DEF Uploaded
<1>9. ASSUME NEW p \in Passes, Bounce(p) PROVE LogInv'
  <2>1. /\ UNCHANGED <<now, uploadedAt, flagging, todo>>
        /\ pc'[p] = "reopen" /\ Uploaded(doc[p])
        /\ \A q \in Passes \ {p} : pc'[q] = pc[q]
        /\ everBounced' = everBounced \cup {doc[p]}
        /\ \A e \in Docs : state'[e] = IF e = doc[p] THEN "bounced_expired" ELSE state[e]
    BY <1>0, <1>9 DEF Bounce, Goto, HandInv, InHand, TypeOK
  <2>2. \A e \in Docs : Uploaded(e)' <=> Uploaded(e)
    BY <2>1 DEF Uploaded
  <2>3. (\A e \in Docs : state[e] = "bounced_expired" => e \in everBounced)'
    BY <2>1 DEF LogInv
  <2>4. (\A e, f \in Docs : Uploaded(e) /\ Uploaded(f) /\ uploadedAt[e] = uploadedAt[f] => e = f)'
    BY <2>1, <2>2 DEF LogInv
  <2>5. (flagging # NoDoc => Uploaded(flagging))'
    BY <1>0, <2>1, <2>2 DEF LogInv, Uploaded
  <2>6. QED
    BY <2>1, <2>2, <2>3, <2>4, <2>5 DEF LogInv
<1>10. QED
  BY <1>1, <1>3, <1>4, <1>5, <1>6, <1>7, <1>8, <1>9 DEF Next, PassStep

\* A step that makes no document pending and gives no pass a document to extract.
LEMMA TodoAside ==
  ASSUME IInv, TodoInv,
         \A e \in Docs : Uploaded(e) => uploadedAt'[e] = uploadedAt[e],
         \A e \in Docs : Pending(e)' => Pending(e),
         \A p \in Passes : Ahead(p)' \subseteq Ahead(p),
         \A p \in Passes : \A e \in todo[p] : Pending(e)' /\ Ahead(p)' # {} => e \in todo'[p]
  PROVE  TodoInv'
<1>1. ASSUME NEW p \in Passes, NEW b \in Ahead(p)', NEW e \in Docs, Pending(e)', Older(e, b)'
      PROVE  e \in todo'[p]
  <2>1. b \in Ahead(p) /\ Uploaded(b) /\ b \in Docs
    BY <1>1, AheadUploaded DEF Uploaded
  <2>2. Pending(e) /\ Uploaded(e)
    BY <1>1 DEF Pending, Uploaded
  <2>3. Older(e, b)
    BY <1>1, <2>1, <2>2 DEF Older
  <2>4. e \in todo[p]
    BY <2>1, <2>2, <2>3 DEF TodoInv
  <2>5. QED
    BY <1>1, <2>4
<1>2. QED
  BY <1>1 DEF TodoInv

LEMMA TodoStep ==
  ASSUME ~SameInstant, IInv, LogInv, TodoInv, [Next]_vars
  PROVE  TodoInv'
<1>0. TypeOK /\ HandInv
  BY DEF IInv
<1> USE DEF docVars, chaseVars, passVars, history, bounds
<1>1. ASSUME NEW d \in Docs, NEW m \in 0..MaxArrival, NEW w \in BOOLEAN, NEW l \in BOOLEAN, Upload(d, m, w, l)
      PROVE  TodoInv'
  <2>1. /\ ~Uploaded(d) /\ uploadedAt'[d] = now
        /\ \A e \in Docs \ {d} : state'[e] = state[e] /\ uploadedAt'[e] = uploadedAt[e]
        /\ UNCHANGED <<supersededBy, extracted, pc, todo, doc>>
        /\ now \in Nat /\ \A e \in Docs : uploadedAt[e] \in Nat
    BY <1>0, <1>1 DEF Upload, TypeOK, Uploaded
  <2>2. ASSUME NEW p \in Passes, NEW b \in Ahead(p)', NEW e \in Docs, Pending(e)', Older(e, b)'
        PROVE  e \in todo'[p]
    <3>1. b \in Ahead(p)
      BY <2>1, <2>2 DEF Ahead
    <3>2. Uploaded(b) /\ b \in Docs /\ b # d
      BY <2>1, <3>1, AheadUploaded DEF Uploaded
    <3>3. uploadedAt[b] < now /\ uploadedAt'[b] = uploadedAt[b] /\ uploadedAt[b] \in Nat
      BY <2>1, <3>2 DEF LogInv
    <3>4. e # d
      BY <2>1, <2>2, <3>3 DEF Older
    <3>5. Pending(e) /\ Older(e, b)
      BY <2>1, <2>2, <3>3, <3>4 DEF Pending, Older
    <3>6. QED
      BY <2>1, <3>1, <3>5 DEF TodoInv
  <2>3. QED
    BY <2>2 DEF TodoInv
<1>2. CASE FlagWrite
  <2>1. /\ \A e \in Docs : state'[e] \in {state[e], "correction_requested"}
        /\ UNCHANGED <<uploadedAt, supersededBy, extracted, pc, todo, doc>>
    BY <1>0, <1>2 DEF FlagWrite, TypeOK
  <2>2. \A e \in Docs : Pending(e)' => Pending(e)
    BY <2>1 DEF Pending
  <2>3. QED
    BY <2>1, <2>2, TodoAside DEF Ahead
<1>3. CASE \/ \E d \in Docs : Lapse(d) \/ DayZeroJob(d)
           \/ \E j \in Jobs : QueueJob(j)
           \/ FlagRead \/ UNCHANGED vars
  BY <1>3 DEF Lapse, DayZeroJob, FireDayZero, ReclaimDayZero, SettleDayZero, QueueJob, FlagRead, vars, TodoInv, Ahead, Pending, Older
<1>4. ASSUME NEW p \in Passes, \/ \E r \in SUBSET Jobs : StartPass(p, r)
                               \/ \E j \in Jobs : Claim(p, j)
                               \/ EndPass(p) \/ FinishJob(p) \/ FailJob(p) \/ CrashPass(p)
      PROVE  TodoInv'
  <2>1. /\ UNCHANGED <<state, uploadedAt, supersededBy, extracted>>
        /\ todo'[p] = {} \/ (todo'[p] = todo[p] /\ pc[p] \in {"idle", "claim"})
        /\ pc'[p] \notin {"gate", "displace"}
        /\ \A q \in Passes \ {p} : pc'[q] = pc[q] /\ todo'[q] = todo[q] /\ doc'[q] = doc[q]
    BY <1>0, <1>4 DEF StartPass, Claim, EndPass, FinishJob, FailJob, Release, CrashPass, TypeOK
  <2>2. Ahead(p)' = {}
    BY <2>1 DEF Ahead, LogInv
  <2>3. \A q \in Passes \ {p} : Ahead(q)' = Ahead(q) /\ todo'[q] = todo[q]
    BY <2>1 DEF Ahead
  <2>4. \A e \in Docs : Pending(e)' <=> Pending(e)
    BY <2>1 DEF Pending
  <2>5. QED
    BY <2>1, <2>2, <2>3, <2>4, TodoAside
<1>5. ASSUME NEW p \in Passes, Select(p) PROVE TodoInv'
  <2>1. /\ UNCHANGED <<state, uploadedAt, supersededBy, extracted>>
        /\ todo'[p] = {d \in Docs : Pending(d)}
        /\ \A q \in Passes \ {p} : pc'[q] = pc[q] /\ todo'[q] = todo[q] /\ doc'[q] = doc[q]
    BY <1>0, <1>5 DEF Select, TypeOK
  <2>2. \A q \in Passes \ {p} : Ahead(q)' = Ahead(q)
    BY <2>1 DEF Ahead
  <2>3. \A e \in Docs : Pending(e)' <=> Pending(e)
    BY <2>1 DEF Pending
  <2>4. QED
    BY <2>1, <2>2, <2>3 DEF TodoInv, Older
<1>6. ASSUME NEW p \in Passes, NEW d \in Docs, Extract(p, d) PROVE TodoInv'
  <2>1. /\ UNCHANGED <<state, uploadedAt, supersededBy>> /\ extracted' = extracted \cup {d}
        /\ pc[p] = "extract" /\ d \in todo[p]
        /\ todo'[p] = todo[p] \ {d} /\ doc'[p] = d
        /\ \A q \in Passes \ {p} : pc'[q] = pc[q] /\ todo'[q] = todo[q] /\ doc'[q] = doc[q]
    BY <1>0, <1>6 DEF Extract, Goto, TypeOK
  <2>2. \A q \in Passes : Ahead(q)' \subseteq Ahead(q)
    BY <2>1 DEF Ahead
  <2>3. \A e \in Docs : Pending(e)' => Pending(e) /\ e # d
    BY <2>1 DEF Pending
  <2>4. QED
    BY <2>1, <2>2, <2>3, TodoAside
<1>7. ASSUME NEW p \in Passes, \/ Bounce(p) \/ Reopen(p) \/ FindPrior(p) \/ Displace(p) \/ Withdraw(p)
                               \/ CheckLadder(p) \/ ScheduleLadder(p) \/ ScheduleDayZero(p)
      PROVE  TodoInv'
  <2>1. /\ UNCHANGED <<uploadedAt, extracted, todo>>
        /\ \A q \in Passes \ {p} : pc'[q] = pc[q] /\ doc'[q] = doc[q]
        /\ \A e \in Docs : state'[e] \in {state[e], "bounced_expired"}
    BY <1>0, <1>7 DEF Bounce, Reopen, AfterBounce, FindPrior, Displace, Withdraw,
       CheckLadder, ScheduleLadder, ScheduleDayZero, Return, Goto, TypeOK
  <2>2. \A e \in Docs : supersededBy'[e] = NoDoc => supersededBy[e] = NoDoc
    <3>1. CASE Displace(p)
      BY <1>0, <3>1, PipelineAssumption DEF Displace, HandInv, InHand, Uploaded, TypeOK
    <3>2. QED
      BY <1>7, <3>1 DEF Bounce, Reopen, FindPrior, Withdraw, CheckLadder, ScheduleLadder, ScheduleDayZero
  <2>3. pc'[p] \in {"gate", "displace"} => pc[p] \in {"gate", "displace"} /\ doc'[p] = doc[p]
    BY <1>0, <1>7 DEF Bounce, Reopen, AfterBounce, FindPrior, Displace, Withdraw,
       CheckLadder, ScheduleLadder, ScheduleDayZero, Return, Goto, TypeOK
  <2>4. \A q \in Passes : Ahead(q)' \subseteq Ahead(q)
    BY <2>1, <2>3 DEF Ahead
  <2>5. \A e \in Docs : Pending(e)' => Pending(e)
    BY <2>1, <2>2 DEF Pending
  <2>6. QED
    BY <2>1, <2>4, <2>5, TodoAside
<1>8. QED
  BY <1>1, <1>2, <1>3, <1>4, <1>5, <1>6, <1>7 DEF Next, PassStep

\* Nobody but the pass itself comes between its SELECT of the prior and its UPDATE.
LEMMA PriorStep ==
  ASSUME OnePass, ~SameInstant, IInv, LogInv, PriorInv, [Next]_vars
  PROVE  PriorInv'
<1>0. TypeOK /\ HandInv
  BY DEF IInv
<1>t. \A p \in Passes : pc[p] = "displace" =>
        doc[p] \in Docs /\ Uploaded(doc[p]) /\ prior[p] \in Docs /\ Uploaded(prior[p])
  BY <1>0 DEF HandInv, InHand, Uploaded
<1> USE DEF docVars, chaseVars, passVars, history, bounds
<1>1. ASSUME UNCHANGED <<supersededBy, pc, doc, prior>>,
             everBounced' = everBounced,
             \A e \in Docs : Uploaded(e) => uploadedAt'[e] = uploadedAt[e],
             \A e \in Docs : Live(e) => Live(e)',
             \A p \in Passes : pc[p] = "displace" =>
               \A e \in Docs : Live(e)' /\ Older(e, doc[p])' => e \in everBounced \/ (Live(e) /\ Uploaded(e))
      PROVE  PriorInv'
  BY <1>t, <1>1 DEF PriorInv, Older
<1>2. ASSUME NEW d \in Docs, NEW m \in 0..MaxArrival, NEW w \in BOOLEAN, NEW l \in BOOLEAN, Upload(d, m, w, l)
      PROVE  PriorInv'
  <2>1. /\ ~Uploaded(d) /\ ~Live(d) /\ uploadedAt'[d] = now
        /\ \A e \in Docs \ {d} : state'[e] = state[e] /\ uploadedAt'[e] = uploadedAt[e]
        /\ UNCHANGED <<supersededBy, pc, doc, prior, everBounced>>
        /\ now \in Nat /\ \A e \in Docs : uploadedAt[e] \in Nat
    BY <1>0, <1>2 DEF Upload, TypeOK, Uploaded, Live
  <2>2. \A p \in Passes : pc[p] = "displace" => ~Older(d, doc[p])'
    BY <1>t, <2>1 DEF LogInv, Older
  <2>3. \A e \in Docs \ {d} : Live(e)' <=> Live(e)
    BY <2>1 DEF Live
  <2>4. \A e \in Docs : Live(e) => Uploaded(e)
    BY DEF Live, Uploaded
  <2>5. QED
    BY <1>1, <2>1, <2>2, <2>3, <2>4
<1>3. CASE FlagWrite
  <2>1. /\ flagging \in Docs /\ Uploaded(flagging)
        /\ \A e \in Docs : state'[e] = IF e = flagging THEN "correction_requested" ELSE state[e]
        /\ UNCHANGED <<uploadedAt, supersededBy, pc, doc, prior, everBounced>>
    BY <1>0, <1>3 DEF FlagWrite, LogInv, Uploaded, TypeOK
  <2>2. \A e \in Docs : Live(e) => Live(e)'
    BY <2>1 DEF Live
  <2>3. \A e \in Docs : Live(e)' => e \in everBounced \/ (Live(e) /\ Uploaded(e))
    BY <1>0, <2>1 DEF Live, LogInv, Uploaded, TypeOK, DocState
  <2>4. QED
    BY <1>1, <2>1, <2>2, <2>3
<1>4. CASE \/ \E d \in Docs : Lapse(d) \/ DayZeroJob(d)
           \/ \E j \in Jobs : QueueJob(j)
           \/ FlagRead \/ UNCHANGED vars
  BY <1>4 DEF Lapse, DayZeroJob, FireDayZero, ReclaimDayZero, SettleDayZero, QueueJob, FlagRead, vars, PriorInv, Live, Older
<1>5. ASSUME NEW p \in Passes, pc'[p] # "displace" PROVE PriorInv'
  BY <1>5 DEF PriorInv, OnePass
<1>6. ASSUME NEW p \in Passes, \/ \E r \in SUBSET Jobs : StartPass(p, r)
                               \/ Select(p) \/ EndPass(p) \/ FinishJob(p) \/ FailJob(p) \/ CrashPass(p)
                               \/ (\E d \in Docs : Extract(p, d)) \/ Bounce(p) \/ Reopen(p)
                               \/ Displace(p) \/ Withdraw(p)
                               \/ CheckLadder(p) \/ ScheduleLadder(p) \/ ScheduleDayZero(p)
      PROVE  PriorInv'
  <2>1. pc'[p] # "displace"
    BY <1>0, <1>6 DEF StartPass, Select, EndPass, FinishJob, FailJob, Release, CrashPass, Extract,
       Bounce, Reopen, AfterBounce, Displace, Withdraw, CheckLadder, ScheduleLadder, ScheduleDayZero,
       Return, Goto, TypeOK
  <2>2. QED
    BY <1>5, <2>1
<1>7. ASSUME NEW p \in Passes, NEW j \in Jobs, Claim(p, j) PROVE PriorInv'
  <2>1. pc'[p] # "displace"
    BY <1>0, <1>7 DEF Claim, TypeOK
  <2>2. QED
    BY <1>5, <2>1
<1>8. ASSUME NEW p \in Passes, FindPrior(p) PROVE PriorInv'
  <2>1. CASE pc'[p] # "displace"
    BY <1>5, <2>1
  <2>2. CASE pc'[p] = "displace"
    <3>1. PICK e \in Priors(doc[p]) : Goto(p, "displace", doc[p], e)
      BY <1>0, <1>8, <2>2 DEF FindPrior, Return, Goto, TypeOK
    <3>2. /\ UNCHANGED <<state, uploadedAt, supersededBy, everBounced>>
          /\ doc'[p] = doc[p] /\ prior'[p] = e /\ \A q \in Passes : q = p
      BY <1>0, <1>8, <3>1 DEF FindPrior, Goto, TypeOK, OnePass
    <3>3. doc[p] \in Docs
      BY <1>0, <1>8 DEF FindPrior, HandInv, InHand, Uploaded
    <3>4. /\ e \in Docs /\ Live(e) /\ Older(e, doc[p])
          /\ \A a \in Docs : Live(a) /\ Older(a, doc[p]) => uploadedAt[a] <= uploadedAt[e]
      BY <1>0, <3>1, <3>3 DEF Priors, Newest, Supersedable, Older, TypeOK
    <3>5. \A a \in Docs : Live(a) /\ Older(a, doc[p]) => ~Older(e, a)
      BY <1>0, <3>4 DEF Older, TypeOK
    <3>6. QED
      BY <3>2, <3>4, <3>5 DEF PriorInv, Live, Older
  <2>3. QED
    BY <2>1, <2>2
<1>9. QED
  BY <1>2, <1>3, <1>4, <1>6, <1>7, <1>8 DEF Next, PassStep

\* A step that makes no document current and loses none of those between two others.
LEMMA FlankAside ==
  ASSUME IInv, OnceInv, FlankInv,
         \A e \in Docs : Uploaded(e) => uploadedAt'[e] = uploadedAt[e],
         \A e \in Docs : Live(e)' /\ Uploaded(e) => Live(e),
         extracted' = extracted, everBounced \subseteq everBounced',
         \A c \in Docs : Between(c) /\ Uploaded(c) => Between(c)'
  PROVE  \A a, b \in Docs : Uploaded(a) /\ Live(a)' /\ Live(b)' /\ b \in extracted /\ Older(a, b) =>
           \/ a \in everBounced'
           \/ \E c \in Docs : Older(a, c)' /\ ~Older(b, c)' /\ Between(c)'
<1> SUFFICES ASSUME NEW a \in Docs, NEW b \in Docs, Uploaded(a), Live(a)', Live(b)',
                    b \in extracted, Older(a, b), a \notin everBounced'
             PROVE  \E c \in Docs : Older(a, c)' /\ ~Older(b, c)' /\ Between(c)'
  OBVIOUS
<1>1. Uploaded(b) /\ Live(a) /\ Live(b) /\ a \notin everBounced
  BY DEF OnceInv
<1>2. PICK c \in Docs : Older(a, c) /\ ~Older(b, c) /\ Between(c)
  BY <1>1 DEF FlankInv
<1>3. Uploaded(c)
  BY <1>2, AheadUploaded DEF Between, Skipped, OnceInv, Uploaded
<1>4. QED
  BY <1>1, <1>2, <1>3 DEF Older

\* The document the pass has in hand displaces the newest of the older ones: any
\* document older still has the displaced one, or what kept those two apart, between.
LEMMA FlankDisplace ==
  ASSUME OnePass, SkipInv, NEW p \in Passes, Displace(p)
  PROVE  FlankInv'
<1>0. TypeOK /\ HandInv /\ IInv
  BY DEF SkipInv, IInv
<1>1. PICK d \in Docs, e \in Docs : d = doc[p] /\ e = prior[p] /\ Uploaded(d) /\ Uploaded(e)
  BY <1>0 DEF Displace, HandInv, InHand, Uploaded
<1>2. /\ UNCHANGED <<state, uploadedAt, extracted, everBounced, todo>>
      /\ supersededBy'[e] = d
      /\ \A x \in Docs \ {e} : supersededBy'[x] = supersededBy[x]
      /\ pc[p] = "displace" /\ pc'[p] \notin {"gate", "displace"} /\ \A q \in Passes : q = p
  BY <1>0, <1>1 DEF Displace, Return, Goto, TypeOK, OnePass, docVars, history
<1>3. /\ \A x \in Docs : Live(x)' => Live(x) /\ x # e
      /\ Ahead(p) = todo[p] \cup {d} /\ Ahead(p)' = todo[p]
  BY <1>1, <1>2, PipelineAssumption DEF Live, Ahead
<1>4. \A c \in Docs : Between(c) => Between(c)' \/ c = d
  BY <1>2, <1>3 DEF Between, Skipped
<1>5. /\ Live(e) /\ Older(e, d)
      /\ \A a \in Docs : Live(a) /\ Older(a, d) /\ a \notin everBounced => ~Older(e, a)
      /\ \A x \in Docs : uploadedAt[x] \in Nat
  BY <1>0, <1>1, <1>2 DEF SkipInv, PriorInv, TypeOK
<1>6. ASSUME NEW a \in Docs, NEW b \in Docs, Live(a)', Live(b)', b \in extracted, Older(a, b),
             a \notin everBounced
      PROVE  \E c \in Docs : Older(a, c) /\ ~Older(b, c) /\ Between(c)'
  <2>1. PICK c \in Docs : Older(a, c) /\ ~Older(b, c) /\ Between(c)
    BY <1>3, <1>6 DEF SkipInv, FlankInv
  <2>2. CASE Between(c)'
    BY <2>1, <2>2
  <2>3. CASE c = d
    <3>1. ~Older(e, a) /\ a # e /\ Uploaded(a)
      BY <1>3, <1>5, <1>6, <2>1, <2>3 DEF Live, Uploaded
    <3>2. Older(a, e)
      BY <1>1, <1>5, <3>1 DEF SkipInv, LogInv, Older
    <3>3. \A x \in Docs : ~Older(e, x) => ~Older(b, x)
      BY <1>5, <2>1, <2>3 DEF Older
    <3>4. CASE e \in extracted
      <4>1. PICK x \in Docs : Older(a, x) /\ ~Older(e, x) /\ Between(x)
        BY <1>3, <1>5, <1>6, <3>2, <3>4 DEF SkipInv, FlankInv
      <4>2. x # d
        BY <1>5, <4>1
      <4>3. QED
        BY <1>4, <3>3, <4>1, <4>2
    <3>5. CASE e \notin extracted
      <4>1. Skipped(e) \/ Pending(e)
        BY <1>5, <3>5 DEF Skipped, Pending, Live
      <4>2. Pending(e) => e \in todo[p]
        BY <1>3, <1>5 DEF SkipInv, TodoInv
      <4>3. Between(e)'
        BY <1>2, <1>3, <4>1, <4>2 DEF Between, Skipped
      <4>4. ~Older(e, e)
        BY <1>5 DEF Older
      <4>5. QED
        BY <3>2, <3>3, <4>3, <4>4
    <3>6. QED
      BY <3>4, <3>5
  <2>4. QED
    BY <1>4, <2>1, <2>2, <2>3
<1>7. QED
  BY <1>2, <1>6 DEF FlankInv, Older

LEMMA FlankStep ==
  ASSUME OnePass, NoFaults, ~SameInstant, SkipInv, [Next]_vars
  PROVE  FlankInv'
<1>0. TypeOK /\ HandInv /\ IInv /\ OnceInv /\ LogInv /\ FlankInv
  BY DEF SkipInv, IInv
<1> USE DEF docVars, chaseVars, passVars, history, bounds
<1>1. ASSUME UNCHANGED <<uploadedAt, extracted>>,
             everBounced \subseteq everBounced',
             \A e \in Docs : Live(e)' => Live(e),
             \A c \in Docs : Between(c) => Between(c)'
      PROVE  FlankInv'
  <2>1. \A a \in Docs : Live(a)' => Uploaded(a)
    BY <1>1 DEF Live, Uploaded
  <2>2. QED
    BY <1>0, <1>1, <2>1, FlankAside DEF FlankInv, Older
<1>2. ASSUME NEW d \in Docs, NEW m \in 0..MaxArrival, NEW w \in BOOLEAN, NEW l \in BOOLEAN, Upload(d, m, w, l)
      PROVE  FlankInv'
  <2>1. /\ ~Uploaded(d) /\ uploadedAt'[d] = now
        /\ \A e \in Docs \ {d} : state'[e] = state[e] /\ uploadedAt'[e] = uploadedAt[e]
        /\ UNCHANGED <<supersededBy, extracted, everBounced, pc, todo, doc>>
        /\ now \in Nat /\ \A e \in Docs : uploadedAt[e] \in Nat
    BY <1>0, <1>2 DEF Upload, TypeOK, Uploaded
  <2>2. \A e \in extracted : e # d /\ Uploaded(e) /\ uploadedAt[e] < now
    BY <1>0, <2>1 DEF OnceInv, LogInv, TypeOK
  <2>3. \A b \in extracted : b \in Docs /\ ~Older(d, b)'
    <3>1. ASSUME NEW b \in extracted PROVE b \in Docs /\ ~Older(d, b)'
      <4>1. b \in Docs \ {d}
        BY <1>0, <2>2 DEF TypeOK
      <4>2. uploadedAt'[b] \in Nat /\ uploadedAt'[b] < now
        BY <2>1, <2>2, <4>1
      <4>3. QED
        BY <2>1, <4>1, <4>2 DEF Older
    <3>2. QED
      BY <3>1
  <2>4. \A e \in Docs : Uploaded(e) => uploadedAt'[e] = uploadedAt[e] /\ (Live(e)' => Live(e))
    BY <2>1 DEF Live
  <2>5. \A c \in Docs : Between(c) /\ Uploaded(c) => Between(c)'
    BY <2>1 DEF Between, Skipped, Ahead, Uploaded
  <2>6. \A a \in Docs \ {d} : Live(a)' => Uploaded(a)
    BY <2>1 DEF Live, Uploaded
  <2>7. \A a \in Docs \ {d}, b \in extracted : Older(a, b)' => Older(a, b)
    BY <2>1, <2>2, <2>3 DEF Older
  <2>8. \A a, b \in Docs : Uploaded(a) /\ Live(a)' /\ Live(b)' /\ b \in extracted /\ Older(a, b) =>
           \/ a \in everBounced'
           \/ \E c \in Docs : Older(a, c)' /\ ~Older(b, c)' /\ Between(c)'
    BY <1>0, <2>1, <2>4, <2>5, FlankAside
  <2>9. QED
    BY <2>1, <2>3, <2>6, <2>7, <2>8 DEF FlankInv
<1>3. CASE FlagWrite
  <2>1. /\ flagging \in Docs /\ Uploaded(flagging)
        /\ \A e \in Docs : state'[e] = IF e = flagging THEN "correction_requested" ELSE state[e]
        /\ UNCHANGED <<uploadedAt, supersededBy, extracted, everBounced, pc, todo, doc>>
    BY <1>0, <1>3 DEF FlagWrite, LogInv, Uploaded, TypeOK
  <2>2. \A e \in Docs : Live(e)' => Live(e) \/ e \in everBounced
    BY <1>0, <2>1 DEF Live, LogInv, Uploaded, TypeOK, DocState
  <2>3. \A c \in Docs : Between(c) => Between(c)'
    BY <2>1 DEF Between, Skipped, Ahead
  <2>4. ASSUME NEW a \in Docs, NEW b \in Docs, Live(a)', Live(b)', b \in extracted, Older(a, b),
               a \notin everBounced
        PROVE  \E c \in Docs : Older(a, c) /\ ~Older(b, c) /\ Between(c)'
    <3>1. CASE Live(b)
      BY <1>0, <2>2, <2>3, <2>4, <3>1 DEF FlankInv
    <3>2. CASE b \in everBounced
      <4>1. Between(b)' /\ ~Older(b, b)
        BY <1>0, <2>1, <3>2 DEF Between, Skipped, Older, TypeOK
      <4>2. QED
        BY <2>4, <4>1
    <3>3. QED
      BY <2>2, <2>4, <3>1, <3>2
  <2>5. QED
    BY <2>1, <2>4 DEF FlankInv, Older
<1>4. CASE \/ \E d \in Docs : Lapse(d) \/ DayZeroJob(d)
           \/ \E j \in Jobs : QueueJob(j)
           \/ FlagRead \/ UNCHANGED vars
  BY <1>1, <1>4 DEF Lapse, DayZeroJob, FireDayZero, ReclaimDayZero, SettleDayZero, QueueJob, FlagRead, vars, Live, Between, Skipped, Ahead
<1>5. ASSUME NEW p \in Passes, FailJob(p) \/ CrashPass(p) PROVE FALSE
  BY <1>0, <1>5 DEF FailJob, CrashPass, NoFaults, TypeOK
<1>6. ASSUME NEW p \in Passes, \/ \E r \in SUBSET Jobs : StartPass(p, r)
                               \/ \E j \in Jobs : Claim(p, j)
                               \/ Select(p) \/ EndPass(p) \/ FinishJob(p) \/ Reopen(p)
                               \/ Withdraw(p) \/ CheckLadder(p) \/ ScheduleLadder(p) \/ ScheduleDayZero(p)
      PROVE  FlankInv'
  <2>1. /\ UNCHANGED <<state, uploadedAt, supersededBy, extracted, everBounced>>
        /\ pc[p] \notin {"gate", "displace"}
        /\ todo[p] \subseteq todo'[p]
        /\ \A q \in Passes \ {p} : pc'[q] = pc[q] /\ todo'[q] = todo[q] /\ doc'[q] = doc[q]
    BY <1>0, <1>6 DEF StartPass, Claim, Select, EndPass, FinishJob, Release, Reopen, AfterBounce,
       Withdraw, CheckLadder, ScheduleLadder, ScheduleDayZero, Return, Goto, TypeOK, LogInv
  <2>2. \A c \in Docs : Between(c) => Between(c)'
    BY <2>1 DEF Between, Skipped, Ahead
  <2>3. QED
    BY <1>1, <2>1, <2>2 DEF Live
<1>7. ASSUME NEW p \in Passes, NEW d \in Docs, Extract(p, d) PROVE FlankInv'
  <2>1. /\ UNCHANGED <<state, uploadedAt, supersededBy, everBounced>> /\ extracted' = extracted \cup {d}
        /\ pc[p] = "extract" /\ pc'[p] = "gate" /\ d \in todo[p]
        /\ todo'[p] = todo[p] \ {d} /\ doc'[p] = d
        /\ \A q \in Passes \ {p} : pc'[q] = pc[q] /\ todo'[q] = todo[q] /\ doc'[q] = doc[q]
    BY <1>0, <1>7 DEF Extract, Goto, TypeOK
  <2>2. Between(d)' /\ ~Older(d, d)
    BY <1>0, <2>1 DEF Between, Ahead, Older, TypeOK
  <2>3. \A c \in Docs : Between(c) => Between(c)'
    <3>1. ASSUME NEW c \in Docs \ {d}, Between(c) PROVE Between(c)'
      BY <2>1, <3>1 DEF Between, Skipped, Ahead
    <3>2. QED
      BY <2>2, <3>1
  <2>4. ASSUME NEW a \in Docs, NEW b \in Docs, Live(a), Live(b), b \in extracted', Older(a, b),
               a \notin everBounced
        PROVE  \E c \in Docs : Older(a, c) /\ ~Older(b, c) /\ Between(c)'
    <3>1. CASE b \in extracted
      BY <1>0, <2>3, <2>4, <3>1 DEF FlankInv
    <3>2. CASE b = d
      BY <2>2, <2>4, <3>2
    <3>3. QED
      BY <2>1, <2>4, <3>1, <3>2
  <2>5. QED
    BY <2>1, <2>4 DEF FlankInv, Older, Live
<1>8. ASSUME NEW p \in Passes, Bounce(p) PROVE FlankInv'
  <2>1. /\ UNCHANGED <<uploadedAt, supersededBy, extracted, todo>>
        /\ everBounced' = everBounced \cup {doc[p]}
        /\ \A q \in Passes \ {p} : pc'[q] = pc[q] /\ doc'[q] = doc[q]
        /\ \A e \in Docs : state'[e] = IF e = doc[p] THEN "bounced_expired" ELSE state[e]
    BY <1>0, <1>8 DEF Bounce, Goto, TypeOK
  <2>2. \A c \in Docs : Between(c) => Between(c)'
    BY <2>1 DEF Between, Skipped, Ahead
  <2>3. QED
    BY <1>1, <2>1, <2>2 DEF Live
<1>9. ASSUME NEW p \in Passes, FindPrior(p) PROVE FlankInv'
  <2>1. /\ UNCHANGED <<state, uploadedAt, supersededBy, extracted, everBounced, todo>>
        /\ pc[p] = "gate" /\ doc[p] \in Docs /\ Uploaded(doc[p])
        /\ \A q \in Passes \ {p} : pc'[q] = pc[q] /\ doc'[q] = doc[q]
    BY <1>0, <1>9 DEF FindPrior, Return, Goto, HandInv, InHand, TypeOK, Uploaded
  <2>2. CASE pc'[p] = "displace" /\ doc'[p] = doc[p]
    <3>1. \A c \in Docs : Between(c) => Between(c)'
      BY <2>1, <2>2 DEF Between, Skipped, Ahead
    <3>2. QED
      BY <1>1, <2>1, <3>1 DEF Live
  <2>3. CASE Priors(doc[p]) = {}
    <3>1. PICK d \in Docs : d = doc[p]
      BY <2>1
    <3>2. \A a \in Docs : ~(Live(a) /\ Older(a, d))
      <4>1. {x \in Docs : x # d /\ Supersedable(x) /\ Older(x, d)} = {}
        BY <1>0, <2>3, <3>1, OlderHaveNewest DEF Priors
      <4>2. ~Older(d, d)
        BY <1>0 DEF Older, TypeOK
      <4>3. QED
        BY <4>1, <4>2 DEF Supersedable
    <3>3. \A c \in Docs : Between(c) => Between(c)' \/ c = d
      BY <2>1, <3>1 DEF Between, Skipped, Ahead
    <3>4. ASSUME NEW a \in Docs, NEW b \in Docs, Live(a), Live(b), b \in extracted, Older(a, b),
                 a \notin everBounced
          PROVE  \E c \in Docs : Older(a, c) /\ ~Older(b, c) /\ Between(c)'
      <4>1. PICK c \in Docs : Older(a, c) /\ ~Older(b, c) /\ Between(c)
        BY <1>0, <3>4 DEF FlankInv
      <4>2. c # d
        BY <3>2, <3>4, <4>1
      <4>3. QED
        BY <3>3, <4>1, <4>2
    <3>5. QED
      BY <2>1, <3>4 DEF FlankInv, Older, Live
  <2>4. QED
    BY <1>0, <1>9, <2>2, <2>3 DEF FindPrior, Goto, TypeOK
<1>10. ASSUME NEW p \in Passes, Displace(p) PROVE FlankInv'
  BY <1>10, FlankDisplace
<1>11. QED
  BY <1>2, <1>3, <1>4, <1>5, <1>6, <1>7, <1>8, <1>9, <1>10 DEF Next, PassStep

\* renewal.ts:233-235, :250-270: a worker that runs one pass at a time, and neither
\* fails nor dies, leaves two documents current only around an upload it skipped: one
\* the gate bounced, or one an admin flagged before Vision read it.  For any number of
\* documents, jobs, lapses and flags, in whatever order the SELECT returns them, as
\* long as no two uploads share a millisecond.
THEOREM SurvivorsFlankASkipHolds ==
  OnePass /\ NoFaults /\ ~SameInstant => (Spec => []SurvivorsFlankASkip)
<1> SUFFICES ASSUME OnePass, NoFaults, ~SameInstant PROVE Spec => []SurvivorsFlankASkip
  OBVIOUS
<1>1. Init => SkipInv
  <2>1. Init => LogInv /\ TodoInv /\ PriorInv /\ FlankInv
    BY DEF Init, LogInv, TodoInv, PriorInv, FlankInv, Ahead, Uploaded, Live
  <2>2. QED
    BY <2>1, InitKept DEF KeptInv, SkipInv
<1>2. SkipInv /\ [Next]_vars => SkipInv'
  BY IInvStep, OnceStep, LogStep, TodoStep, PriorStep, FlankStep DEF SkipInv
<1>3. SkipInv => SurvivorsFlankASkip
  <2> SUFFICES ASSUME SkipInv, AtRest, NEW a \in extracted, NEW b \in extracted,
                      Live(a), Live(b), Older(a, b)
               PROVE  \E c \in Docs :
                        /\ ~Older(c, a) /\ ~Older(b, c)
                        /\ c \in everBounced \/ (state[c] = "correction_requested" /\ c \notin extracted)
    BY DEF SurvivorsFlankASkip
  <2>1. /\ a \in Docs /\ b \in Docs /\ \A x \in Docs : uploadedAt[x] \in Nat
    BY DEF SkipInv, IInv, TypeOK
  <2>2. \A p \in Passes : Ahead(p) = {}
    BY DEF AtRest, SkipInv, LogInv, Ahead
  <2>3. CASE a \in everBounced
    BY <2>1, <2>3 DEF Older
  <2>4. ASSUME NEW c \in Docs, Older(a, c), ~Older(b, c), Between(c)
        PROVE  ~Older(c, a) /\ Skipped(c)
    BY <2>1, <2>2, <2>4 DEF Older, Between
  <2>5. QED
    BY <2>1, <2>3, <2>4 DEF SkipInv, FlankInv, Skipped
<1>4. QED
  BY <1>1, <1>2, <1>3, PTL DEF Spec
=============================================================================
