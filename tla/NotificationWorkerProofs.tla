---------------------- MODULE NotificationWorkerProofs ----------------------
(***************************************************************************)
(* For every number of rows, passes and crashes and every stale window:    *)
(* type correctness; and, if no pass outlives the window (PassLimit <      *)
(* Stale), mutual exclusion over the exception rows, the accounting of     *)
(* duplicate hand-offs and of second emails, the withdrawal of a superseded*)
(* chase, and that the worker implements the outbox.                       *)
(***************************************************************************)
EXTENDS NotificationWorker, TLAPS

\* A pass that sends or records has a row of the table in hand.
HandInv == \A p \in Passes : pc[p] \in {"send", "record"} => hand[p] \in Rows

\* A pass is never older than its limit, and has no age before it starts.
AgeInv == \A p \in Passes : age[p] <= PassLimit /\ (~Running(p) => age[p] = 0)

\* The heart of the argument: the claim of a row in hand is as old as the pass
\* that holds it, hence younger than the stale window, so it is never reclaimed.
HeldInv ==
    \A p \in Passes, r \in ExceptionRows :
        Held(p, r) => status[r] = "sending" /\ claimAge[r] = age[p]

\* Only a row recorded as sent has a provider message id.
MessageInv ==
    \A r \in ExceptionRows : r \in messageId => status[r] \in {"sent", "bounced"}

\* At most one accepted hand-off is not yet accounted for as lost, and only by
\* a recorded outcome or by the pass that is about to record it.
LossInv ==
    \A r \in ExceptionRows :
        \/ handoffs[r] <= lost[r]
        \/ /\ handoffs[r] = 1 + lost[r]
           /\ \/ status[r] \in {"sent", "failed", "bounced"}
              \/ \E p \in Passes : Accepted(p, r)

TypeInv == TypeOK /\ HandInv

IInv == TypeInv /\ AgeInv /\ HeldInv /\ ExclusiveHold /\ MessageInv

-----------------------------------------------------------------------------

LEMMA TypeInvInit == Init => TypeInv
<1> SUFFICES ASSUME Init PROVE TypeInv
  OBVIOUS
<1> USE RowsAssumption, TimeAssumption DEF Init, Status, IdleDigest, Outcome
<1>1. due \in [Passes -> SUBSET Rows]
  OBVIOUS
<1>2. digest \in [pc : {"idle", "send", "record"}, items : SUBSET DigestRows,
                  outcome : Outcome]
  OBVIOUS
<1>3. HandInv
  BY DEF HandInv
<1>4. /\ status \in [Rows -> Status] /\ claimAge \in [Rows -> 0..Stale]
      /\ pc \in [Passes -> {"idle", "discover", "claim", "send", "record"}]
      /\ age \in [Passes -> Nat] /\ hand \in [Passes -> Rows \cup {NoRow}]
      /\ outcome \in [Passes -> Outcome]
      /\ handoffs \in [Rows -> Nat] /\ emails \in [Rows -> Nat] /\ lost \in [Rows -> Nat]
  OBVIOUS
<1>5. clock \in 0..Horizon /\ crashes \in 0..MaxCrashes
  OBVIOUS
<1>6. messageId \in SUBSET Rows /\ keys \in SUBSET Rows /\ renewed \in BOOLEAN
  OBVIOUS
<1>7. QED
  BY <1>1, <1>2, <1>3, <1>4, <1>5, <1>6 DEF TypeInv, TypeOK

LEMMA TypeInvStep == TypeInv /\ [Next]_vars => TypeInv'
<1> SUFFICES ASSUME TypeInv, [Next]_vars PROVE TypeInv'
  OBVIOUS
<1> USE RowsAssumption, TimeAssumption
    DEF TypeInv, TypeOK, HandInv, Status, Outcome, tableVars, mailVars, passVars
<1>1. CASE Tick
  BY <1>1 DEF Tick, AtMost, Running
<1>2. ASSUME NEW r \in Rows, QueueNotification(r) PROVE TypeInv'
  BY <1>2 DEF QueueNotification
<1>3. ASSUME NEW r \in Rows, HandleBounce(r) PROVE TypeInv'
  BY <1>3 DEF HandleBounce
<1>4. CASE SupersedeReminders
  BY <1>4 DEF SupersedeReminders
<1>5. ASSUME NEW p \in Passes, StartPass(p) PROVE TypeInv'
  BY <1>5 DEF StartPass
<1>6. ASSUME NEW p \in Passes, Discover(p) PROVE TypeInv'
  BY <1>6 DEF Discover
<1>7. ASSUME NEW p \in Passes, NEW r \in Rows, Claim(p, r) PROVE TypeInv'
  <2>1. CASE Takes(r)
    <3>1. AtMost(age[p], Stale) \in 0..Stale
      BY DEF AtMost
    <3>2. QED
      BY <1>7, <2>1, <3>1 DEF Claim
  <2>2. CASE ~Takes(r)
    BY <1>7, <2>2 DEF Claim
  <2>3. QED
    BY <2>1, <2>2
<1>8. ASSUME NEW p \in Passes, NEW o \in Outcome, Send(p, o) PROVE TypeInv'
  <2>1. hand[p] \in Rows
    BY <1>8 DEF Send
  <2>2. CASE o = "failed"
    BY <1>8, <2>2 DEF Send
  <2>3. CASE o # "failed"
    <3>1. keys' \in SUBSET Rows /\ handoffs' \in [Rows -> Nat] /\ emails' \in [Rows -> Nat]
      BY <1>8, <2>1, <2>3 DEF Send
    <3>2. QED
      BY <1>8, <2>3, <3>1 DEF Send
  <2>4. QED
    BY <2>2, <2>3
<1>9. ASSUME NEW p \in Passes, Record(p) PROVE TypeInv'
  <2>1. hand[p] \in Rows
    BY <1>9 DEF Record, Verdict
  <2>2. messageId' \in SUBSET Rows /\ status' \in [Rows -> Status]
    BY <1>9, <2>1 DEF Record, Verdict
  <2>3. QED
    BY <1>9, <2>1, <2>2 DEF Record, Verdict
<1>10. ASSUME NEW p \in Passes, EndPass(p) PROVE TypeInv'
  BY <1>10 DEF EndPass, Reset
<1>11. ASSUME NEW p \in Passes, CrashPass(p) PROVE TypeInv'
  <2>1. lost' \in [Rows -> Nat]
    BY <1>11 DEF CrashPass
  <2>2. QED
    BY <1>11, <2>1 DEF CrashPass, Reset
<1>12. CASE ReadDigest
  BY <1>12 DEF ReadDigest
<1>13. ASSUME NEW o \in Outcome, SendDigest(o) PROVE TypeInv'
  <2>1. emails' \in [Rows -> Nat]
    BY <1>13 DEF SendDigest
  <2>2. QED
    BY <1>13, <2>1 DEF SendDigest
<1>14. ASSUME NEW r \in DigestRows, RecordDigestItem(r) PROVE TypeInv'
  BY <1>14 DEF RecordDigestItem, Verdict, IdleDigest
<1>15. CASE CrashDigest
  BY <1>15 DEF CrashDigest, IdleDigest
<1>16. CASE UNCHANGED vars
  BY <1>16 DEF vars
<1>17. ASSUME NEW r \in Rows, ForgetKey(r) PROVE TypeInv'
  BY <1>17 DEF ForgetKey
<1>18. QED
  BY <1>1, <1>2, <1>3, <1>4, <1>5, <1>6, <1>7, <1>8, <1>9, <1>10, <1>11,
     <1>12, <1>13, <1>14, <1>15, <1>16, <1>17 DEF Next, PassStep, DigestStep

\* Every reachable state has the declared types.
THEOREM TypeCorrect == Spec => []TypeOK
<1>1. TypeInv => TypeOK
  BY DEF TypeInv
<1>2. QED
  BY <1>1, TypeInvInit, TypeInvStep, PTL DEF Spec

-----------------------------------------------------------------------------
(* Exclusive hold, while no pass outlives the stale window *)

LEMMA HoldInit == Init => AgeInv /\ HeldInv /\ ExclusiveHold /\ MessageInv
BY TimeAssumption DEF Init, AgeInv, HeldInv, ExclusiveHold, MessageInv, Held, Running

\* A claim in hand is fresh: it is never one that StartPass takes back.
LEMMA HeldIsFresh ==
  ASSUME PassLimit < Stale, IInv,
         NEW p \in Passes, NEW r \in ExceptionRows, Held(p, r)
  PROVE  ~IsStale(r)
BY RowsAssumption, TimeAssumption
   DEF IInv, TypeInv, TypeOK, AgeInv, HeldInv, IsStale, ExceptionRows

LEMMA HoldStep ==
  ASSUME PassLimit < Stale, IInv, [Next]_vars
  PROVE  AgeInv' /\ HeldInv' /\ ExclusiveHold' /\ MessageInv'
<1> DEFINE Hold == AgeInv /\ HeldInv /\ ExclusiveHold /\ MessageInv
<1> USE RowsAssumption, TimeAssumption
    DEF IInv, TypeInv, TypeOK, AgeInv, HeldInv, ExclusiveHold, MessageInv, Held,
        Running, Status, ExceptionRows, tableVars, mailVars, passVars
<1>1. CASE Tick
  BY <1>1 DEF Tick, AtMost
<1>2. ASSUME NEW r \in Rows, QueueNotification(r) PROVE Hold'
  BY <1>2 DEF QueueNotification
<1>3. ASSUME NEW r \in Rows, HandleBounce(r) PROVE Hold'
  BY <1>3 DEF HandleBounce
<1>4. CASE SupersedeReminders
  BY <1>4 DEF SupersedeReminders, Withdrawn
<1>5. ASSUME NEW p \in Passes, StartPass(p) PROVE Hold'
  BY <1>5, HeldIsFresh DEF StartPass, IsStale
<1>6. ASSUME NEW p \in Passes, Discover(p) PROVE Hold'
  BY <1>6 DEF Discover
<1>7. ASSUME NEW p \in Passes, NEW r \in Rows, Claim(p, r) PROVE Hold'
  <2>1. CASE ~Takes(r)
    BY <1>7, <2>1 DEF Claim
  <2>2. CASE Takes(r)
    <3>1. age[p] \in Nat /\ age[p] <= PassLimit /\ AtMost(age[p], Stale) = age[p]
      BY DEF AtMost
    <3>2. status[r] = "queued" /\ \A q \in Passes : ~Held(q, r) \/ r \notin ExceptionRows
      BY <2>2 DEF Takes
    <3>3. /\ status' = [status EXCEPT ![r] = "sending"]
          /\ claimAge' = [claimAge EXCEPT ![r] = age[p]]
          /\ pc' = [pc EXCEPT ![p] = "send"] /\ hand' = [hand EXCEPT ![p] = r]
          /\ UNCHANGED <<messageId, age>> /\ pc[p] = "claim"
      BY <1>7, <2>2, <3>1 DEF Claim
    <3>4. AgeInv' /\ HeldInv'
      BY <3>2, <3>3
    <3>5. ExclusiveHold' /\ MessageInv'
      BY <3>2, <3>3
    <3>6. QED
      BY <3>4, <3>5
  <2>3. QED
    BY <2>1, <2>2
<1>8. ASSUME NEW p \in Passes, NEW o \in Outcome, Send(p, o) PROVE Hold'
  BY <1>8 DEF Send
<1>9. ASSUME NEW p \in Passes, Record(p) PROVE Hold'
  BY <1>9 DEF Record, Verdict, HandInv
<1>10. ASSUME NEW p \in Passes, EndPass(p) PROVE Hold'
  BY <1>10 DEF EndPass, Reset
<1>11. ASSUME NEW p \in Passes, CrashPass(p) PROVE Hold'
  BY <1>11 DEF CrashPass, Reset
<1>12. CASE ReadDigest
  BY <1>12 DEF ReadDigest
<1>13. ASSUME NEW o \in Outcome, SendDigest(o) PROVE Hold'
  BY <1>13 DEF SendDigest
<1>14. ASSUME NEW r \in DigestRows, RecordDigestItem(r) PROVE Hold'
  BY <1>14 DEF RecordDigestItem, Verdict
<1>15. CASE CrashDigest
  BY <1>15 DEF CrashDigest
<1>16. CASE UNCHANGED vars
  BY <1>16 DEF vars
<1>17. ASSUME NEW r \in Rows, ForgetKey(r) PROVE Hold'
  BY <1>17 DEF ForgetKey
<1>18. QED
  BY <1>1, <1>2, <1>3, <1>4, <1>5, <1>6, <1>7, <1>8, <1>9, <1>10, <1>11,
     <1>12, <1>13, <1>14, <1>15, <1>16, <1>17 DEF Next, PassStep, DigestStep

\* Overlapping passes never hold the same exception row (worker.ts:10-17): the
\* guarded claim and the stale window exclude each other's rows, for any number
\* of passes, rows and crashes.
THEOREM ExclusiveHoldHolds == PassLimit < Stale => (Spec => []ExclusiveHold)
<1> SUFFICES ASSUME PassLimit < Stale PROVE Spec => []ExclusiveHold
  OBVIOUS
<1>1. Init => IInv
  BY TypeInvInit, HoldInit DEF IInv
<1>2. IInv /\ [Next]_vars => IInv'
  BY TypeInvStep, HoldStep DEF IInv
<1>3. IInv => ExclusiveHold
  BY DEF IInv
<1>4. QED
  BY <1>1, <1>2, <1>3, PTL DEF Spec

-----------------------------------------------------------------------------
(* Duplicate hand-offs *)

LEMMA LossInit == Init => LossInv
BY RowsAssumption DEF Init, LossInv, ExceptionRows

LEMMA LossStep ==
  ASSUME PassLimit < Stale, IInv, LossInv, [Next]_vars
  PROVE  LossInv'
<1> USE RowsAssumption, TimeAssumption
    DEF IInv, TypeInv, TypeOK, HeldInv, ExclusiveHold, MessageInv, LossInv, Accepted, Held,
        Status, ExceptionRows, tableVars, mailVars, passVars
<1>1. CASE Tick
  BY <1>1 DEF Tick
<1>2. ASSUME NEW r \in Rows, QueueNotification(r) PROVE LossInv'
  BY <1>2 DEF QueueNotification
<1>3. ASSUME NEW r \in Rows, HandleBounce(r) PROVE LossInv'
  BY <1>3 DEF HandleBounce
<1>4. CASE SupersedeReminders
  BY <1>4 DEF SupersedeReminders, Withdrawn
<1>5. ASSUME NEW p \in Passes, StartPass(p) PROVE LossInv'
  BY <1>5 DEF StartPass, IsStale, Running
<1>6. ASSUME NEW p \in Passes, Discover(p) PROVE LossInv'
  BY <1>6 DEF Discover
<1>7. ASSUME NEW p \in Passes, NEW r \in Rows, Claim(p, r) PROVE LossInv'
  <2>1. CASE ~Takes(r)
    BY <1>7, <2>1 DEF Claim
  <2>2. CASE Takes(r)
    <3>1. /\ status[r] = "queued" /\ status' = [status EXCEPT ![r] = "sending"]
          /\ pc[p] = "claim" /\ pc' = [pc EXCEPT ![p] = "send"]
          /\ hand' = [hand EXCEPT ![p] = r]
          /\ UNCHANGED <<handoffs, lost, outcome>>
      BY <1>7, <2>2 DEF Claim, Takes
    <3>2. r \in ExceptionRows => handoffs[r] <= lost[r]
      BY <3>1
    <3>3. \A q \in Passes, s \in Rows : Accepted(q, s) => Accepted(q, s)'
      BY <3>1
    <3>4. QED
      BY <3>1, <3>2, <3>3
  <2>3. QED
    BY <2>1, <2>2
<1>8. ASSUME NEW p \in Passes, NEW o \in Outcome, Send(p, o) PROVE LossInv'
  <2>1. /\ pc[p] = "send" /\ hand[p] \in Rows
        /\ pc' = [pc EXCEPT ![p] = "record"] /\ outcome' = [outcome EXCEPT ![p] = o]
        /\ UNCHANGED <<hand, status, lost>>
    BY <1>8 DEF Send, HandInv
  <2>2. CASE o = "failed"
    BY <1>8, <2>1, <2>2 DEF Send
  <2>3. CASE o # "failed"
    <3>1. handoffs' = [handoffs EXCEPT ![hand[p]] = @ + 1]
      BY <1>8, <2>3 DEF Send
    <3>2. hand[p] \in ExceptionRows => handoffs[hand[p]] <= lost[hand[p]]
      BY <2>1
    <3>3. \A q \in Passes, s \in Rows : Accepted(q, s) => Accepted(q, s)'
      BY <2>1
    <3>4. Accepted(p, hand[p])'
      BY <2>1, <2>3
    <3>5. ASSUME NEW s \in ExceptionRows, s = hand[p]
          PROVE  handoffs'[s] <= lost'[s] \/ handoffs'[s] = 1 + lost'[s]
      BY <2>1, <3>1, <3>2, <3>5
    <3>6. ASSUME NEW s \in ExceptionRows, s # hand[p]
          PROVE  handoffs'[s] = handoffs[s] /\ lost'[s] = lost[s] /\ status'[s] = status[s]
      BY <2>1, <3>1, <3>6
    <3>7. QED
      BY <2>1, <3>3, <3>4, <3>5, <3>6
  <2>4. QED
    BY <2>2, <2>3
<1>9. ASSUME NEW p \in Passes, Record(p) PROVE LossInv'
  BY <1>9 DEF Record, Verdict, HandInv
<1>10. ASSUME NEW p \in Passes, EndPass(p) PROVE LossInv'
  BY <1>10 DEF EndPass, Reset
<1>11. ASSUME NEW p \in Passes, CrashPass(p) PROVE LossInv'
  <2>1. /\ pc' = [pc EXCEPT ![p] = "idle"] /\ hand' = [hand EXCEPT ![p] = NoRow]
        /\ outcome' = [outcome EXCEPT ![p] = "ok"]
        /\ UNCHANGED <<status, handoffs>>
    BY <1>11 DEF CrashPass, Reset
  <2>2. CASE pc[p] = "record" /\ outcome[p] # "failed"
    BY <1>11, <2>1, <2>2 DEF CrashPass, HandInv
  <2>3. CASE ~(pc[p] = "record" /\ outcome[p] # "failed")
    BY <1>11, <2>1, <2>3 DEF CrashPass
  <2>4. QED
    BY <2>2, <2>3
<1>12. CASE ReadDigest
  BY <1>12 DEF ReadDigest
<1>13. ASSUME NEW o \in Outcome, SendDigest(o) PROVE LossInv'
  BY <1>13 DEF SendDigest
<1>14. ASSUME NEW r \in DigestRows, RecordDigestItem(r) PROVE LossInv'
  BY <1>14 DEF RecordDigestItem, Verdict
<1>15. CASE CrashDigest
  BY <1>15 DEF CrashDigest
<1>16. CASE UNCHANGED vars
  BY <1>16 DEF vars
<1>17. ASSUME NEW r \in Rows, ForgetKey(r) PROVE LossInv'
  BY <1>17 DEF ForgetKey
<1>18. QED
  BY <1>1, <1>2, <1>3, <1>4, <1>5, <1>6, <1>7, <1>8, <1>9, <1>10, <1>11,
     <1>12, <1>13, <1>14, <1>15, <1>16, <1>17 DEF Next, PassStep, DigestStep

\* A row is handed to the mailer again only as often as a pass died with an
\* accepted send in hand (worker.ts:23-24), for any number of passes and rows.
THEOREM DuplicateOnlyAfterLossHolds == PassLimit < Stale => (Spec => []DuplicateOnlyAfterLoss)
<1> SUFFICES ASSUME PassLimit < Stale PROVE Spec => []DuplicateOnlyAfterLoss
  OBVIOUS
<1>1. Init => IInv /\ LossInv
  BY TypeInvInit, HoldInit, LossInit DEF IInv
<1>2. IInv /\ LossInv /\ [Next]_vars => (IInv /\ LossInv)'
  BY TypeInvStep, HoldStep, LossStep DEF IInv
<1>3. IInv /\ LossInv => DuplicateOnlyAfterLoss
  BY DEF IInv, TypeInv, TypeOK, LossInv, DuplicateOnlyAfterLoss, ExceptionRows
<1>4. QED
  BY <1>1, <1>2, <1>3, PTL DEF Spec

-----------------------------------------------------------------------------
(* One email per exception row, as long as the provider remembers its key *)

\* An email leaves with a hand-off, under a key the provider remembers from then
\* on, so that it takes forgetting to let out another.
KeyInv ==
    \A r \in ExceptionRows :
        /\ emails[r] <= handoffs[r]
        /\ emails[r] > 0 => r \in keys \cup forgotten
        /\ emails[r] > 1 => r \in forgotten

LEMMA KeyInit == Init => KeyInv
BY RowsAssumption DEF Init, KeyInv, ExceptionRows

LEMMA KeyStep ==
  ASSUME TypeInv, KeyInv, [Next]_vars
  PROVE  KeyInv'
<1> USE RowsAssumption DEF TypeInv, TypeOK, KeyInv, ExceptionRows, mailVars
<1>1. ASSUME NEW p \in Passes, NEW o \in Outcome, Send(p, o) PROVE KeyInv'
  <2>1. hand[p] \in Rows
    BY <1>1 DEF Send, HandInv
  <2>2. CASE o = "failed"
    BY <1>1, <2>2 DEF Send
  <2>3. CASE o # "failed"
    <3>1. /\ keys' = keys \cup {hand[p]} /\ forgotten' = forgotten
          /\ handoffs' = [handoffs EXCEPT ![hand[p]] = @ + 1]
          /\ emails' = [emails EXCEPT ![hand[p]] = IF hand[p] \in keys THEN @ ELSE @ + 1]
      BY <1>1, <2>3 DEF Send, KnownKey
    <3>2. QED
      BY <2>1, <3>1
  <2>4. QED
    BY <2>2, <2>3
<1>2. ASSUME NEW o \in Outcome, SendDigest(o) PROVE KeyInv'
  <2>1. digest.items \subseteq DigestRows
    BY DEF Outcome
  <2>2. UNCHANGED <<keys, forgotten, handoffs>> /\ \A r \in ExceptionRows : emails'[r] = emails[r]
    BY <1>2, <2>1 DEF SendDigest
  <2>3. QED
    BY <2>2
<1>3. ASSUME NEW r \in Rows, ForgetKey(r) PROVE KeyInv'
  BY <1>3 DEF ForgetKey
<1>4. CASE UNCHANGED mailVars
  BY <1>4
<1>5. QED
  BY <1>1, <1>2, <1>3, <1>4
     DEF Next, PassStep, DigestStep, vars, Tick, QueueNotification, HandleBounce,
         SupersedeReminders, StartPass, Discover, Claim, Record, EndPass, CrashPass,
         ReadDigest, RecordDigestItem, CrashDigest

\* If no pass outlives the stale window, a second email of an exception row means
\* both that the outcome of an accepted send died with its pass and that the
\* provider had dropped the row's key (worker.ts:21-24, mailer.ts:94-98).
THEOREM OneEmailPerExceptionHolds == PassLimit < Stale => (Spec => []OneEmailPerException)
<1> SUFFICES ASSUME PassLimit < Stale PROVE Spec => []OneEmailPerException
  OBVIOUS
<1> DEFINE J == IInv /\ LossInv /\ KeyInv
<1>1. Init => J
  BY TypeInvInit, HoldInit, LossInit, KeyInit DEF IInv
<1>2. J /\ [Next]_vars => J'
  BY TypeInvStep, HoldStep, LossStep, KeyStep DEF IInv
<1>3. J => OneEmailPerException
  BY DEF IInv, TypeInv, TypeOK, LossInv, KeyInv, OneEmailPerException, ExceptionRows
<1> HIDE DEF J
<1>4. QED
  BY <1>1, <1>2, <1>3, PTL DEF Spec

-----------------------------------------------------------------------------
(* A renewal and the chase it withdraws *)

\* While no pass has died, every row that is 'sending' is in some pass's hands.
KeptInv ==
    crashes = 0 =>
        \A r \in ExceptionRows : status[r] = "sending" => \E p \in Passes : Held(p, r)

\* So nothing brings a row of a superseded chase back to the queue.
WithdrawnInv ==
    renewed /\ crashes = 0 => \A r \in ChaseRows \ late : status[r] # "queued"

LEMMA RenewalInit == Init => KeptInv /\ WithdrawnInv
BY RowsAssumption DEF Init, KeptInv, WithdrawnInv, ExceptionRows

LEMMA KeptStep ==
  ASSUME PassLimit < Stale, IInv, KeptInv, [Next]_vars
  PROVE  KeptInv'
<1> USE RowsAssumption, TimeAssumption
    DEF IInv, TypeInv, TypeOK, KeptInv, Held, Status, ExceptionRows,
        tableVars, mailVars, passVars
<1>1. CASE Tick
  BY <1>1 DEF Tick
<1>2. ASSUME NEW r \in Rows, QueueNotification(r) PROVE KeptInv'
  BY <1>2 DEF QueueNotification
<1>3. ASSUME NEW r \in Rows, HandleBounce(r) PROVE KeptInv'
  BY <1>3 DEF HandleBounce
<1>4. CASE SupersedeReminders
  BY <1>4 DEF SupersedeReminders, Withdrawn
<1>5. ASSUME NEW p \in Passes, StartPass(p) PROVE KeptInv'
  BY <1>5 DEF StartPass, IsStale, Running
<1>6. ASSUME NEW p \in Passes, Discover(p) PROVE KeptInv'
  BY <1>6 DEF Discover
<1>7. ASSUME NEW p \in Passes, NEW r \in Rows, Claim(p, r) PROVE KeptInv'
  <2>1. CASE ~Takes(r)
    BY <1>7, <2>1 DEF Claim
  <2>2. CASE Takes(r)
    <3>1. /\ status[r] = "queued" /\ status' = [status EXCEPT ![r] = "sending"]
          /\ pc[p] = "claim" /\ pc' = [pc EXCEPT ![p] = "send"]
          /\ hand' = [hand EXCEPT ![p] = r]
          /\ UNCHANGED crashes
      BY <1>7, <2>2 DEF Claim, Takes
    <3>2. Held(p, r)' /\ \A q \in Passes, s \in Rows : Held(q, s) => Held(q, s)'
      BY <3>1
    <3>3. QED
      BY <3>1, <3>2
  <2>3. QED
    BY <2>1, <2>2
<1>8. ASSUME NEW p \in Passes, NEW o \in Outcome, Send(p, o) PROVE KeptInv'
  BY <1>8 DEF Send
<1>9. ASSUME NEW p \in Passes, Record(p) PROVE KeptInv'
  BY <1>9 DEF Record, Verdict, HandInv
<1>10. ASSUME NEW p \in Passes, EndPass(p) PROVE KeptInv'
  BY <1>10 DEF EndPass, Reset
<1>11. ASSUME NEW p \in Passes, CrashPass(p) PROVE KeptInv'
  BY <1>11 DEF CrashPass
<1>12. CASE ReadDigest
  BY <1>12 DEF ReadDigest
<1>13. ASSUME NEW o \in Outcome, SendDigest(o) PROVE KeptInv'
  BY <1>13 DEF SendDigest
<1>14. ASSUME NEW r \in DigestRows, RecordDigestItem(r) PROVE KeptInv'
  BY <1>14 DEF RecordDigestItem, Verdict
<1>15. CASE CrashDigest
  BY <1>15 DEF CrashDigest
<1>16. CASE UNCHANGED vars
  BY <1>16 DEF vars
<1>17. ASSUME NEW r \in Rows, ForgetKey(r) PROVE KeptInv'
  BY <1>17 DEF ForgetKey
<1>18. QED
  BY <1>1, <1>2, <1>3, <1>4, <1>5, <1>6, <1>7, <1>8, <1>9, <1>10, <1>11,
     <1>12, <1>13, <1>14, <1>15, <1>16, <1>17 DEF Next, PassStep, DigestStep

\* A pass may take a claim back only when the pass that made it has died.
LEMMA NoneReclaimed ==
  ASSUME PassLimit < Stale, IInv, KeptInv, crashes = 0, NEW r \in ExceptionRows
  PROVE  ~IsStale(r)
BY HeldIsFresh DEF KeptInv, IsStale

LEMMA WithdrawnStep ==
  ASSUME PassLimit < Stale, IInv, KeptInv, WithdrawnInv, [Next]_vars
  PROVE  /\ WithdrawnInv'
         /\ \A r \in ChaseRows \ late :
              renewed /\ crashes = 0 /\ status[r] # "sending" => status'[r] # "sending"
<1> DEFINE Kept ==
      /\ WithdrawnInv'
      /\ \A r \in ChaseRows \ late :
           renewed /\ crashes = 0 /\ status[r] # "sending" => status'[r] # "sending"
<1> USE RowsAssumption
    DEF IInv, TypeInv, TypeOK, WithdrawnInv, ExceptionRows, tableVars, mailVars, passVars
<1>1. CASE Tick
  BY <1>1 DEF Tick
<1>2. ASSUME NEW r \in Rows, QueueNotification(r) PROVE Kept
  BY <1>2 DEF QueueNotification
<1>3. ASSUME NEW r \in Rows, HandleBounce(r) PROVE Kept
  BY <1>3 DEF HandleBounce
<1>4. CASE SupersedeReminders
  BY <1>4 DEF SupersedeReminders, Withdrawn
<1>5. ASSUME NEW p \in Passes, StartPass(p) PROVE Kept
  <2>1. UNCHANGED <<crashes, renewed, late>>
    BY <1>5 DEF StartPass
  <2>2. crashes = 0 => \A r \in ChaseRows : status'[r] = status[r]
    BY <1>5, NoneReclaimed DEF StartPass
  <2>3. QED
    BY <2>1, <2>2
<1>6. ASSUME NEW p \in Passes, Discover(p) PROVE Kept
  BY <1>6 DEF Discover
<1>7. ASSUME NEW p \in Passes, NEW r \in Rows, Claim(p, r) PROVE Kept
  BY <1>7 DEF Claim, Takes
<1>8. ASSUME NEW p \in Passes, NEW o \in Outcome, Send(p, o) PROVE Kept
  BY <1>8 DEF Send
<1>9. ASSUME NEW p \in Passes, Record(p) PROVE Kept
  BY <1>9 DEF Record, Verdict
<1>10. ASSUME NEW p \in Passes, EndPass(p) PROVE Kept
  BY <1>10 DEF EndPass
<1>11. ASSUME NEW p \in Passes, CrashPass(p) PROVE Kept
  BY <1>11 DEF CrashPass
<1>12. CASE ReadDigest
  BY <1>12 DEF ReadDigest
<1>13. ASSUME NEW o \in Outcome, SendDigest(o) PROVE Kept
  BY <1>13 DEF SendDigest
<1>14. ASSUME NEW r \in DigestRows, RecordDigestItem(r) PROVE Kept
  BY <1>14 DEF RecordDigestItem, Verdict
<1>15. CASE CrashDigest
  BY <1>15 DEF CrashDigest
<1>16. CASE UNCHANGED vars
  BY <1>16 DEF vars
<1>17. ASSUME NEW r \in Rows, ForgetKey(r) PROVE Kept
  BY <1>17 DEF ForgetKey
<1>18. QED
  BY <1>1, <1>2, <1>3, <1>4, <1>5, <1>6, <1>7, <1>8, <1>9, <1>10, <1>11,
     <1>12, <1>13, <1>14, <1>15, <1>16, <1>17 DEF Next, PassStep, DigestStep

\* Unless a pass has died, no row of a superseded chase is claimed again, however
\* long before the renewal a pass discovered it (renewal.ts, worker.ts), but for
\* a chase that was scheduled only after the renewal.
THEOREM NoChaseClaimedAfterRenewalHolds ==
    PassLimit < Stale => (Spec => NoChaseClaimedAfterRenewal)
<1> SUFFICES ASSUME PassLimit < Stale PROVE Spec => NoChaseClaimedAfterRenewal
  OBVIOUS
<1> DEFINE J == IInv /\ KeptInv /\ WithdrawnInv
           A == \A r \in ChaseRows \ late :
                  renewed /\ crashes = 0 /\ status[r] # "sending" => status'[r] # "sending"
<1>1. Init => J
  BY TypeInvInit, HoldInit, RenewalInit DEF IInv
<1>2. J /\ [Next]_vars => J'
  BY TypeInvStep, HoldStep, KeptStep, WithdrawnStep DEF IInv
<1>3. J /\ [Next]_vars => A
  BY WithdrawnStep
<1>4. NoChaseClaimedAfterRenewal <=> [][A]_vars
  BY DEF NoChaseClaimedAfterRenewal
<1> HIDE DEF J, A
<1>5. QED
  BY <1>1, <1>2, <1>3, <1>4, PTL DEF Spec

-----------------------------------------------------------------------------
(* The worker implements the outbox.  Every step either leaves the exception
   rows as the outbox sees them or is one of the outbox's own. *)

Unknown(r) == \E p \in Passes : Accepted(p, r)

LEMMA OutboxInit == Init => OB!Init
<1> SUFFICES ASSUME Init PROVE OB!Init
  OBVIOUS
<1>1. \A r \in ExceptionRows : OutboxState(r) = "absent" /\ handoffs[r] = 0 /\ ~Unknown(r)
  BY DEF Init, OutboxState, ExceptionRows, Unknown, Accepted
<1>2. QED
  BY <1>1 DEF OB!Init, Unknown

\* What one step may do to an exception row, as the outbox sees it.
Same(r) ==
    /\ OutboxState(r)' = OutboxState(r)
    /\ Unknown(r)' = Unknown(r)
    /\ handoffs'[r] = handoffs[r]
Posted(r) ==
    /\ OutboxState(r) = "absent" /\ OutboxState(r)' = "pending"
    /\ Unknown(r)' = Unknown(r) /\ handoffs'[r] = handoffs[r]
HandedOff(r) ==
    /\ OutboxState(r) = "pending" /\ OutboxState(r)' = "pending"
    /\ ~Unknown(r) /\ Unknown(r)' /\ handoffs'[r] = handoffs[r] + 1
OutcomeLost(r) ==
    /\ OutboxState(r)' = OutboxState(r)
    /\ Unknown(r) /\ ~Unknown(r)' /\ handoffs'[r] = handoffs[r]
Settled(r) ==
    /\ OutboxState(r) = "pending" /\ OutboxState(r)' = "settled"
    /\ ~Unknown(r)' /\ handoffs'[r] = handoffs[r]

Unseen == \A r \in ExceptionRows : Same(r)
OnlyOne ==
    \E r \in ExceptionRows :
        /\ \A q \in ExceptionRows \ {r} : Same(q)
        /\ Posted(r) \/ HandedOff(r) \/ OutcomeLost(r) \/ Settled(r)
Withdraws ==
    \E M \in SUBSET ExceptionRows :
        /\ \A r \in M : OutboxState(r) = "pending" /\ ~Unknown(r) /\ OutboxState(r)' = "cancelled"
        /\ \A r \in ExceptionRows \ M : OutboxState(r)' = OutboxState(r)
        /\ \A r \in ExceptionRows : Unknown(r)' = Unknown(r) /\ handoffs'[r] = handoffs[r]
Effect == Unseen \/ OnlyOne \/ Withdraws

\* Each of these is a step of the outbox, or none.
LEMMA EffectIsOutboxStep ==
  ASSUME \A q \in ExceptionRows : handoffs[q] \in Nat, Effect
  PROVE  [OB!Next]_(OB!vars)
<1> DEFINE S == [q \in ExceptionRows |-> OutboxState(q)]
           U == {q \in ExceptionRows : \E p \in Passes : Accepted(p, q)}
           H == [q \in ExceptionRows |-> handoffs[q]]
<1>1. \A q \in ExceptionRows : (Unknown(q) <=> q \in U) /\ (Unknown(q)' <=> q \in U')
  BY DEF Unknown
<1>2. CASE Unseen
  <2>1. S' = S /\ H' = H
    BY <1>2 DEF Unseen, Same
  <2>2. U' = U
    BY <1>1, <1>2 DEF Unseen, Same
  <2>3. QED
    BY <2>1, <2>2 DEF OB!vars
<1>3. CASE OnlyOne
  <2>1. PICK r \in ExceptionRows :
          /\ \A q \in ExceptionRows \ {r} : Same(q)
          /\ Posted(r) \/ HandedOff(r) \/ OutcomeLost(r) \/ Settled(r)
    BY <1>3 DEF OnlyOne
  <2>2. S' = [S EXCEPT ![r] = OutboxState(r)'] /\ S[r] = OutboxState(r)
    BY <2>1 DEF Same
  <2>3. H' = [H EXCEPT ![r] = handoffs'[r]] /\ H[r] = handoffs[r]
    BY <2>1 DEF Same
  <2>4. \A q \in ExceptionRows \ {r} : q \in U' <=> q \in U
    BY <1>1, <2>1 DEF Same
  <2>5. /\ Unknown(r)' = Unknown(r) => U' = U
        /\ Unknown(r)' => U' = U \cup {r}
        /\ ~Unknown(r)' => U' = U \ {r}
    BY <1>1, <2>4
  <2>6. /\ OutboxState(r)' = OutboxState(r) => S' = S
        /\ handoffs'[r] = handoffs[r] => H' = H
        /\ handoffs'[r] = handoffs[r] + 1 => H' = [H EXCEPT ![r] = H[r] + 1]
    BY <2>2, <2>3
  <2> HIDE DEF S, U, H
  <2>7. OB!Post(r) \/ OB!HandOff(r) \/ OB!LoseOutcome(r) \/ OB!Settle(r)
    BY <1>1, <2>1, <2>2, <2>5, <2>6
       DEF OB!Post, OB!HandOff, OB!LoseOutcome, OB!Settle, S, U, H,
           Posted, HandedOff, OutcomeLost, Settled
  <2>8. QED
    BY <2>7 DEF OB!Next
<1>4. CASE Withdraws
  <2>1. PICK M \in SUBSET ExceptionRows :
          /\ \A r \in M : OutboxState(r) = "pending" /\ ~Unknown(r) /\ OutboxState(r)' = "cancelled"
          /\ \A r \in ExceptionRows \ M : OutboxState(r)' = OutboxState(r)
          /\ \A r \in ExceptionRows : Unknown(r)' = Unknown(r) /\ handoffs'[r] = handoffs[r]
    BY <1>4 DEF Withdraws
  <2>2. U' = U /\ H' = H /\ \A r \in M : r \notin U
    BY <1>1, <2>1
  <2>3. S' = [r \in ExceptionRows |-> IF r \in M THEN "cancelled" ELSE S[r]]
        /\ \A r \in M : S[r] = "pending"
    BY <2>1
  <2> HIDE DEF S, U, H
  <2>4. OB!Cancel(M)
    BY <2>2, <2>3 DEF OB!Cancel, S, U, H
  <2>5. QED
    BY <2>4 DEF OB!Next
<1>5. QED
  BY <1>2, <1>3, <1>4 DEF Effect

LEMMA EffectOfStep ==
  ASSUME PassLimit < Stale, IInv, [Next]_vars
  PROVE  Effect
<1> USE RowsAssumption
    DEF IInv, TypeInv, TypeOK, HeldInv, ExclusiveHold, Held, Accepted, ExceptionRows,
        tableVars, mailVars, passVars
<1>1. CASE Tick
  BY <1>1 DEF Tick, Effect, Unseen, Same, Unknown, OutboxState
<1>2. ASSUME NEW r \in Rows, QueueNotification(r) PROVE Effect
  <2>1. \A q \in ExceptionRows \ {r} : Same(q)
    BY <1>2 DEF QueueNotification, Same, Unknown, OutboxState
  <2>2. r \in ExceptionRows => Posted(r)
    BY <1>2 DEF QueueNotification, Posted, Unknown, OutboxState
  <2>3. QED
    BY <2>1, <2>2 DEF Effect, Unseen, OnlyOne
<1>3. ASSUME NEW r \in Rows, HandleBounce(r) PROVE Effect
  BY <1>3 DEF HandleBounce, MessageInv, Effect, Unseen, Same, Unknown, OutboxState
<1>4. CASE SupersedeReminders
  <2> DEFINE M == {r \in ChaseRows : status[r] = "queued"}
  <2>1. M \in SUBSET ExceptionRows
    OBVIOUS
  <2>2. /\ \A r \in M : OutboxState(r) = "pending" /\ OutboxState(r)' = "cancelled"
        /\ \A r \in ExceptionRows \ M : OutboxState(r)' = OutboxState(r)
    BY <1>4 DEF SupersedeReminders, Withdrawn, OutboxState
  <2>3. \A r \in M : ~Unknown(r)
    BY <2>1 DEF Unknown
  <2>4. \A r \in ExceptionRows : Unknown(r)' = Unknown(r) /\ handoffs'[r] = handoffs[r]
    BY <1>4 DEF SupersedeReminders, Unknown
  <2> HIDE DEF M
  <2>5. QED
    BY <2>1, <2>2, <2>3, <2>4 DEF Effect, Withdraws
<1>5. ASSUME NEW p \in Passes, StartPass(p) PROVE Effect
  BY <1>5 DEF StartPass, IsStale, Running, Effect, Unseen, Same, Unknown, OutboxState
<1>6. ASSUME NEW p \in Passes, Discover(p) PROVE Effect
  BY <1>6 DEF Discover, Effect, Unseen, Same, Unknown, OutboxState
<1>7. ASSUME NEW p \in Passes, NEW r \in Rows, Claim(p, r) PROVE Effect
  <2>1. \A q \in ExceptionRows : OutboxState(q)' = OutboxState(q) /\ handoffs'[q] = handoffs[q]
    BY <1>7 DEF Claim, Takes, OutboxState
  <2>2. \A q \in ExceptionRows, s \in Passes : Accepted(s, q)' = Accepted(s, q)
    BY <1>7 DEF Claim
  <2>3. QED
    BY <2>1, <2>2 DEF Effect, Unseen, Same, Unknown
<1>8. ASSUME NEW p \in Passes, NEW o \in Outcome, Send(p, o) PROVE Effect
  <2>0. PICK r \in Rows : r = hand[p]
    BY <1>8 DEF Send, HandInv
  <2>1. /\ pc[p] = "send" /\ r = hand[p] /\ UNCHANGED <<hand, status>>
        /\ pc' = [pc EXCEPT ![p] = "record"] /\ outcome' = [outcome EXCEPT ![p] = o]
        /\ IF o = "failed" THEN UNCHANGED handoffs
                           ELSE handoffs' = [handoffs EXCEPT ![r] = @ + 1]
    BY <1>8, <2>0 DEF Send
  <2>2. \A q \in ExceptionRows \ {r} : Same(q)
    BY <2>1 DEF Same, Unknown, OutboxState
  <2>3. r \in ExceptionRows /\ o # "failed" => HandedOff(r)
    BY <2>1 DEF HandedOff, Unknown, OutboxState
  <2>4. r \in ExceptionRows /\ o = "failed" => Same(r)
    BY <2>1 DEF Same, Unknown, OutboxState
  <2>5. QED
    BY <2>2, <2>3, <2>4 DEF Effect, Unseen, OnlyOne
<1>9. ASSUME NEW p \in Passes, Record(p) PROVE Effect
  <2>0. PICK r \in Rows : r = hand[p]
    BY <1>9 DEF Record, Verdict, HandInv
  <2>1. /\ pc[p] = "record" /\ r = hand[p] /\ UNCHANGED handoffs
        /\ status' = [status EXCEPT ![r] = IF outcome[p] = "ok" THEN "sent" ELSE "failed"]
        /\ pc' = [pc EXCEPT ![p] = "claim"] /\ hand' = [hand EXCEPT ![p] = NoRow]
        /\ outcome' = [outcome EXCEPT ![p] = "ok"]
    BY <1>9, <2>0 DEF Record, Verdict
  <2>2. \A q \in ExceptionRows \ {r} : Same(q)
    BY <2>1 DEF Same, Unknown, OutboxState
  <2>3. ASSUME r \in ExceptionRows PROVE Settled(r)
    <3>1. OutboxState(r) = "pending" /\ OutboxState(r)' = "settled"
      BY <2>1, <2>3 DEF OutboxState
    <3>2. ASSUME NEW q \in Passes PROVE ~Accepted(q, r)'
      BY <2>1, <2>3
    <3>3. QED
      BY <2>1, <3>1, <3>2 DEF Settled, Unknown
  <2>4. QED
    BY <2>2, <2>3 DEF Effect, Unseen, OnlyOne
<1>10. ASSUME NEW p \in Passes, EndPass(p) PROVE Effect
  BY <1>10 DEF EndPass, Reset, Effect, Unseen, Same, Unknown, OutboxState
<1>11. ASSUME NEW p \in Passes, CrashPass(p) PROVE Effect
  <2>0. PICK r \in Rows \cup {NoRow} : r = hand[p]
    OBVIOUS
  <2>1. /\ r = hand[p] /\ UNCHANGED <<status, handoffs>>
        /\ pc' = [pc EXCEPT ![p] = "idle"] /\ hand' = [hand EXCEPT ![p] = NoRow]
        /\ outcome' = [outcome EXCEPT ![p] = "ok"]
    BY <1>11, <2>0 DEF CrashPass, Reset
  <2>2. \A q \in ExceptionRows : ~Accepted(p, q) => Same(q)
    BY <2>1 DEF Same, Unknown, OutboxState
  <2>3. ASSUME r \in ExceptionRows, Accepted(p, r) PROVE OutcomeLost(r)
    <3>1. OutboxState(r)' = OutboxState(r) /\ Unknown(r)
      BY <2>1, <2>3 DEF OutboxState, Unknown
    <3>2. ASSUME NEW q \in Passes PROVE ~Accepted(q, r)'
      BY <2>1, <2>3
    <3>3. QED
      BY <2>1, <3>1, <3>2 DEF OutcomeLost, Unknown
  <2>4. \A q \in ExceptionRows : Accepted(p, q) => q = r
    BY <2>1
  <2>5. CASE \E q \in ExceptionRows : Accepted(p, q)
    BY <2>2, <2>3, <2>4, <2>5 DEF Effect, OnlyOne
  <2>6. CASE \A q \in ExceptionRows : ~Accepted(p, q)
    BY <2>2, <2>6 DEF Effect, Unseen
  <2>7. QED
    BY <2>5, <2>6
<1>12. CASE ReadDigest
  BY <1>12 DEF ReadDigest, Effect, Unseen, Same, Unknown, OutboxState
<1>13. ASSUME NEW o \in Outcome, SendDigest(o) PROVE Effect
  BY <1>13 DEF SendDigest, Effect, Unseen, Same, Unknown, OutboxState
<1>14. ASSUME NEW r \in DigestRows, RecordDigestItem(r) PROVE Effect
  BY <1>14 DEF RecordDigestItem, Verdict, Effect, Unseen, Same, Unknown, OutboxState
<1>15. CASE CrashDigest
  BY <1>15 DEF CrashDigest, Effect, Unseen, Same, Unknown, OutboxState
<1>16. CASE UNCHANGED vars
  BY <1>16 DEF vars, Effect, Unseen, Same, Unknown, OutboxState
<1>17. ASSUME NEW r \in Rows, ForgetKey(r) PROVE Effect
  BY <1>17 DEF ForgetKey, Effect, Unseen, Same, Unknown, OutboxState
<1>18. QED
  BY <1>1, <1>2, <1>3, <1>4, <1>5, <1>6, <1>7, <1>8, <1>9, <1>10, <1>11,
     <1>12, <1>13, <1>14, <1>15, <1>16, <1>17 DEF Next, PassStep, DigestStep

LEMMA OutboxStep ==
  ASSUME PassLimit < Stale, IInv, [Next]_vars
  PROVE  [OB!Next]_(OB!vars)
<1>1. \A q \in ExceptionRows : handoffs[q] \in Nat
  BY DEF IInv, TypeInv, TypeOK, ExceptionRows
<1>2. QED
  BY <1>1, EffectOfStep, EffectIsOutboxStep

\* The worker, its digest builder, the renewals and the webhook do to an exception
\* row only what the outbox allows (worker.ts:1-24), for any number of rows,
\* passes and crashes, as long as no pass outlives the stale window.
THEOREM WorkerImplementsOutbox == PassLimit < Stale => (Spec => ImplementsOutbox)
<1> SUFFICES ASSUME PassLimit < Stale PROVE Spec => ImplementsOutbox
  OBVIOUS
<1>1. Init => IInv /\ OB!Init
  BY TypeInvInit, HoldInit, OutboxInit DEF IInv
<1>2. IInv /\ [Next]_vars => IInv'
  BY TypeInvStep, HoldStep DEF IInv
<1>3. IInv /\ [Next]_vars => [OB!Next]_(OB!vars)
  BY OutboxStep
<1>4. QED
  BY <1>1, <1>2, <1>3, PTL DEF Spec, ImplementsOutbox, OB!Spec
=============================================================================
