------------------------- MODULE CredentialsProofs -------------------------
(***************************************************************************)
(* For every number of requests, users and links: the login throttle lets  *)
(* an email collect no more failures than its limit and the requests in    *)
(* progress allow, alone and inside the tenant's handlers; a link that     *)
(* still works was issued for the password its user has now; an active     *)
(* admin stays, but for the races named; and the first admin of a tenant   *)
(* that a payment activated is invited.                                    *)
(***************************************************************************)
EXTENDS Credentials, FiniteSetTheorems, TLAPS

-----------------------------------------------------------------------------
(* The throttle *)

LimiterInv == LimiterTypeOK /\ GuessesBounded

LEMMA Limits ==
  ASSUME LimiterAssumption
  PROVE  MaxPerEmail \in Nat /\ MaxPerEmail >= 1 /\ Cardinality(Calls) \in Nat
BY FS_CardinalityType DEF LimiterAssumption

LEMMA TryingFinite ==
  ASSUME LimiterAssumption, NEW e
  PROVE  /\ IsFiniteSet(Trying(e))
         /\ Cardinality(Trying(e)) \in Nat
         /\ Cardinality(Trying(e)) <= Cardinality(Calls)
<1>1. Trying(e) \subseteq Calls
  BY DEF Trying
<1>2. QED
  BY <1>1, FS_Subset, FS_CardinalityType DEF LimiterAssumption

\* Failures do not grow and no request joins those in progress.
LEMMA FewerTrying ==
  ASSUME LimiterAssumption, LimiterTypeOK, LimiterTypeOK', GuessesBounded,
         \A e \in Emails : emailFails'[e] <= emailFails[e] /\ Trying(e)' \subseteq Trying(e)
  PROVE  GuessesBounded'
<1> SUFFICES ASSUME NEW e \in Emails
             PROVE  emailFails'[e] + Cardinality(Trying(e)') <= MaxPerEmail - 1 + Cardinality(Calls)
  BY DEF GuessesBounded
<1>1. Cardinality(Trying(e)') <= Cardinality(Trying(e)) /\ Cardinality(Trying(e)') \in Nat
  BY TryingFinite, FS_Subset, FS_CardinalityType
<1>2. emailFails[e] \in Nat /\ emailFails'[e] \in Nat
  BY DEF LimiterTypeOK
<1>3. emailFails[e] + Cardinality(Trying(e)) <= MaxPerEmail - 1 + Cardinality(Calls)
  BY DEF GuessesBounded
<1>4. Cardinality(Trying(e)) \in Nat
  BY TryingFinite
<1>5. QED
  BY <1>1, <1>2, <1>3, <1>4, Limits

LEMMA LimiterStep ==
  ASSUME LimiterAssumption, LimiterInv, [LimiterNext]_limiterVars
  PROVE  LimiterInv'
<1> USE DEF LimiterInv
<1>0. LimiterTypeOK'
  <2>1. ASSUME NEW c \in Calls, NEW e \in Emails, CheckEmail(c, e) PROVE LimiterTypeOK'
    BY <2>1 DEF CheckEmail, LimiterTypeOK, NoAttempt
  <2>2. ASSUME NEW c \in Calls, CheckIp(c) PROVE LimiterTypeOK'
    BY <2>2 DEF CheckIp, LimiterTypeOK, NoAttempt
  <2>3. ASSUME NEW c \in Calls, RecordFailure(c) PROVE LimiterTypeOK'
    BY <2>3 DEF RecordFailure, LimiterTypeOK, NoAttempt
  <2>4. ASSUME NEW c \in Calls, ClearEmail(c) PROVE LimiterTypeOK'
    BY <2>4 DEF ClearEmail, LimiterTypeOK, NoAttempt
  <2>5. ASSUME NEW e \in Emails, Age(e) PROVE LimiterTypeOK'
    BY <2>5 DEF Age, LimiterTypeOK
  <2>6. CASE DropAttempts
    BY <2>6 DEF DropAttempts, LimiterTypeOK
  <2>7. CASE UNCHANGED limiterVars
    BY <2>7 DEF limiterVars, LimiterTypeOK
  <2>8. QED
    BY <2>1, <2>2, <2>3, <2>4, <2>5, <2>6, <2>7 DEF LimiterNext
<1>1. ASSUME NEW c \in Calls, NEW e \in Emails, CheckEmail(c, e) PROVE GuessesBounded'
  <2> SUFFICES ASSUME NEW x \in Emails
               PROVE  emailFails'[x] + Cardinality(Trying(x)') <= MaxPerEmail - 1 + Cardinality(Calls)
    BY DEF GuessesBounded
  <2>1. emailFails' = emailFails /\ emailFails[x] \in Nat
    BY <1>1 DEF CheckEmail, LimiterTypeOK
  <2>2. CASE x = e
    <3>1. Cardinality(Trying(x)') \in Nat /\ Cardinality(Trying(x)') <= Cardinality(Calls)
      <4>1. Trying(x)' \subseteq Calls
        BY DEF Trying
      <4>2. QED
        BY <4>1, FS_Subset, FS_CardinalityType DEF LimiterAssumption
    <3>2. emailFails[x] < MaxPerEmail
      BY <1>1, <2>2 DEF CheckEmail
    <3>3. QED
      BY <2>1, <3>1, <3>2, Limits
  <2>3. CASE x # e
    <3>1. Trying(x)' \subseteq Trying(x)
      BY <1>1, <2>3 DEF CheckEmail, Trying, LimiterTypeOK
    <3>2. Cardinality(Trying(x)') <= Cardinality(Trying(x)) /\ Cardinality(Trying(x)') \in Nat
      BY <3>1, TryingFinite, FS_Subset, FS_CardinalityType
    <3>3. emailFails[x] + Cardinality(Trying(x)) <= MaxPerEmail - 1 + Cardinality(Calls)
      BY DEF GuessesBounded
    <3>4. Cardinality(Trying(x)) \in Nat
      BY TryingFinite
    <3>5. QED
      BY <2>1, <3>2, <3>3, <3>4, Limits
  <2>4. QED
    BY <2>2, <2>3
<1>2. ASSUME NEW c \in Calls, CheckIp(c) PROVE GuessesBounded'
  <2>1. \A e \in Emails : emailFails'[e] <= emailFails[e] /\ Trying(e)' \subseteq Trying(e)
    BY <1>2 DEF CheckIp, Trying, LimiterTypeOK, NoAttempt, LimiterAssumption
  <2>2. QED
    BY <1>0, <2>1, FewerTrying
<1>3. ASSUME NEW c \in Calls, RecordFailure(c) PROVE GuessesBounded'
  <2>0. PICK x \in Emails : x = attempt[c].email
    BY <1>3 DEF RecordFailure, LimiterTypeOK, NoAttempt
  <2>1. attempt' = [attempt EXCEPT ![c] = NoAttempt]
    BY <1>3 DEF RecordFailure
  <2>2. /\ emailFails'[x] = emailFails[x] + 1 /\ emailFails[x] \in Nat
        /\ \A e \in Emails \ {x} : emailFails'[e] = emailFails[e] /\ emailFails[e] \in Nat
    BY <1>3, <2>0 DEF RecordFailure, LimiterTypeOK
  <2>3. /\ attempt'[c].email \notin Emails
        /\ \A k \in Calls \ {c} : attempt'[k] = attempt[k]
    BY <2>1 DEF LimiterTypeOK, NoAttempt, LimiterAssumption
  <2>4. Trying(x)' = Trying(x) \ {c} /\ c \in Trying(x)
    BY <2>0, <2>3 DEF Trying
  <2>5. \A e \in Emails \ {x} : Trying(e)' \subseteq Trying(e)
    BY <2>3 DEF Trying
  <2>6. /\ Cardinality(Trying(x)') = Cardinality(Trying(x)) - 1
        /\ Cardinality(Trying(x)) \in Nat
    <3>1. IsFiniteSet(Trying(x)) /\ Cardinality(Trying(x)) \in Nat
      BY TryingFinite
    <3>2. Cardinality(Trying(x) \ {c}) = Cardinality(Trying(x)) - 1
      BY <2>4, <3>1, FS_RemoveElement
    <3>3. QED
      BY <2>4, <3>1, <3>2
  <2>7. emailFails'[x] + Cardinality(Trying(x)') <= MaxPerEmail - 1 + Cardinality(Calls)
    <3>1. emailFails[x] + Cardinality(Trying(x)) <= MaxPerEmail - 1 + Cardinality(Calls)
      BY DEF GuessesBounded
    <3>2. QED
      BY <2>2, <2>6, <3>1, Limits
  <2>8. ASSUME NEW e \in Emails, e # x
        PROVE  emailFails'[e] + Cardinality(Trying(e)') <= MaxPerEmail - 1 + Cardinality(Calls)
    <3>1. Cardinality(Trying(e)') <= Cardinality(Trying(e)) /\ Cardinality(Trying(e)') \in Nat
      BY <2>5, <2>8, TryingFinite, FS_Subset, FS_CardinalityType
    <3>2. Cardinality(Trying(e)) \in Nat
      BY TryingFinite
    <3>3. emailFails[e] + Cardinality(Trying(e)) <= MaxPerEmail - 1 + Cardinality(Calls)
      BY DEF GuessesBounded
    <3>4. QED
      BY <2>2, <2>8, <3>1, <3>2, <3>3, Limits
  <2>9. QED
    BY <2>7, <2>8 DEF GuessesBounded
<1>4. ASSUME NEW c \in Calls, ClearEmail(c) PROVE GuessesBounded'
  <2>1. \A e \in Emails : emailFails'[e] <= emailFails[e]
    BY <1>4 DEF ClearEmail, LimiterTypeOK
  <2>2. \A e \in Emails : Trying(e)' \subseteq Trying(e)
    BY <1>4 DEF ClearEmail, Trying, LimiterTypeOK, NoAttempt, LimiterAssumption
  <2>3. QED
    BY <1>0, <2>1, <2>2, FewerTrying
<1>5. ASSUME NEW e \in Emails, Age(e) PROVE GuessesBounded'
  <2>1. \A x \in Emails : emailFails'[x] <= emailFails[x]
    BY <1>5 DEF Age, LimiterTypeOK
  <2>2. \A x \in Emails : Trying(x)' \subseteq Trying(x)
    BY <1>5 DEF Age, Trying
  <2>3. QED
    BY <1>0, <2>1, <2>2, FewerTrying
<1>6. CASE DropAttempts
  <2>1. \A x \in Emails : emailFails'[x] <= emailFails[x] /\ Trying(x)' \subseteq Trying(x)
    BY <1>6 DEF DropAttempts, Trying, LimiterTypeOK, NoAttempt, LimiterAssumption
  <2>2. QED
    BY <1>0, <2>1, FewerTrying
<1>7. CASE UNCHANGED limiterVars
  <2>1. \A x \in Emails : emailFails'[x] <= emailFails[x] /\ Trying(x)' \subseteq Trying(x)
    BY <1>7 DEF limiterVars, Trying, LimiterTypeOK
  <2>2. QED
    BY <1>0, <2>1, FewerTrying
<1>8. QED
  BY <1>0, <1>1, <1>2, <1>3, <1>4, <1>5, <1>6, <1>7 DEF LimiterNext

LEMMA LimiterStart ==
  ASSUME LimiterAssumption, LimiterInit
  PROVE  LimiterInv
<1>1. LimiterTypeOK
  BY DEF LimiterInit, LimiterTypeOK
<1>2. \A e \in Emails : emailFails[e] = 0 /\ Trying(e) = {}
  BY DEF LimiterInit, Trying, NoAttempt, LimiterAssumption
<1>3. \A e \in Emails : emailFails[e] + Cardinality(Trying(e)) = 0
  BY <1>2, FS_EmptySet
<1>4. QED
  BY <1>1, <1>3, Limits DEF LimiterInv, GuessesBounded

\* The throttle by itself: an email never has more failures in the window than the
\* limit less one, and one for each request that may overlap (rate-limit.ts:79-104).
THEOREM LimiterBounds == LimiterSpec => []GuessesBounded
<1>1. LimiterInit => LimiterInv
  BY LimiterStart, LimiterAssumption
<1>2. LimiterInv /\ [LimiterNext]_limiterVars => LimiterInv'
  BY LimiterStep, LimiterAssumption
<1>3. LimiterInv => GuessesBounded
  BY DEF LimiterInv
<1>4. QED
  BY <1>1, <1>2, <1>3, PTL DEF LimiterSpec

-----------------------------------------------------------------------------
(* The tenant's handlers *)

\* The handlers that will issue a link for the user they hold.
Issuing == {"insert", "issue"}

\* Links are only issued for users who are there, and users stay.
UsersInv ==
    /\ Exists(First)
    /\ \A i \in DOMAIN links : Exists(links[i].user)
    /\ \A c \in Calls : call[c].pc \in Issuing => Exists(call[c].user)

CredInv == TypeOK /\ GuessesBounded /\ UsersInv /\ LiveLinksPostdatePassword

UsersStay == \A u \in Users : Exists(u) => Exists(u)'

LEMMA LinkFields ==
  ASSUME TypeOK
  PROVE  /\ DOMAIN links = 1..Len(links) /\ Len(links) \in Nat
         /\ \A i \in DOMAIN links : links[i] \in Link /\ links[i].user \in Users
<1>1. links \in Seq(Link)
  BY DEF TypeOK
<1>2. \A i \in DOMAIN links : links[i] \in Link
  BY <1>1
<1>3. QED
  BY <1>1, <1>2 DEF Link

\* A step that leaves the passwords and the links alone.
LEMMA LinksAside ==
  ASSUME TypeOK, UsersInv, LiveLinksPostdatePassword, CredentialsAssumption,
         UNCHANGED <<passwords, links>>, UsersStay,
         \A c \in Calls : call'[c].pc \in Issuing =>
            \/ call'[c] = call[c]
            \/ call'[c].user \in Users /\ Exists(call'[c].user)
  PROVE  UsersInv' /\ LiveLinksPostdatePassword'
<1>1. UsersInv'
  <2>1. \A i \in DOMAIN links : links[i].user \in Users
    BY LinkFields
  <2>2. \A c \in Calls : call[c].user \in Users
    BY DEF TypeOK, CallState
  <2>3. QED
    BY <2>1, <2>2 DEF UsersInv, UsersStay, CredentialsAssumption
<1>2. LiveLinksPostdatePassword'
  BY DEF LiveLinksPostdatePassword, SetsPassword, Live
<1>3. QED
  BY <1>1, <1>2

\* A step that issues one link for a user who is there.
LEMMA LinkIssued ==
  ASSUME TypeOK, UsersInv, LiveLinksPostdatePassword, CredentialsAssumption,
         NEW u \in Users, Exists(u), NEW purpose \in Purposes, Issue(u, purpose),
         UNCHANGED <<status, passwords>>,
         \A c \in Calls : call'[c].pc \in Issuing => call'[c] = call[c]
  PROVE  links' \in Seq(Link) /\ UsersInv' /\ LiveLinksPostdatePassword'
<1>1. NewLink(u, purpose) \in Link /\ NewLink(u, purpose).user = u
      /\ NewLink(u, purpose).password = passwords[u]
  BY DEF NewLink, Link, TypeOK
<1>2. /\ links' \in Seq(Link) /\ DOMAIN links' = 1..(Len(links) + 1)
      /\ \A i \in DOMAIN links : links'[i] = links[i]
      /\ links'[Len(links) + 1] = NewLink(u, purpose)
      /\ DOMAIN links = 1..Len(links) /\ Len(links) \in Nat
  BY <1>1 DEF Issue, TypeOK
<1>3. UsersInv'
  BY <1>1, <1>2 DEF UsersInv, Exists
<1>4. LiveLinksPostdatePassword'
  BY <1>1, <1>2 DEF LiveLinksPostdatePassword, SetsPassword, Live
<1>5. QED
  BY <1>2, <1>3, <1>4

\* A step that rewrites links in place: none comes to life, none changes hands.
LEMMA LinksRewritten ==
  ASSUME TypeOK, UsersInv, LiveLinksPostdatePassword, CredentialsAssumption,
         links' \in [DOMAIN links -> Link],
         \A i \in DOMAIN links :
            /\ links'[i].user = links[i].user /\ links'[i].purpose = links[i].purpose
            /\ links'[i].password = links[i].password
            /\ SetsPassword(i) /\ links'[i].state = "live" =>
                 Live(i) /\ passwords'[links[i].user] = passwords[links[i].user],
         UsersStay,
         \A c \in Calls : call'[c].pc \in Issuing => call'[c] = call[c]
  PROVE  links' \in Seq(Link) /\ UsersInv' /\ LiveLinksPostdatePassword'
<1>1. DOMAIN links = 1..Len(links) /\ Len(links) \in Nat /\ DOMAIN links' = DOMAIN links
  BY LinkFields
<1>2. links' \in Seq(Link)
  BY <1>1
<1>3. \A i \in DOMAIN links : links[i].user \in Users
  BY LinkFields
<1>4. \A c \in Calls : call[c].user \in Users
  BY DEF TypeOK, CallState
<1>5. UsersInv'
  BY <1>1, <1>3, <1>4 DEF UsersInv, UsersStay, CredentialsAssumption
<1>6. LiveLinksPostdatePassword'
  BY <1>1 DEF LiveLinksPostdatePassword, SetsPassword, Live
<1>7. QED
  BY <1>2, <1>5, <1>6

\* Each handler uses the throttle as it is, or leaves it alone.
LEMMA ThrottleStep ==
  ASSUME [Next]_vars
  PROVE  [LimiterNext]_limiterVars
<1> USE DEF Users
<1>1. ASSUME NEW c \in Calls, NEW u \in Users, StartAttempt(c, u)
      PROVE  [LimiterNext]_limiterVars
  BY <1>1 DEF StartAttempt, LimiterNext
<1>2. ASSUME NEW c \in Calls, NEW u \in Users, NEW r \in {"admin", "manager"},
             NEW w \in BOOLEAN, CreateUser(c, u, r, w)
      PROVE  [LimiterNext]_limiterVars
  BY <1>2 DEF CreateUser
<1>3. ASSUME NEW c \in Calls, NEW u \in Users, NEW to \in Patched, StartPatch(c, u, to)
      PROVE  [LimiterNext]_limiterVars
  BY <1>3 DEF StartPatch
<1>4. ASSUME NEW c \in Calls, NEW u \in Users, InviteUser(c, u)
      PROVE  [LimiterNext]_limiterVars
  BY <1>4 DEF InviteUser
<1>5. ASSUME NEW c \in Calls, NEW u \in Users, StartSendInvite(c, u)
      PROVE  [LimiterNext]_limiterVars
  BY <1>5 DEF StartSendInvite
<1>6. ASSUME NEW c \in Calls, AttemptIp(c) PROVE [LimiterNext]_limiterVars
  BY <1>6 DEF AttemptIp, LimiterNext
<1>7. ASSUME NEW c \in Calls, LoginFails(c) PROVE [LimiterNext]_limiterVars
  BY <1>7 DEF LoginFails, LimiterNext
<1>8. ASSUME NEW c \in Calls, LoginSucceeds(c) PROVE [LimiterNext]_limiterVars
  BY <1>8 DEF LoginSucceeds, LimiterNext
<1>9. ASSUME NEW c \in Calls, ResetCounted(c) PROVE [LimiterNext]_limiterVars
  BY <1>9 DEF ResetCounted, LimiterNext
<1>10. ASSUME NEW c \in Calls, Resolve(c) PROVE [LimiterNext]_limiterVars
  BY <1>10 DEF Resolve
<1>11. ASSUME NEW c \in Calls, InsertReset(c) PROVE [LimiterNext]_limiterVars
  BY <1>11 DEF InsertReset
<1>12. ASSUME NEW c \in Calls, NEW i \in 1..MaxLinks, StartConfirm(c, i)
       PROVE  [LimiterNext]_limiterVars
  BY <1>12 DEF StartConfirm
<1>13. ASSUME NEW c \in Calls, NEW i \in 1..MaxLinks, StartPay(c, i)
       PROVE  [LimiterNext]_limiterVars
  BY <1>13 DEF StartPay
<1>14. ASSUME NEW c \in Calls, Confirm(c) PROVE [LimiterNext]_limiterVars
  BY <1>14 DEF Confirm
<1>15. ASSUME NEW c \in Calls, WritePatch(c) PROVE [LimiterNext]_limiterVars
  BY <1>15 DEF WritePatch
<1>16. ASSUME NEW c \in Calls, IssueInvite(c) PROVE [LimiterNext]_limiterVars
  BY <1>16 DEF IssueInvite
<1>17. ASSUME NEW c \in Calls, SendLink(c) PROVE [LimiterNext]_limiterVars
  BY <1>17 DEF SendLink
<1>18. ASSUME NEW c \in Calls, ResendBillingLink(c) PROVE [LimiterNext]_limiterVars
  BY <1>18 DEF ResendBillingLink
<1>19. ASSUME NEW c \in Calls, Pay(c) PROVE [LimiterNext]_limiterVars
  BY <1>19 DEF Pay
<1>20. ASSUME NEW c \in Calls, NEW to \in Lifecycles, StartLifecycle(c, to)
       PROVE  [LimiterNext]_limiterVars
  BY <1>20 DEF StartLifecycle
<1>21. ASSUME NEW c \in Calls, WriteLifecycle(c) PROVE [LimiterNext]_limiterVars
  BY <1>21 DEF WriteLifecycle
<1>22. ASSUME NEW d \in Deliveries, HookRead(d) PROVE [LimiterNext]_limiterVars
  BY <1>22 DEF HookRead
<1>23. ASSUME NEW d \in Deliveries, HookTransition(d) PROVE [LimiterNext]_limiterVars
  BY <1>23 DEF HookTransition
<1>24. ASSUME NEW d \in Deliveries, HookActivate(d) PROVE [LimiterNext]_limiterVars
  BY <1>24 DEF HookActivate
<1>25. ASSUME NEW d \in Deliveries, HookIssue(d) PROVE [LimiterNext]_limiterVars
  BY <1>25 DEF HookIssue
<1>26. ASSUME NEW d \in Deliveries, HookSend(d) PROVE [LimiterNext]_limiterVars
  BY <1>26 DEF HookSend
<1>27. ASSUME NEW i \in 1..MaxLinks, Expire(i) PROVE [LimiterNext]_limiterVars
  BY <1>27 DEF Expire
<1>28. ASSUME NEW u \in Users, WindowMoves(u) PROVE [LimiterNext]_limiterVars
  BY <1>28 DEF WindowMoves, LimiterNext
<1>29. CASE Crash
  BY <1>29 DEF Crash, LimiterNext
<1>30. CASE UNCHANGED vars
  BY <1>30 DEF vars
<1>31. QED
  BY <1>1, <1>2, <1>3, <1>4, <1>5, <1>6, <1>7, <1>8, <1>9, <1>10, <1>11, <1>12, <1>13,
     <1>14, <1>15, <1>16, <1>17, <1>18, <1>19, <1>20, <1>21, <1>22, <1>23, <1>24, <1>25,
     <1>26, <1>27, <1>28, <1>29, <1>30 DEF Next, Request, Webhook

LEMMA IdleType ==
  ASSUME CredentialsAssumption
  PROVE  Idle \in CallState
BY DEF Idle, CallState, Lifecycles, Steps, CredentialsAssumption

\* A handler's state stays one when the handler begins, moves on or ends.
LEMMA CallTypes ==
  ASSUME CredentialsAssumption, TypeOK, NEW c \in Calls
  PROVE  /\ \A pc \in Steps \ {"write", "lifecycle"}, u \in Users :
              /\ At(pc, u) \in CallState
              /\ \A i \in 1..MaxLinks : [At(pc, u) EXCEPT !.link = i] \in CallState
         /\ \A u \in Users, to \in Patched :
              [At("write", u) EXCEPT !.to = to] \in CallState
         /\ \A u \in Users, to \in Lifecycles : [At("lifecycle", u) EXCEPT !.to = to] \in CallState
         /\ Idle \in CallState
         /\ \A to \in CallState :
              Begin(c, to) =>
                call' \in [Calls -> CallState] /\ begun' \in 0..MaxCalls /\ faults' = faults
         /\ \A pc \in Steps \ {"write", "lifecycle"} : Goto(c, pc) => call' \in [Calls -> CallState]
         /\ \A i \in 1..MaxLinks :
              call' = [call EXCEPT ![c].pc = "send", ![c].link = i] => call' \in [Calls -> CallState]
         /\ End(c) => call' \in [Calls -> CallState]
<1>1. Idle \in CallState
  BY IdleType
<1>2. ASSUME NEW pc \in Steps \ {"write", "lifecycle"}, NEW u \in Users
      PROVE  /\ At(pc, u) \in CallState
             /\ \A i \in 1..MaxLinks : [At(pc, u) EXCEPT !.link = i] \in CallState
  BY <1>1 DEF At, Idle, CallState, Lifecycles, CredentialsAssumption
<1>3. ASSUME NEW u \in Users, NEW to \in Patched
      PROVE  [At("write", u) EXCEPT !.to = to] \in CallState
  BY <1>1 DEF At, Idle, CallState, Steps, Lifecycles, CredentialsAssumption, Patched
<1>4. ASSUME NEW u \in Users, NEW to \in Lifecycles
      PROVE  [At("lifecycle", u) EXCEPT !.to = to] \in CallState
  BY <1>1 DEF At, Idle, CallState, Steps, CredentialsAssumption
<1>5. ASSUME NEW to \in CallState, Begin(c, to)
      PROVE  call' \in [Calls -> CallState] /\ begun' \in 0..MaxCalls /\ faults' = faults
  BY <1>5 DEF Begin, TypeOK, CredentialsAssumption
<1>6. ASSUME NEW pc \in Steps \ {"write", "lifecycle"}, Goto(c, pc) PROVE call' \in [Calls -> CallState]
  <2>1. call[c] \in CallState
    BY DEF TypeOK
  <2>2. [call[c] EXCEPT !.pc = pc] \in CallState
    BY <1>6, <2>1 DEF CallState
  <2>3. call' = [call EXCEPT ![c] = [call[c] EXCEPT !.pc = pc]]
    BY <1>6 DEF Goto
  <2>4. QED
    BY <2>2, <2>3 DEF TypeOK
<1>7. ASSUME End(c) PROVE call' \in [Calls -> CallState]
  BY <1>1, <1>7 DEF End, TypeOK
<1>8. ASSUME NEW i \in 1..MaxLinks, call' = [call EXCEPT ![c].pc = "send", ![c].link = i]
      PROVE  call' \in [Calls -> CallState]
  <2>1. call[c] \in CallState /\ call \in [Calls -> CallState]
    BY DEF TypeOK
  <2>2. [call[c] EXCEPT !.pc = "send", !.link = i] \in CallState
    BY <2>1 DEF CallState, Steps
  <2>3. call' = [call EXCEPT ![c] = [call[c] EXCEPT !.pc = "send", !.link = i]]
    BY <1>8, <2>1
  <2>4. QED
    BY <2>1, <2>2, <2>3
<1>9. QED
  BY <1>1, <1>2, <1>3, <1>4, <1>5, <1>6, <1>7, <1>8

LEMMA NextLinkType ==
  ASSUME CredentialsAssumption, TypeOK, NEW u, NEW purpose, Issue(u, purpose)
  PROVE  NextLink \in 1..MaxLinks
<1>1. Len(links) \in Nat /\ Len(links) < MaxLinks
  BY LinkFields DEF Issue
<1>2. QED
  BY <1>1 DEF NextLink, CredentialsAssumption

\* The types, given those of the throttle and of the links.
LEMMA TypeStep ==
  ASSUME LimiterAssumption, CredentialsAssumption, TypeOK, [Next]_vars,
         LimiterTypeOK', links' \in Seq(Link)
  PROVE  TypeOK'
<1> USE DEF tenantVars, userVars, bounds
<1>1. ASSUME NEW c \in Calls, NEW u \in Users, StartAttempt(c, u) PROVE TypeOK'
  <2>1. call' \in [Calls -> CallState] /\ begun' \in 0..MaxCalls /\ faults' = faults
    BY <1>1, CallTypes DEF StartAttempt, Steps
  <2>2. QED
    BY <1>1, <2>1 DEF TypeOK, StartAttempt, CheckEmail
<1>2. ASSUME NEW c \in Calls, NEW u \in Users, NEW r \in {"admin", "manager"},
             NEW w \in BOOLEAN, CreateUser(c, u, r, w)
      PROVE  TypeOK'
  <2>1. call' \in [Calls -> CallState] /\ begun' \in 0..MaxCalls /\ faults' = faults
    BY <1>2, CallTypes DEF CreateUser, Steps
  <2>2. QED
    BY <1>2, <2>1 DEF TypeOK, CreateUser
<1>3. ASSUME NEW c \in Calls, NEW u \in Users, NEW to \in Patched, StartPatch(c, u, to)
      PROVE  TypeOK'
  <2>1. call' \in [Calls -> CallState] /\ begun' \in 0..MaxCalls /\ faults' = faults
    BY <1>3, CallTypes DEF StartPatch, Steps, Lifecycles, Patched
  <2>2. QED
    BY <1>3, <2>1 DEF TypeOK, StartPatch
<1>4. ASSUME NEW c \in Calls, NEW u \in Users, InviteUser(c, u) PROVE TypeOK'
  <2>1. call' \in [Calls -> CallState] /\ begun' \in 0..MaxCalls /\ faults' = faults
    BY <1>4, CallTypes DEF InviteUser, Steps
  <2>2. QED
    BY <1>4, <2>1 DEF TypeOK, InviteUser, SetStatus, End
<1>5. ASSUME NEW c \in Calls, NEW u \in Users, StartSendInvite(c, u) PROVE TypeOK'
  <2>1. call' \in [Calls -> CallState] /\ begun' \in 0..MaxCalls /\ faults' = faults
    BY <1>5, CallTypes DEF StartSendInvite, Steps
  <2>2. QED
    BY <1>5, <2>1 DEF TypeOK, StartSendInvite
<1>6. ASSUME NEW c \in Calls, AttemptIp(c) PROVE TypeOK'
  BY <1>6 DEF TypeOK, AttemptIp
<1>7. ASSUME NEW c \in Calls, LoginFails(c) PROVE TypeOK'
  BY <1>7 DEF TypeOK, LoginFails
<1>8. ASSUME NEW c \in Calls, LoginSucceeds(c) PROVE TypeOK'
  BY <1>8 DEF TypeOK, LoginSucceeds
<1>9. ASSUME NEW c \in Calls, ResetCounted(c) PROVE TypeOK'
  <2>1. call' \in [Calls -> CallState]
    <3>1. attempt[c].email \in Users
      BY <1>9 DEF ResetCounted, RecordFailure, TypeOK, LimiterTypeOK, NoAttempt, Users
    <3>2. At("resolve", attempt[c].email) \in CallState
      BY <3>1, CallTypes DEF Steps
    <3>3. QED
      BY <1>9, <3>2 DEF ResetCounted, TypeOK
  <2>2. QED
    BY <1>9, <2>1 DEF TypeOK, ResetCounted
<1>10. ASSUME NEW c \in Calls, Resolve(c) PROVE TypeOK'
  <2>1. call' \in [Calls -> CallState]
    BY <1>10, CallTypes DEF Resolve, Steps
  <2>2. QED
    BY <1>10, <2>1 DEF TypeOK, Resolve
<1>11. ASSUME NEW c \in Calls, InsertReset(c) PROVE TypeOK'
  <2>1. call' \in [Calls -> CallState]
    BY <1>11, CallTypes, NextLinkType DEF InsertReset, Steps
  <2>2. QED
    BY <1>11, <2>1 DEF TypeOK, InsertReset
<1>12. ASSUME NEW c \in Calls, NEW i \in 1..MaxLinks, StartConfirm(c, i) PROVE TypeOK'
  <2>1. call' \in [Calls -> CallState] /\ begun' \in 0..MaxCalls /\ faults' = faults
    BY <1>12, CallTypes, LinkFields DEF StartConfirm, Steps, CredentialsAssumption
  <2>2. QED
    BY <1>12, <2>1 DEF TypeOK, StartConfirm
<1>13. ASSUME NEW c \in Calls, NEW i \in 1..MaxLinks, StartPay(c, i) PROVE TypeOK'
  <2>1. [At("pay", First) EXCEPT !.link = i] \in CallState
    <3>1. i \in 1..MaxLinks
      BY <1>13, LinkFields DEF StartPay
    <3>2. QED
      BY <3>1, CallTypes DEF Steps, CredentialsAssumption
  <2>2. call' \in [Calls -> CallState] /\ begun' \in 0..MaxCalls /\ faults' = faults
    BY <1>13, <2>1, CallTypes DEF StartPay
  <2>3. QED
    BY <1>13, <2>2 DEF TypeOK, StartPay
<1>14. ASSUME NEW c \in Calls, Confirm(c) PROVE TypeOK'
  <2>1. call' \in [Calls -> CallState]
    BY <1>14, CallTypes DEF Confirm, Steps
  <2>2. PICK u \in Users : u = call[c].user
    BY DEF TypeOK, CallState
  <2>3. passwords' \in [Users -> Nat]
    BY <1>14, <2>2 DEF TypeOK, Confirm
  <2>4. /\ status' \in [Users -> {"none", "invited", "active", "disabled"}]
        /\ stale' \subseteq Calls
    BY <1>14, <2>2 DEF TypeOK, Confirm, SetStatus
  <2>5. QED
    BY <1>14, <2>1, <2>3, <2>4 DEF TypeOK, Confirm, limiterVars, tenantVars, bounds
<1>15. ASSUME NEW c \in Calls, WritePatch(c) PROVE TypeOK'
  <2>1. call' \in [Calls -> CallState]
    BY <1>15, CallTypes DEF WritePatch, Steps
  <2>2. QED
    BY <1>15, <2>1 DEF TypeOK, WritePatch, SetStatus, End, CallState, Patched
<1>16. ASSUME NEW c \in Calls, IssueInvite(c) PROVE TypeOK'
  <2>1. call' \in [Calls -> CallState]
    BY <1>16, CallTypes, NextLinkType DEF IssueInvite, Steps
  <2>2. QED
    BY <1>16, <2>1 DEF TypeOK, IssueInvite
<1>17. ASSUME NEW c \in Calls, SendLink(c) PROVE TypeOK'
  <2>1. call' \in [Calls -> CallState]
    BY <1>17, CallTypes DEF SendLink, Steps
  <2>2. QED
    BY <1>17, <2>1 DEF TypeOK, SendLink
<1>18. ASSUME NEW c \in Calls, ResendBillingLink(c) PROVE TypeOK'
  <2>1. call' \in [Calls -> CallState] /\ begun' \in 0..MaxCalls /\ faults' = faults
    BY <1>18, CallTypes, NextLinkType DEF ResendBillingLink, Steps, CredentialsAssumption
  <2>2. QED
    BY <1>18, <2>1 DEF TypeOK, ResendBillingLink
<1>19. ASSUME NEW c \in Calls, Pay(c) PROVE TypeOK'
  <2>1. call' \in [Calls -> CallState]
    BY <1>19, CallTypes DEF Pay, Steps
  <2>2. QED
    BY <1>19, <2>1 DEF TypeOK, Pay
<1>20. ASSUME NEW c \in Calls, NEW to \in Lifecycles, StartLifecycle(c, to) PROVE TypeOK'
  <2>1. call' \in [Calls -> CallState] /\ begun' \in 0..MaxCalls /\ faults' = faults
    BY <1>20, CallTypes DEF StartLifecycle, Steps, CredentialsAssumption
  <2>2. QED
    BY <1>20, <2>1 DEF TypeOK, StartLifecycle
<1>21. ASSUME NEW c \in Calls, WriteLifecycle(c) PROVE TypeOK'
  <2>1. call' \in [Calls -> CallState]
    BY <1>21, CallTypes DEF WriteLifecycle, Steps
  <2>2. QED
    BY <1>21, <2>1 DEF TypeOK, WriteLifecycle, CallState, Lifecycles
<1>22. ASSUME NEW d \in Deliveries, HookRead(d) PROVE TypeOK'
  BY <1>22 DEF TypeOK, HookRead, NoHook
<1>23. ASSUME NEW d \in Deliveries, HookTransition(d) PROVE TypeOK'
  BY <1>23 DEF TypeOK, HookTransition, NoHook
<1>24. ASSUME NEW d \in Deliveries, HookActivate(d) PROVE TypeOK'
  BY <1>24 DEF TypeOK, HookActivate, NoHook, Lifecycles
<1>25. ASSUME NEW d \in Deliveries, HookIssue(d) PROVE TypeOK'
  BY <1>25, LinkFields, CredentialsAssumption DEF TypeOK, HookIssue, Issue, NextLink, NoHook
<1>26. ASSUME NEW d \in Deliveries, HookSend(d) PROVE TypeOK'
  BY <1>26, CredentialsAssumption DEF TypeOK, HookSend, NoHook
<1>27. ASSUME NEW i \in 1..MaxLinks, Expire(i) PROVE TypeOK'
  BY <1>27 DEF TypeOK, Expire
<1>28. ASSUME NEW u \in Users, WindowMoves(u) PROVE TypeOK'
  BY <1>28 DEF TypeOK, WindowMoves
<1>29. CASE Crash
  BY <1>29, IdleType, CredentialsAssumption DEF TypeOK, Crash, NoHook, DropAttempts
<1>30. CASE UNCHANGED vars
  BY <1>30 DEF TypeOK, vars
<1>31. QED
  BY <1>1, <1>2, <1>3, <1>4, <1>5, <1>6, <1>7, <1>8, <1>9, <1>10, <1>11, <1>12, <1>13,
     <1>14, <1>15, <1>16, <1>17, <1>18, <1>19, <1>20, <1>21, <1>22, <1>23, <1>24, <1>25,
     <1>26, <1>27, <1>28, <1>29, <1>30 DEF Next, Request, Webhook

\* A handler that begins or ends is not about to issue a link, unless it says so.
LEMMA LinksStep ==
  ASSUME CredentialsAssumption, TypeOK, UsersInv, LiveLinksPostdatePassword, [Next]_vars
  PROVE  links' \in Seq(Link) /\ UsersInv' /\ LiveLinksPostdatePassword'
<1> DEFINE Goal == links' \in Seq(Link) /\ UsersInv' /\ LiveLinksPostdatePassword'
<1> USE DEF tenantVars, userVars, bounds
<1>0. /\ links \in Seq(Link) /\ call \in [Calls -> CallState]
      /\ status \in [Users -> {"none", "invited", "active", "disabled"}]
  BY DEF TypeOK
<1>1. ASSUME NEW c \in Calls, NEW u \in Users, StartAttempt(c, u) PROVE Goal
  BY <1>0, <1>1, LinksAside DEF StartAttempt, UsersStay, Begin, Idle, Issuing, Exists
<1>2. ASSUME NEW c \in Calls, NEW u \in Users, NEW r \in {"admin", "manager"},
             NEW w \in BOOLEAN, CreateUser(c, u, r, w)
      PROVE  Goal
  <2>1. \A i \in DOMAIN links : links[i].user \in Users /\ links[i].user # u
    BY <1>2, LinkFields DEF CreateUser, UsersInv
  <2>2. \A v \in Users \ {u} : passwords'[v] = passwords[v]
    BY <1>2 DEF CreateUser, TypeOK
  <2>3. links' = links /\ links' \in [DOMAIN links -> Link]
    BY <1>0, <1>2, LinkFields DEF CreateUser
  <2>4. \A k \in Calls : call'[k].pc \in Issuing => call'[k] = call[k]
    BY <1>0, <1>2 DEF CreateUser, Begin, Idle, Issuing
  <2>5. UsersStay
    BY <1>0, <1>2 DEF CreateUser, UsersStay, Exists
  <2>6. QED
    BY <2>1, <2>2, <2>3, <2>4, <2>5, LinksRewritten DEF Live
<1>3. ASSUME NEW c \in Calls, NEW u \in Users, NEW to \in Patched, StartPatch(c, u, to)
      PROVE  Goal
  BY <1>0, <1>3, LinksAside DEF StartPatch, UsersStay, Begin, At, Idle, Issuing, Exists
<1>4. ASSUME NEW c \in Calls, NEW u \in Users, InviteUser(c, u) PROVE Goal
  BY <1>0, <1>4, LinksAside DEF InviteUser, UsersStay, Begin, Idle, Issuing, SetStatus,
     Exists
<1>5. ASSUME NEW c \in Calls, NEW u \in Users, StartSendInvite(c, u) PROVE Goal
  BY <1>0, <1>5, LinksAside DEF StartSendInvite, UsersStay, Begin, At, Idle, Issuing, Exists
<1>6. ASSUME NEW c \in Calls, AttemptIp(c) PROVE Goal
  BY <1>0, <1>6, LinksAside DEF AttemptIp, UsersStay, Exists
<1>7. ASSUME NEW c \in Calls, LoginFails(c) PROVE Goal
  BY <1>0, <1>7, LinksAside DEF LoginFails, UsersStay, Exists
<1>8. ASSUME NEW c \in Calls, LoginSucceeds(c) PROVE Goal
  BY <1>0, <1>8, LinksAside DEF LoginSucceeds, UsersStay, Exists
<1>9. ASSUME NEW c \in Calls, ResetCounted(c) PROVE Goal
  BY <1>0, <1>9, LinksAside DEF ResetCounted, UsersStay, At, Idle, Issuing, Exists
<1>10. ASSUME NEW c \in Calls, Resolve(c) PROVE Goal
  <2>1. \A k \in Calls : call'[k].pc \in Issuing =>
           call'[k] = call[k] \/ (call'[k].user \in Users /\ Exists(call'[k].user))
    <3>1. CASE Exists(call[c].user) /\ Goto(c, "insert")
      <4>1. call[c].user \in Users /\ call[c] \in CallState
        BY <1>0 DEF CallState
      <4>2. call'[c].user = call[c].user /\ \A k \in Calls \ {c} : call'[k] = call[k]
        BY <1>0, <3>1, <4>1 DEF Goto, CallState
      <4>3. QED
        BY <3>1, <4>1, <4>2 DEF Exists
    <3>2. CASE End(c)
      BY <1>0, <3>2 DEF End, Idle, Issuing
    <3>3. QED
      BY <1>10, <3>1, <3>2 DEF Resolve
  <2>2. QED
    BY <1>0, <1>10, <2>1, LinksAside DEF Resolve, UsersStay, Exists
<1>11. ASSUME NEW c \in Calls, InsertReset(c) PROVE Goal
  <2>1. PICK u \in Users : u = call[c].user
    BY <1>0 DEF CallState
  <2>2. Exists(u)
    BY <1>11, <2>1 DEF InsertReset, UsersInv, Issuing
  <2>3. \A k \in Calls : call'[k].pc \in Issuing => call'[k] = call[k]
    BY <1>0, <1>11 DEF InsertReset, Issuing, CallState
  <2>4. Issue(u, "reset") /\ UNCHANGED <<status, passwords>>
    BY <1>11, <2>1 DEF InsertReset
  <2>5. QED
    BY <2>2, <2>3, <2>4, LinkIssued DEF Purposes
<1>12. ASSUME NEW c \in Calls, NEW i \in 1..MaxLinks, StartConfirm(c, i) PROVE Goal
  BY <1>0, <1>12, LinksAside DEF StartConfirm, UsersStay, Begin, At, Idle, Issuing, Exists
<1>13. ASSUME NEW c \in Calls, NEW i \in 1..MaxLinks, StartPay(c, i) PROVE Goal
  BY <1>0, <1>13, LinksAside DEF StartPay, UsersStay, Begin, At, Idle, Issuing, Exists
<1>14. ASSUME NEW c \in Calls, Confirm(c) PROVE Goal
  <2>0. \A i \in DOMAIN links : links[i] \in Link
    BY LinkFields
  <2>1. \A k \in Calls : call'[k].pc \in Issuing => call'[k] = call[k]
    BY <1>0, <1>14 DEF Confirm, End, Idle, Issuing
  <2>2. links' \in [DOMAIN links -> Link]
    BY <1>0, <2>0, <1>14 DEF Confirm, Link
  <2>3. \A i \in DOMAIN links :
           /\ links'[i].user = links[i].user /\ links'[i].purpose = links[i].purpose
           /\ links'[i].password = links[i].password
           /\ SetsPassword(i) /\ links'[i].state = "live" =>
                Live(i) /\ passwords'[links[i].user] = passwords[links[i].user]
    BY <1>0, <2>0, <1>14, LinkFields DEF Confirm, Link, Live, SetsPassword, TypeOK
  <2>4. UsersStay
    BY <1>0, <1>14 DEF Confirm, UsersStay, Exists, SetStatus
  <2>6. QED
    BY <2>1, <2>2, <2>3, <2>4, LinksRewritten
<1>15. ASSUME NEW c \in Calls, WritePatch(c) PROVE Goal
  BY <1>0, <1>15, LinksAside DEF WritePatch, UsersStay, SetStatus, End, Idle, Issuing,
     CallState, Exists, Patched
<1>16. ASSUME NEW c \in Calls, IssueInvite(c) PROVE Goal
  <2>1. PICK u \in Users : u = call[c].user
    BY <1>0 DEF CallState
  <2>2. Exists(u)
    BY <1>16, <2>1 DEF IssueInvite, UsersInv, Issuing
  <2>3. \A k \in Calls : call'[k].pc \in Issuing => call'[k] = call[k]
    BY <1>0, <1>16 DEF IssueInvite, Issuing, CallState
  <2>4. Issue(u, "invite") /\ UNCHANGED <<status, passwords>>
    BY <1>16, <2>1 DEF IssueInvite
  <2>5. QED
    BY <2>2, <2>3, <2>4, LinkIssued DEF Purposes
<1>17. ASSUME NEW c \in Calls, SendLink(c) PROVE Goal
  <2>0. \A i \in DOMAIN links : links[i] \in Link
    BY LinkFields
  <2>1. \A k \in Calls : call'[k].pc \in Issuing => call'[k] = call[k]
    BY <1>0, <1>17 DEF SendLink, End, Idle, Issuing
  <2>2. links' \in [DOMAIN links -> Link]
    BY <1>0, <2>0, <1>17 DEF SendLink, Link, Send
  <2>3. \A i \in DOMAIN links :
           /\ links'[i].user = links[i].user /\ links'[i].purpose = links[i].purpose
           /\ links'[i].password = links[i].password
           /\ SetsPassword(i) /\ links'[i].state = "live" =>
                Live(i) /\ passwords'[links[i].user] = passwords[links[i].user]
    BY <1>0, <2>0, <1>17 DEF SendLink, Link, Send, Live
  <2>4. UsersStay
    BY <1>0, <1>17 DEF SendLink, UsersStay, Exists
  <2>6. QED
    BY <2>1, <2>2, <2>3, <2>4, LinksRewritten
<1>18. ASSUME NEW c \in Calls, ResendBillingLink(c) PROVE Goal
  <2>1. \A k \in Calls : call'[k].pc \in Issuing => call'[k] = call[k]
    BY <1>0, <1>18 DEF ResendBillingLink, Issuing, Begin, At, Idle
  <2>2. Issue(First, "billing_setup") /\ UNCHANGED <<status, passwords>>
    BY <1>18 DEF ResendBillingLink
  <2>3. QED
    BY <2>1, <2>2, LinkIssued DEF Purposes, UsersInv, CredentialsAssumption
<1>19. ASSUME NEW c \in Calls, Pay(c) PROVE Goal
  BY <1>0, <1>19, LinksAside DEF Pay, UsersStay, End, Idle, Issuing, Exists
<1>20. ASSUME NEW c \in Calls, NEW to \in Lifecycles, StartLifecycle(c, to) PROVE Goal
  BY <1>0, <1>20, LinksAside DEF StartLifecycle, UsersStay, Begin, At, Idle, Issuing, Exists
<1>21. ASSUME NEW c \in Calls, WriteLifecycle(c) PROVE Goal
  BY <1>0, <1>21, LinksAside DEF WriteLifecycle, UsersStay, End, Idle, Issuing, Exists
<1>22. ASSUME NEW d \in Deliveries, HookRead(d) PROVE Goal
  BY <1>0, <1>22, LinksAside DEF HookRead, UsersStay, Exists
<1>23. ASSUME NEW d \in Deliveries, HookTransition(d) PROVE Goal
  BY <1>0, <1>23, LinksAside DEF HookTransition, UsersStay, Exists
<1>24. ASSUME NEW d \in Deliveries, HookActivate(d) PROVE Goal
  BY <1>0, <1>24, LinksAside DEF HookActivate, UsersStay, Exists
<1>25. ASSUME NEW d \in Deliveries, HookIssue(d) PROVE Goal
  <2>1. \A k \in Calls : call'[k].pc \in Issuing => call'[k] = call[k]
    BY <1>0, <1>25 DEF HookIssue, Issuing
  <2>2. Issue(First, "invite") /\ UNCHANGED <<status, passwords>>
    BY <1>25 DEF HookIssue
  <2>3. QED
    BY <2>1, <2>2, LinkIssued DEF Purposes, UsersInv, CredentialsAssumption
<1>26. ASSUME NEW d \in Deliveries, HookSend(d) PROVE Goal
  <2>0. \A i \in DOMAIN links : links[i] \in Link
    BY LinkFields
  <2>1. \A k \in Calls : call'[k].pc \in Issuing => call'[k] = call[k]
    BY <1>0, <1>26 DEF HookSend
  <2>2. CASE links' = links
    <3>1. UsersStay /\ passwords' = passwords
      BY <1>26 DEF HookSend, UsersStay, Exists
    <3>2. QED
      BY <1>0, <2>1, <2>2, <3>1, LinksAside
  <2>3. CASE Send(hook[d].link)
    <3>1. PICK n \in Nat : n = hook[d].link
      BY DEF TypeOK, CredentialsAssumption
    <3>2. links' = [links EXCEPT ![n].sent = TRUE]
      BY <2>3, <3>1 DEF Send
    <3>3. links' \in [DOMAIN links -> Link]
      BY <1>0, <2>0, <3>2 DEF Link
    <3>4. ASSUME NEW i \in DOMAIN links
          PROVE  /\ links'[i].user = links[i].user /\ links'[i].purpose = links[i].purpose
                 /\ links'[i].password = links[i].password /\ links'[i].state = links[i].state
      BY <1>0, <2>0, <3>2 DEF Link
    <3>5. UsersStay /\ passwords' = passwords
      BY <1>26 DEF HookSend, UsersStay, Exists
    <3>6. QED
      BY <2>1, <3>3, <3>4, <3>5, LinksRewritten DEF Live
  <2>4. QED
    BY <1>26, <2>2, <2>3 DEF HookSend
<1>27. ASSUME NEW i \in 1..MaxLinks, Expire(i) PROVE Goal
  <2>0. \A n \in DOMAIN links : links[n] \in Link
    BY LinkFields
  <2>1. \A k \in Calls : call'[k].pc \in Issuing => call'[k] = call[k]
    BY <1>0, <1>27 DEF Expire
  <2>2. links' \in [DOMAIN links -> Link]
    BY <1>0, <2>0, <1>27 DEF Expire, Link
  <2>3. \A n \in DOMAIN links :
           /\ links'[n].user = links[n].user /\ links'[n].purpose = links[n].purpose
           /\ links'[n].password = links[n].password
           /\ SetsPassword(n) /\ links'[n].state = "live" =>
                Live(n) /\ passwords'[links[n].user] = passwords[links[n].user]
    BY <1>0, <2>0, <1>27 DEF Expire, Link, Live
  <2>4. UsersStay
    BY <1>0, <1>27 DEF Expire, UsersStay, Exists
  <2>6. QED
    BY <2>1, <2>2, <2>3, <2>4, LinksRewritten
<1>28. ASSUME NEW u \in Users, WindowMoves(u) PROVE Goal
  BY <1>0, <1>28, LinksAside DEF WindowMoves, UsersStay, Exists
<1>29. CASE Crash
  BY <1>0, <1>29, LinksAside DEF Crash, UsersStay, Idle, Issuing, Exists
<1>30. CASE UNCHANGED vars
  BY <1>0, <1>30, LinksAside DEF vars, UsersStay, Exists
<1>31. QED
  BY <1>1, <1>2, <1>3, <1>4, <1>5, <1>6, <1>7, <1>8, <1>9, <1>10, <1>11, <1>12, <1>13,
     <1>14, <1>15, <1>16, <1>17, <1>18, <1>19, <1>20, <1>21, <1>22, <1>23, <1>24, <1>25,
     <1>26, <1>27, <1>28, <1>29, <1>30 DEF Next, Request, Webhook

LEMMA CredStep ==
  ASSUME LimiterAssumption, CredentialsAssumption, CredInv, [Next]_vars
  PROVE  CredInv'
<1>1. LimiterInv'
  BY ThrottleStep, LimiterStep DEF CredInv, LimiterInv, TypeOK
<1>2. links' \in Seq(Link) /\ UsersInv' /\ LiveLinksPostdatePassword'
  BY LinksStep DEF CredInv
<1>3. TypeOK'
  BY <1>1, <1>2, TypeStep DEF CredInv, LimiterInv
<1>4. QED
  BY <1>1, <1>2, <1>3 DEF CredInv, LimiterInv

LEMMA CredStart ==
  ASSUME LimiterAssumption, CredentialsAssumption, Init
  PROVE  CredInv
<1>1. LimiterInv
  BY LimiterStart DEF Init
<1>2. /\ links \in Seq(Link) /\ passwords \in [Users -> Nat]
      /\ \A i \in DOMAIN links : links[i].user = First /\ links[i].purpose = "billing_setup"
  <2>1. CASE links = <<>> /\ passwords = [u \in Users |-> 1]
    BY <2>1
  <2>2. ASSUME NEW l, l = [NewLink(First, "billing_setup") EXCEPT !.sent = TRUE],
               links = <<l>>, passwords = [u \in Users |-> 0]
        PROVE  /\ links \in Seq(Link) /\ passwords \in [Users -> Nat]
               /\ \A i \in DOMAIN links : links[i].user = First /\ links[i].purpose = "billing_setup"
    <3>1. l = [user |-> First, purpose |-> "billing_setup", state |-> "live",
               password |-> 0, sent |-> TRUE]
      BY <2>2 DEF NewLink, CredentialsAssumption
    <3>2. l \in Link /\ l.user = First /\ l.purpose = "billing_setup"
      BY <3>1 DEF Link, Purposes, CredentialsAssumption
    <3>3. links \in Seq(Link) /\ DOMAIN links = {1} /\ links[1] = l
      <4>1. links = <<l>>
        BY <2>2
      <4>2. QED
        BY <3>2, <4>1
    <3>4. passwords \in [Users -> Nat]
      <4>1. passwords = [u \in Users |-> 0]
        BY <2>2
      <4>2. QED
        BY <4>1
    <3>5. QED
      BY <3>2, <3>3, <3>4
  <2>3. QED
    BY <2>1, <2>2 DEF Init
<1>3. TypeOK
  <2>1. /\ status \in [Users -> {"none", "invited", "active", "disabled"}]
        /\ lifecycle \in Lifecycles /\ paid \in BOOLEAN
    BY DEF Init, Lifecycles
  <2>2. /\ call \in [Calls -> CallState]
        /\ role \in [Users -> {"admin", "manager"}]
        /\ hook \in [Deliveries -> [pc : {"idle", "transition", "activate", "issue", "send"},
                                    link : 1..MaxLinks]]
    BY IdleType DEF Init, NoHook, CredentialsAssumption
  <2>3. stale \subseteq Calls /\ hooked \in BOOLEAN
    BY DEF Init
  <2>4. begun \in 0..MaxCalls /\ faults \in 0..MaxFaults
    <3>1. begun = 0 /\ faults = 0
      BY DEF Init
    <3>2. QED
      BY <3>1 DEF CredentialsAssumption
  <2>5. QED
    BY <1>1, <1>2, <2>1, <2>2, <2>3, <2>4 DEF TypeOK, LimiterInv
<1>4. UsersInv /\ LiveLinksPostdatePassword
  BY <1>2 DEF Init, UsersInv, Exists, Issuing, Idle, LiveLinksPostdatePassword, SetsPassword,
     CredentialsAssumption
<1>5. QED
  BY <1>1, <1>3, <1>4 DEF CredInv, LimiterInv

LEMMA CredAlways == Spec => []CredInv
<1>1. Init => CredInv
  BY CredStart, LimiterAssumption, CredentialsAssumption
<1>2. CredInv /\ [Next]_vars => CredInv'
  BY CredStep, LimiterAssumption, CredentialsAssumption
<1>3. QED
  BY <1>1, <1>2, PTL DEF Spec

\* Every variable keeps its type, for any number of users, requests and links.
THEOREM CredentialsTypes == Spec => []TypeOK
<1>1. CredInv => TypeOK
  BY DEF CredInv
<1>2. QED
  BY <1>1, CredAlways, PTL

\* A reset or invite link that works was issued for the password its user has now:
\* whatever confirms, requests and resends overlap, a password change leaves no older
\* link alive (password-reset.ts:315-327).
THEOREM LinksPostdate == Spec => []LiveLinksPostdatePassword
<1>1. CredInv => LiveLinksPostdatePassword
  BY DEF CredInv
<1>2. QED
  BY <1>1, CredAlways, PTL

\* The handlers keep the throttle's specification: login and reset request only
\* reach its rows the way rate-limit.ts does, so its bound holds for the tenant.
THEOREM Throttled == Spec => LimiterSpec
<1>1. Init => LimiterInit
  BY DEF Init
<1>2. [Next]_vars => [LimiterNext]_limiterVars
  BY ThrottleStep
<1>3. QED
  BY <1>1, <1>2, PTL DEF Spec, LimiterSpec

-----------------------------------------------------------------------------
(* The last active admin *)

\* The check behind a deactivation that no write of a status has overtaken.
PatchInv ==
    \A c \in Calls :
        call[c].pc = "write" =>
            /\ Exists(call[c].user)
            /\ \/ c \in stale
               \/ call[c].to = "active"
               \/ call[c].user \notin ActiveAdmins
               \/ \E w \in ActiveAdmins : w # call[c].user

LastAdminKept ==
    ActiveAdmins # {} /\ ActiveAdmins' = {} =>
        \/ \E c \in stale : call[c].pc = "write"
        \/ \E c \in Calls, u \in ActiveAdmins : InviteUser(c, u)

\* A step that writes no user and starts no deactivation.
Calm ==
    /\ UNCHANGED <<status, role, stale>>
    /\ \A c \in Calls : call'[c].pc = "write" => call'[c] = call[c]

LEMMA CalmKeeps ==
  ASSUME PatchInv, Calm
  PROVE  PatchInv' /\ LastAdminKept
BY DEF PatchInv, Calm, LastAdminKept, ActiveAdmins, Exists

\* The steps that do.
UserStep(c) ==
    \/ \E u \in Users :
         \/ \E r \in {"admin", "manager"}, withPassword \in BOOLEAN : CreateUser(c, u, r, withPassword)
         \/ \E to \in Patched : StartPatch(c, u, to)
         \/ InviteUser(c, u)
    \/ Confirm(c)
    \/ WritePatch(c)

LEMMA CalmOrUserStep ==
  ASSUME TypeOK, [Next]_vars
  PROVE  Calm \/ \E c \in Calls : UserStep(c)
<1> USE DEF tenantVars, userVars, bounds
<1>0. call \in [Calls -> CallState]
  BY DEF TypeOK
<1>1. ASSUME NEW c \in Calls, NEW u \in Users, StartAttempt(c, u) PROVE Calm
  BY <1>0, <1>1 DEF StartAttempt, Calm, Begin, Idle
<1>2. ASSUME NEW c \in Calls, NEW u \in Users, StartSendInvite(c, u) PROVE Calm
  BY <1>0, <1>2 DEF StartSendInvite, Calm, Begin, At, Idle
<1>3. ASSUME NEW c \in Calls, AttemptIp(c) PROVE Calm
  BY <1>0, <1>3 DEF AttemptIp, Calm
<1>4. ASSUME NEW c \in Calls, LoginFails(c) PROVE Calm
  BY <1>0, <1>4 DEF LoginFails, Calm
<1>5. ASSUME NEW c \in Calls, LoginSucceeds(c) PROVE Calm
  BY <1>0, <1>5 DEF LoginSucceeds, Calm
<1>6. ASSUME NEW c \in Calls, ResetCounted(c) PROVE Calm
  BY <1>0, <1>6 DEF ResetCounted, Calm, At, Idle
<1>7. ASSUME NEW c \in Calls, Resolve(c) PROVE Calm
  BY <1>0, <1>7 DEF Resolve, Calm, Goto, End, Idle, CallState
<1>8. ASSUME NEW c \in Calls, InsertReset(c) PROVE Calm
  BY <1>0, <1>8 DEF InsertReset, Calm, CallState
<1>9. ASSUME NEW c \in Calls, NEW i \in 1..MaxLinks, StartConfirm(c, i) PROVE Calm
  BY <1>0, <1>9 DEF StartConfirm, Calm, Begin, At, Idle
<1>10. ASSUME NEW c \in Calls, NEW i \in 1..MaxLinks, StartPay(c, i) PROVE Calm
  BY <1>0, <1>10 DEF StartPay, Calm, Begin, At, Idle
<1>11. ASSUME NEW c \in Calls, IssueInvite(c) PROVE Calm
  BY <1>0, <1>11 DEF IssueInvite, Calm, CallState
<1>12. ASSUME NEW c \in Calls, SendLink(c) PROVE Calm
  BY <1>0, <1>12 DEF SendLink, Calm, End, Idle
<1>13. ASSUME NEW c \in Calls, ResendBillingLink(c) PROVE Calm
  BY <1>0, <1>13 DEF ResendBillingLink, Calm, Begin, At, Idle
<1>14. ASSUME NEW c \in Calls, Pay(c) PROVE Calm
  BY <1>0, <1>14 DEF Pay, Calm, End, Idle
<1>15. ASSUME NEW c \in Calls, NEW to \in Lifecycles, StartLifecycle(c, to) PROVE Calm
  BY <1>0, <1>15 DEF StartLifecycle, Calm, Begin, At, Idle
<1>16. ASSUME NEW c \in Calls, WriteLifecycle(c) PROVE Calm
  BY <1>0, <1>16 DEF WriteLifecycle, Calm, End, Idle
<1>17. ASSUME NEW d \in Deliveries, HookRead(d) PROVE Calm
  BY <1>0, <1>17 DEF HookRead, Calm
<1>18. ASSUME NEW d \in Deliveries, HookTransition(d) PROVE Calm
  BY <1>0, <1>18 DEF HookTransition, Calm
<1>19. ASSUME NEW d \in Deliveries, HookActivate(d) PROVE Calm
  BY <1>0, <1>19 DEF HookActivate, Calm
<1>20. ASSUME NEW d \in Deliveries, HookIssue(d) PROVE Calm
  BY <1>0, <1>20 DEF HookIssue, Calm
<1>21. ASSUME NEW d \in Deliveries, HookSend(d) PROVE Calm
  BY <1>0, <1>21 DEF HookSend, Calm
<1>22. ASSUME NEW i \in 1..MaxLinks, Expire(i) PROVE Calm
  BY <1>0, <1>22 DEF Expire, Calm
<1>23. ASSUME NEW u \in Users, WindowMoves(u) PROVE Calm
  BY <1>0, <1>23 DEF WindowMoves, Calm
<1>24. CASE Crash
  BY <1>24 DEF Crash, Calm, Idle
<1>25. CASE UNCHANGED vars
  BY <1>25 DEF vars, Calm
<1>26. QED
  BY <1>1, <1>2, <1>3, <1>4, <1>5, <1>6, <1>7, <1>8, <1>9, <1>10, <1>11, <1>12, <1>13, <1>14, <1>15, <1>16, <1>17, <1>18, <1>19, <1>20, <1>21, <1>22, <1>23, <1>24, <1>25
     DEF Next, Request, Webhook, UserStep

LEMMA UserStepKeeps ==
  ASSUME TypeOK, PatchInv, CredentialsAssumption, NEW c \in Calls, UserStep(c)
  PROVE  PatchInv' /\ LastAdminKept
<1> USE DEF tenantVars, userVars, bounds
<1>0. /\ call \in [Calls -> CallState] /\ role \in [Users -> {"admin", "manager"}]
      /\ status \in [Users -> {"none", "invited", "active", "disabled"}]
      /\ \A k \in Calls : call[k].user \in Users
  BY DEF TypeOK, CallState
<1>1. ASSUME NEW u \in Users, NEW r \in {"admin", "manager"}, NEW w \in BOOLEAN, CreateUser(c, u, r, w)
      PROVE  PatchInv' /\ LastAdminKept
  <2>1. /\ u \notin ActiveAdmins /\ ~Exists(u) /\ ActiveAdmins \subseteq ActiveAdmins'
        /\ \A v \in Users \ {u} : (v \in ActiveAdmins' <=> v \in ActiveAdmins) /\ status'[v] = status[v]
        /\ UNCHANGED stale
    BY <1>0, <1>1 DEF CreateUser, ActiveAdmins, Exists
  <2>2. \A k \in Calls : call'[k].pc = "write" => call'[k] = call[k]
    BY <1>0, <1>1 DEF CreateUser, Begin, Idle
  <2>3. ASSUME NEW k \in Calls, call'[k].pc = "write"
        PROVE  /\ Exists(call[k].user)'
               /\ \/ k \in stale
                  \/ call[k].to = "active"
                  \/ call[k].user \notin ActiveAdmins'
                  \/ \E x \in ActiveAdmins' : x # call[k].user
    <3>1. PICK v \in Users : v = call[k].user
      BY <1>0
    <3>2. Exists(v) /\ v # u
      BY <2>1, <2>2, <2>3, <3>1 DEF PatchInv
    <3>3. call'[k].user = v /\ status'[v] # "none"
      BY <2>1, <2>2, <2>3, <3>1, <3>2 DEF Exists
    <3>4. QED
      BY <2>1, <2>2, <2>3, <3>1, <3>2, <3>3 DEF PatchInv, Exists
  <2>4. PatchInv'
    BY <2>1, <2>2, <2>3 DEF PatchInv, Exists
  <2>5. QED
    BY <2>1, <2>4 DEF LastAdminKept
<1>2. ASSUME NEW u \in Users, NEW to \in Patched, StartPatch(c, u, to)
      PROVE  PatchInv' /\ LastAdminKept
  <2>1. PICK q : q = [At("write", u) EXCEPT !.to = to]
    OBVIOUS
  <2>2. q.user = u /\ q.to = to
    BY <2>1 DEF At, Idle
  <2>3. /\ call' = [call EXCEPT ![c] = q] /\ UNCHANGED <<status, role>> /\ stale' = stale \ {c}
        /\ Exists(u) /\ (to # "active" /\ u \in ActiveAdmins => Cardinality(ActiveAdmins) > 1)
    BY <1>2, <2>1 DEF StartPatch, Begin
  <2>4. to # "active" /\ u \in ActiveAdmins => \E w \in ActiveAdmins : w # u
    <3>1. SUFFICES ASSUME u \in ActiveAdmins, Cardinality(ActiveAdmins) > 1, \A w \in ActiveAdmins : w = u
                   PROVE  FALSE
      BY <2>3
    <3>2. ActiveAdmins = {u}
      BY <3>1
    <3>3. Cardinality(ActiveAdmins) = 1
      BY <3>2, FS_Singleton
    <3>4. QED
      BY <3>1, <3>3
  <2>5. ActiveAdmins' = ActiveAdmins /\ \A v \in Users : Exists(v)' <=> Exists(v)
    BY <2>3 DEF ActiveAdmins, Exists
  <2>6. ASSUME NEW k \in Calls, call'[k].pc = "write"
        PROVE  /\ status'[call'[k].user] # "none"
               /\ \/ k \in stale'
                  \/ call'[k].to = "active"
                  \/ call'[k].user \notin ActiveAdmins'
                  \/ \E x \in ActiveAdmins' : x # call'[k].user
    <3>1. CASE k = c
      BY <1>0, <2>2, <2>3, <2>4, <2>5, <3>1 DEF Exists
    <3>2. CASE k # c
      BY <1>0, <2>3, <2>5, <2>6, <3>2 DEF PatchInv, Exists
    <3>3. QED
      BY <3>1, <3>2
  <2>7. PatchInv'
    BY <2>6 DEF PatchInv, Exists
  <2>8. QED
    BY <2>5, <2>7 DEF LastAdminKept
<1>3. ASSUME NEW u \in Users, InviteUser(c, u) PROVE PatchInv' /\ LastAdminKept
  <2>1. /\ status' = [status EXCEPT ![u] = "invited"] /\ UNCHANGED role
        /\ stale' = {k \in Calls : call[k].pc = "write"}
        /\ \A k \in Calls : call'[k].pc = "write" => call'[k] = call[k]
    BY <1>0, <1>3 DEF InviteUser, SetStatus, Begin, Idle
  <2>2. PatchInv'
    BY <1>0, <2>1 DEF PatchInv, Exists
  <2>3. LastAdminKept
    <3>1. CASE u \in ActiveAdmins
      BY <1>3, <3>1 DEF LastAdminKept
    <3>2. CASE u \notin ActiveAdmins
      BY <1>0, <2>1, <3>2 DEF LastAdminKept, ActiveAdmins
    <3>3. QED
      BY <3>1, <3>2
  <2>4. QED
    BY <2>2, <2>3
<1>4. CASE Confirm(c)
  <2>1. PICK u \in Users : u = call[c].user
    BY <1>0
  <2>2. /\ UNCHANGED role /\ \A k \in Calls : call'[k].pc = "write" => call'[k] = call[k]
        /\ \/ status[u] = "invited" /\ status' = [status EXCEPT ![u] = "active"]
              /\ stale' = {k \in Calls : call[k].pc = "write"}
           \/ UNCHANGED <<status, stale>>
    BY <1>0, <1>4, <2>1 DEF Confirm, SetStatus, End, Idle
  <2>3. CASE UNCHANGED <<status, stale>>
    BY <2>2, <2>3, CalmKeeps DEF Calm
  <2>4. CASE status[u] = "invited" /\ status' = [status EXCEPT ![u] = "active"]
              /\ stale' = {k \in Calls : call[k].pc = "write"}
    <3>1. PatchInv'
      BY <1>0, <2>2, <2>4 DEF PatchInv, Exists
    <3>2. LastAdminKept
      BY <1>0, <2>2, <2>4 DEF LastAdminKept, ActiveAdmins
    <3>3. QED
      BY <3>1, <3>2
  <2>5. QED
    BY <2>2, <2>3, <2>4
<1>5. CASE WritePatch(c)
  <2>1. PICK u \in Users : u = call[c].user
    BY <1>0
  <2>2. /\ call[c].pc = "write" /\ status' = [status EXCEPT ![u] = call[c].to]
        /\ stale' = {k \in Calls : call[k].pc = "write"} /\ UNCHANGED role
        /\ call' = [call EXCEPT ![c] = Idle]
    BY <1>0, <1>5, <2>1 DEF WritePatch, SetStatus, End
  <2>3. /\ \A k \in Calls : call'[k].pc = "write" => call'[k] = call[k]
        /\ call[c].to \in Patched
    BY <1>0, <2>2 DEF Idle, CallState
  <2>4. PatchInv'
    BY <1>0, <2>2, <2>3 DEF PatchInv, Exists, Patched
  <2>5. LastAdminKept
    <3>1. CASE c \in stale
      BY <2>2, <3>1 DEF LastAdminKept
    <3>2. CASE call[c].to = "active" \/ u \notin ActiveAdmins
      BY <1>0, <2>2, <3>2 DEF LastAdminKept, ActiveAdmins
    <3>3. CASE \E w \in ActiveAdmins : w # u
      BY <1>0, <2>2, <3>3 DEF LastAdminKept, ActiveAdmins
    <3>4. QED
      BY <2>1, <2>2, <3>1, <3>2, <3>3 DEF PatchInv
  <2>6. QED
    BY <2>4, <2>5
<1>6. QED
  BY <1>1, <1>2, <1>3, <1>4, <1>5 DEF UserStep

\* An admin remains: no sequence of status changes, to active, disabled or invited,
\* takes the last active one away, unless another write of a status overtook the
\* check of updateUser (users.ts:233-241), or inviteUser invited the admin anew.
THEOREM LastAdminStaysHolds == Spec => LastAdminStays
<1> DEFINE J == CredInv /\ PatchInv
<1>1. Init => J
  <2>1. Init => CredInv
    BY CredStart, LimiterAssumption, CredentialsAssumption
  <2>2. Init => PatchInv
    BY DEF Init, PatchInv, Idle
  <2>3. QED
    BY <2>1, <2>2
<1>2. J /\ [Next]_vars => PatchInv' /\ LastAdminKept
  BY CalmOrUserStep, CalmKeeps, UserStepKeeps, CredentialsAssumption DEF CredInv
<1>3. J /\ [Next]_vars => J'
  BY <1>2, CredStep, LimiterAssumption, CredentialsAssumption
<1>4. LastAdminStays <=> [][LastAdminKept]_vars
  BY DEF LastAdminStays, LastAdminKept
<1> HIDE DEF J
<1>5. QED
  BY <1>1, <1>2, <1>3, <1>4, PTL DEF Spec

-----------------------------------------------------------------------------
(* The first admin of a tenant a webhook activated *)

FirstInvite(i) == i \in DOMAIN links /\ links[i].user = First /\ links[i].purpose = "invite"

\* Until something fails the invite is on its way, or has been sent.
InvitedInv ==
    hooked /\ faults = 0 =>
        \/ \E i \in DOMAIN links : FirstInvite(i) /\ links[i].sent
        \/ \E d \in Deliveries : \/ hook[d].pc = "issue"
                                 \/ hook[d].pc = "send" /\ FirstInvite(hook[d].link)

\* No row of the links is lost, changes hands, or is taken back once sent.
LinksStay ==
    \A i \in DOMAIN links :
        /\ i \in DOMAIN links'
        /\ links'[i].user = links[i].user /\ links'[i].purpose = links[i].purpose
        /\ links[i].sent => links'[i].sent

LEMMA IssueStays ==
  ASSUME TypeOK, NEW u, NEW purpose, Issue(u, purpose)
  PROVE  /\ LinksStay
         /\ NextLink \in DOMAIN links' /\ links'[NextLink] = NewLink(u, purpose)
BY LinkFields DEF LinksStay, Issue, TypeOK, NextLink

LEMMA SendStays ==
  ASSUME TypeOK, NEW i, Send(i)
  PROVE  LinksStay /\ (i \in DOMAIN links => links'[i].sent)
BY LinkFields DEF LinksStay, Send, Link

LEMMA LinksStayStep ==
  ASSUME TypeOK, [Next]_vars
  PROVE  LinksStay
<1> USE DEF tenantVars, userVars, bounds
<1>1. ASSUME NEW c \in Calls, NEW u \in Users, StartAttempt(c, u) PROVE LinksStay
  BY <1>1 DEF StartAttempt, LinksStay
<1>2. ASSUME NEW c \in Calls, NEW u \in Users, NEW r \in {"admin", "manager"}, NEW w \in BOOLEAN, CreateUser(c, u, r, w) PROVE LinksStay
  BY <1>2 DEF CreateUser, LinksStay
<1>3. ASSUME NEW c \in Calls, NEW u \in Users, NEW to \in Patched, StartPatch(c, u, to) PROVE LinksStay
  BY <1>3 DEF StartPatch, LinksStay
<1>4. ASSUME NEW c \in Calls, NEW u \in Users, InviteUser(c, u) PROVE LinksStay
  BY <1>4 DEF InviteUser, LinksStay
<1>5. ASSUME NEW c \in Calls, NEW u \in Users, StartSendInvite(c, u) PROVE LinksStay
  BY <1>5 DEF StartSendInvite, LinksStay
<1>6. ASSUME NEW c \in Calls, AttemptIp(c) PROVE LinksStay
  BY <1>6 DEF AttemptIp, LinksStay
<1>7. ASSUME NEW c \in Calls, LoginFails(c) PROVE LinksStay
  BY <1>7 DEF LoginFails, LinksStay
<1>8. ASSUME NEW c \in Calls, LoginSucceeds(c) PROVE LinksStay
  BY <1>8 DEF LoginSucceeds, LinksStay
<1>9. ASSUME NEW c \in Calls, ResetCounted(c) PROVE LinksStay
  BY <1>9 DEF ResetCounted, LinksStay
<1>10. ASSUME NEW c \in Calls, Resolve(c) PROVE LinksStay
  BY <1>10 DEF Resolve, LinksStay
<1>11. ASSUME NEW c \in Calls, InsertReset(c) PROVE LinksStay
  BY <1>11, IssueStays DEF InsertReset
<1>12. ASSUME NEW c \in Calls, NEW i \in 1..MaxLinks, StartConfirm(c, i) PROVE LinksStay
  BY <1>12 DEF StartConfirm, LinksStay
<1>13. ASSUME NEW c \in Calls, NEW i \in 1..MaxLinks, StartPay(c, i) PROVE LinksStay
  BY <1>13 DEF StartPay, LinksStay
<1>14. ASSUME NEW c \in Calls, Confirm(c) PROVE LinksStay
  BY <1>14, LinkFields DEF Confirm, LinksStay, Link
<1>15. ASSUME NEW c \in Calls, WritePatch(c) PROVE LinksStay
  BY <1>15 DEF WritePatch, LinksStay
<1>16. ASSUME NEW c \in Calls, IssueInvite(c) PROVE LinksStay
  BY <1>16, IssueStays DEF IssueInvite
<1>17. ASSUME NEW c \in Calls, SendLink(c) PROVE LinksStay
  BY <1>17, SendStays DEF SendLink, LinksStay
<1>18. ASSUME NEW c \in Calls, ResendBillingLink(c) PROVE LinksStay
  BY <1>18, IssueStays DEF ResendBillingLink
<1>19. ASSUME NEW c \in Calls, Pay(c) PROVE LinksStay
  BY <1>19 DEF Pay, LinksStay
<1>20. ASSUME NEW c \in Calls, NEW to \in Lifecycles, StartLifecycle(c, to) PROVE LinksStay
  BY <1>20 DEF StartLifecycle, LinksStay
<1>21. ASSUME NEW c \in Calls, WriteLifecycle(c) PROVE LinksStay
  BY <1>21 DEF WriteLifecycle, LinksStay
<1>22. ASSUME NEW d \in Deliveries, HookRead(d) PROVE LinksStay
  BY <1>22 DEF HookRead, LinksStay
<1>23. ASSUME NEW d \in Deliveries, HookTransition(d) PROVE LinksStay
  BY <1>23 DEF HookTransition, LinksStay
<1>24. ASSUME NEW d \in Deliveries, HookActivate(d) PROVE LinksStay
  BY <1>24 DEF HookActivate, LinksStay
<1>25. ASSUME NEW d \in Deliveries, HookIssue(d) PROVE LinksStay
  BY <1>25, IssueStays DEF HookIssue
<1>26. ASSUME NEW d \in Deliveries, HookSend(d) PROVE LinksStay
  BY <1>26, SendStays DEF HookSend, LinksStay
<1>27. ASSUME NEW i \in 1..MaxLinks, Expire(i) PROVE LinksStay
  BY <1>27, LinkFields DEF Expire, LinksStay, Link
<1>28. ASSUME NEW u \in Users, WindowMoves(u) PROVE LinksStay
  BY <1>28 DEF WindowMoves, LinksStay
<1>29. CASE Crash
  BY <1>29 DEF Crash, LinksStay
<1>30. CASE UNCHANGED vars
  BY <1>30 DEF vars, LinksStay
<1>31. QED
  BY <1>1, <1>2, <1>3, <1>4, <1>5, <1>6, <1>7, <1>8, <1>9, <1>10, <1>11, <1>12, <1>13,
     <1>14, <1>15, <1>16, <1>17, <1>18, <1>19, <1>20, <1>21, <1>22, <1>23, <1>24, <1>25,
     <1>26, <1>27, <1>28, <1>29, <1>30 DEF Next, Request, Webhook

\* What keeps the invite on its way: the deliveries that hold it stay where they are.
LEMMA InvitedKept ==
  ASSUME InvitedInv, LinksStay, hooked' => hooked, faults' = 0 => faults = 0,
         \A d \in Deliveries : hook[d].pc \in {"issue", "send"} => hook'[d] = hook[d]
  PROVE  InvitedInv'
<1> SUFFICES ASSUME hooked', faults' = 0 PROVE InvitedInv'
  BY DEF InvitedInv
<1>1. \A i : FirstInvite(i) => FirstInvite(i)'
  BY DEF FirstInvite, LinksStay
<1>2. CASE \E i \in DOMAIN links : FirstInvite(i) /\ links[i].sent
  BY <1>1, <1>2 DEF InvitedInv, LinksStay
<1>3. ASSUME NEW d \in Deliveries,
             hook[d].pc = "issue" \/ (hook[d].pc = "send" /\ FirstInvite(hook[d].link))
      PROVE  InvitedInv'
  <2>1. hook'[d] = hook[d]
    BY <1>3
  <2>2. PICK n : n = hook[d].link
    OBVIOUS
  <2>3. hook'[d].pc = "issue" \/ (hook'[d].pc = "send" /\ hook'[d].link = n /\ FirstInvite(n)')
    BY <1>1, <1>3, <2>1, <2>2
  <2>4. QED
    BY <2>3 DEF InvitedInv, FirstInvite
<1>4. QED
  BY <1>2, <1>3 DEF InvitedInv

\* The steps of everybody but a webhook and a crash.
HookAside == hook' = hook /\ hooked' = hooked /\ faults' = faults

LEMMA OthersStayAside ==
  ASSUME NEW c \in Calls, Request(c)
  PROVE  HookAside
BY DEF Request, HookAside, Begin, bounds, tenantVars, userVars, StartAttempt, AttemptIp, LoginFails,
   LoginSucceeds, ResetCounted, Resolve, InsertReset, StartConfirm, Confirm, CreateUser,
   StartPatch, WritePatch, InviteUser, StartSendInvite, IssueInvite, SendLink, ResendBillingLink,
   StartPay, Pay, StartLifecycle, WriteLifecycle

LEMMA InvitedStep ==
  ASSUME TypeOK, InvitedInv, [Next]_vars
  PROVE  InvitedInv'
<1>1. LinksStay
  BY LinksStayStep
<1>2. CASE HookAside
  BY <1>1, <1>2, InvitedKept DEF HookAside
<1>3. ASSUME NEW d \in Deliveries, HookRead(d) \/ HookTransition(d) PROVE InvitedInv'
  <2>1. /\ hooked' = hooked /\ faults' = faults /\ hook[d].pc \notin {"issue", "send"}
        /\ \A e \in Deliveries \ {d} : hook'[e] = hook[e]
    BY <1>3 DEF HookRead, HookTransition, bounds, TypeOK
  <2>2. QED
    BY <1>1, <2>1, InvitedKept
<1>4. ASSUME NEW d \in Deliveries, HookActivate(d) PROVE InvitedInv'
  <2>1. hook'[d].pc = "issue"
    BY <1>4 DEF HookActivate, TypeOK
  <2>2. QED
    BY <2>1 DEF InvitedInv
<1>5. ASSUME NEW d \in Deliveries, HookIssue(d) PROVE InvitedInv'
  <2>1. PICK n : n = NextLink
    OBVIOUS
  <2>2. hook'[d].pc = "send" /\ hook'[d].link = n
    BY <1>5, <2>1 DEF HookIssue, TypeOK
  <2>3. n \in DOMAIN links' /\ links'[n] = NewLink(First, "invite")
    BY <1>5, <2>1, IssueStays DEF HookIssue
  <2>4. FirstInvite(n)'
    BY <2>3 DEF FirstInvite, NewLink
  <2>5. QED
    BY <2>2, <2>4 DEF InvitedInv, FirstInvite
<1>6. ASSUME NEW d \in Deliveries, HookSend(d) PROVE InvitedInv'
  <2> SUFFICES ASSUME faults' = 0 PROVE InvitedInv'
    BY DEF InvitedInv
  <2>1. PICK n : n = hook[d].link
    OBVIOUS
  <2>2. Send(n) /\ faults' = faults
    BY <1>6, <2>1 DEF HookSend, TypeOK
  <2>3. /\ hook[d].pc = "send" /\ hooked' = hooked
        /\ \A e \in Deliveries \ {d} : hook'[e] = hook[e]
    BY <1>6 DEF HookSend
  <2>4. CASE FirstInvite(n)
    <3>1. links'[n].sent /\ FirstInvite(n)'
      BY <1>1, <2>2, <2>4, SendStays DEF FirstInvite, LinksStay
    <3>2. QED
      BY <3>1 DEF InvitedInv, FirstInvite
  <2>5. CASE ~FirstInvite(n)
    <3>1. \A i : FirstInvite(i) => FirstInvite(i)'
      BY <1>1 DEF FirstInvite, LinksStay
    <3>2. CASE \E i \in DOMAIN links : FirstInvite(i) /\ links[i].sent
      BY <1>1, <3>1, <3>2 DEF InvitedInv, LinksStay
    <3>3. ASSUME NEW e \in Deliveries,
                 hook[e].pc = "issue" \/ (hook[e].pc = "send" /\ FirstInvite(hook[e].link))
          PROVE  InvitedInv'
      <4>1. e # d
        BY <2>1, <2>3, <2>5, <3>3
      <4>2. PICK m : m = hook[e].link
        OBVIOUS
      <4>3. hook'[e].pc = "issue" \/ (hook'[e].pc = "send" /\ hook'[e].link = m /\ FirstInvite(m)')
        BY <2>3, <3>1, <3>3, <4>1, <4>2
      <4>4. QED
        BY <4>3 DEF InvitedInv, FirstInvite
    <3>4. QED
      BY <2>2, <2>3, <3>2, <3>3 DEF InvitedInv
  <2>6. QED
    BY <2>4, <2>5
<1>7. CASE Crash
  BY <1>7 DEF Crash, InvitedInv, TypeOK
<1>8. CASE (\E i \in 1..MaxLinks : Expire(i)) \/ (\E u \in Users : WindowMoves(u)) \/ UNCHANGED vars
  BY <1>2, <1>8 DEF HookAside, Expire, WindowMoves, bounds, vars
<1>9. QED
  BY <1>2, <1>3, <1>4, <1>5, <1>6, <1>7, <1>8, OthersStayAside DEF Next, Webhook

\* The activation commits before the invite exists, and the second delivery of the
\* event stops at the active tenant: still, with any number of deliveries, the first
\* admin of a tenant a webhook activated has been sent a link once the handlers are
\* done, unless one crashed or the provider refused the email.
THEOREM ActivatedAdminIsInvitedHolds == Spec => []ActivatedAdminIsInvited
<1> DEFINE J == CredInv /\ InvitedInv
<1>1. Init => J
  BY CredStart, LimiterAssumption, CredentialsAssumption DEF Init, InvitedInv
<1>2. J /\ [Next]_vars => J'
  BY CredStep, InvitedStep, LimiterAssumption, CredentialsAssumption DEF CredInv
<1>3. J => ActivatedAdminIsInvited
  BY DEF InvitedInv, ActivatedAdminIsInvited, FirstInvite
<1> HIDE DEF J
<1>4. QED
  BY <1>1, <1>2, <1>3, PTL DEF Spec
=============================================================================
