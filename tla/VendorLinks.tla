---------------------------- MODULE VendorLinks ----------------------------
(***************************************************************************)
(* The links that let vendors into the portal: invites and corrections are *)
(* issued by overlapping operator requests (src/lib/services/vendors.ts,   *)
(* resend-invite.ts, decision.ts) through one choke point that revokes     *)
(* what came before (src/lib/auth/invite-token.ts), mailed afterwards, and *)
(* used by the vendor on the page and the routes under /v/[token].         *)
(*                                                                         *)
(* The choke point is a transaction at READ COMMITTED: its UPDATE revokes  *)
(* rows that were committed when the statement began, looks again at each  *)
(* once it has the row's lock, and never sees a row inserted since.  So it *)
(* is two actions, one that takes the snapshot and one that commits.       *)
(*                                                                         *)
(* A vendor has a status per location; an operator's decisions, a location *)
(* added later, a lapse of coverage and a rule change move them.  What the *)
(* verification finds, and the races of a submit with it, are VendorReview *)
(* and DocumentPipeline: here a job ends with a run, or with a bounce.     *)
(***************************************************************************)
EXTENDS Naturals, FiniteSets, Sequences

CONSTANTS
    Vendors,     \* ids the database may hand out
    Emails,      \* contact addresses operators type
    NoEmail,     \* no address
    Locations,   \* locations of the tenant
    Sites,       \* the sets of locations an operator invites a vendor to
    Requests,    \* operator requests that may be in progress at once
    MaxInvites,  \* bound: rows of invites
    MaxEvents    \* bound: requests started, decisions, crashes and links that expire

ASSUME LinksAssumption ==
    /\ NoEmail \notin Emails /\ IsFiniteSet(Requests)
    /\ Sites \subseteq SUBSET Locations
    /\ MaxInvites \in Nat /\ MaxEvents \in Nat

VARIABLES
    contact,   \* vendors.contact_email (NoEmail: no row)
    stage,     \* vendor_locations.status, per vendor and location (none: no row)
    complete,  \* the three documents are there, active
    jobs,      \* per vendor: its verification jobs that are not over
    run,       \* per vendor: it has a verification run
    invites,   \* rows of invites, in the order of their commits
    mailed,    \* per vendor: the links queued for it, the newest last
    request,   \* per operator request: how far it is
    page,      \* per vendor: what its browser shows, and the link it holds
    events,    \* how many of the bounded events there were
    failed     \* history: a request has died, or a link has expired

dataVars == <<contact, stage, complete, jobs, run>>
bounds == <<events, failed>>
vars == <<dataVars, invites, mailed, request, page, bounds>>

Stages == {"none", "invited_pending", "onboarding", "under_review", "approved", "expired", "non_compliant", "declined"}
Purposes == {"onboarding", "correction"}
Rows == 1..MaxInvites
\* "seen": history, the rows committed when the issuing statement began.
Invite == [vendor : Vendors, purpose : Purposes, state : {"live", "expired", "revoked"}, seen : 0..MaxInvites]
Request == [pc : {"create", "add", "sweep", "issue", "commit", "mail"}, vendor : Vendors, email : Emails,
            at : SUBSET Locations, purpose : Purposes, seen : 0..MaxInvites, revokes : SUBSET Rows, link : 0..MaxInvites]
NoRequest == [pc |-> "idle"]
Page == [shows : {"nothing", "opening", "form", "received"}, link : 0..MaxInvites]

TypeOK ==
    /\ contact \in [Vendors -> Emails \cup {NoEmail}]
    /\ stage \in [Vendors -> [Locations -> Stages]]
    /\ complete \in [Vendors -> BOOLEAN] /\ jobs \in [Vendors -> Nat] /\ run \in [Vendors -> BOOLEAN]
    /\ invites \in Seq(Invite) /\ Len(invites) <= MaxInvites
    /\ mailed \in [Vendors -> Seq(Rows)]
    /\ request \in [Requests -> Request \cup {NoRequest}]
    /\ page \in [Vendors -> Page]
    /\ events \in 0..MaxEvents /\ failed \in BOOLEAN
    \* a mail carries a link of its own vendor
    /\ \A v \in Vendors : \A k \in DOMAIN mailed[v] :
         mailed[v][k] \in DOMAIN invites /\ invites[mailed[v][k]].vendor = v

Init ==
    /\ contact = [v \in Vendors |-> NoEmail]
    /\ stage = [v \in Vendors |-> [l \in Locations |-> "none"]]
    /\ complete = [v \in Vendors |-> FALSE]
    /\ jobs = [v \in Vendors |-> 0] /\ run = [v \in Vendors |-> FALSE]
    /\ invites = <<>>
    /\ mailed = [v \in Vendors |-> <<>>]
    /\ request = [r \in Requests |-> NoRequest]
    /\ page = [v \in Vendors |-> [shows |-> "nothing", link |-> 0]]
    /\ events = 0 /\ failed = FALSE

\* A vendor and its address are inserted together.
Exists(v) == contact[v] # NoEmail
Onboarding(v) == {l \in Locations : stage[v][l] = "onboarding"}
UnderReview(v) == {l \in Locations : stage[v][l] = "under_review"}
Moved(v, ls, to) == [stage EXCEPT ![v] = [l \in Locations |-> IF l \in ls THEN to ELSE @[l]]]
Live(i) == invites[i].state = "live"
LiveLinks(v) == {i \in DOMAIN invites : invites[i].vendor = v /\ Live(i)}

Event == events < MaxEvents /\ events' = events + 1
Begin(r, state) ==
    /\ request[r].pc = "idle" /\ Event
    /\ request' = [request EXCEPT ![r] = state]
    /\ UNCHANGED failed
At(pc, v, e, ls, purpose) ==
    [pc |-> pc, vendor |-> v, email |-> e, at |-> ls, purpose |-> purpose, seen |-> 0, revokes |-> {}, link |-> 0]

-----------------------------------------------------------------------------
(* Operators *)

\* createVendorInvite looks for the address before its transaction.
StartCreate(r, v, e) ==
    /\ ~Exists(v) /\ \A s \in Requests : request[s].pc # "idle" => request[s].vendor # v
    /\ \A w \in Vendors : contact[w] # e
    /\ Begin(r, At("create", v, e, {}, "onboarding"))
    /\ UNCHANGED <<dataVars, invites, mailed, page>>

\* The transaction: the vendor, its first link, its locations and the mail.
Create(r) ==
    LET v == request[r].vendor IN
    /\ request[r].pc = "create"
    /\ Len(invites) < MaxInvites
    /\ contact' = [contact EXCEPT ![v] = request[r].email]
    /\ \E site \in Sites : stage' = Moved(v, site, "invited_pending")
    /\ invites' = Append(invites, [vendor |-> v, purpose |-> "onboarding", state |-> "live", seen |-> Len(invites)])
    /\ mailed' = [mailed EXCEPT ![v] = <<Len(invites) + 1>>]
    /\ request' = [request EXCEPT ![r] = NoRequest]
    /\ UNCHANGED <<complete, jobs, run, page, bounds>>

\* addVendorToLocations puts a vendor, whatever it has done so far, under review at
\* one more location ...
StartAdd(r, v, l) ==
    /\ Exists(v) /\ stage[v][l] = "none"
    /\ stage' = Moved(v, {l}, "under_review")
    /\ Begin(r, At("add", v, contact[v], {l}, "onboarding"))
    /\ UNCHANGED <<contact, complete, jobs, run, invites, mailed, page>>

\* ... and runs the rules over what has been extracted, if anything.
Add(r) ==
    /\ request[r].pc = "add"
    /\ run' = [run EXCEPT ![request[r].vendor] = TRUE]
    /\ request' = [request EXCEPT ![r] = NoRequest]
    /\ UNCHANGED <<contact, stage, complete, jobs, invites, mailed, page, bounds>>

\* resendInvite asks only for an address.
StartResend(r, v) ==
    /\ Exists(v)
    /\ Begin(r, At("issue", v, contact[v], {}, "onboarding"))
    /\ UNCHANGED <<dataVars, invites, mailed, page>>

\* request_correction reads the locations under review ...
StartCorrection(r, v) ==
    /\ Exists(v) /\ UnderReview(v) # {}
    /\ Begin(r, At("sweep", v, contact[v], UnderReview(v), "correction"))
    /\ UNCHANGED <<dataVars, invites, mailed, page>>

\* ... puts them back to onboarding, and may flag documents for replacement.
Sweep(r) ==
    LET v == request[r].vendor IN
    /\ request[r].pc = "sweep"
    /\ stage' = Moved(v, request[r].at, "onboarding")
    /\ \E flagged \in BOOLEAN : complete' = [complete EXCEPT ![v] = @ /\ ~flagged]
    /\ request' = [request EXCEPT ![r].pc = "issue"]
    /\ UNCHANGED <<contact, jobs, run, invites, mailed, page, bounds>>

\* issueInviteToken, first half: what its UPDATE will revoke.  The mutant has a
\* filter too many.
RevokeSeen_SamePurpose(r) ==
    LET q == request[r] IN
    /\ q.pc = "issue"
    /\ request' = [request EXCEPT ![r].pc = "commit", ![r].seen = Len(invites),
                                  ![r].revokes = {i \in LiveLinks(q.vendor) : invites[i].purpose = q.purpose}]
    /\ UNCHANGED <<dataVars, invites, mailed, page, bounds>>
RevokeSeen(r) ==
    /\ request[r].pc = "issue"
    /\ request' = [request EXCEPT ![r].pc = "commit", ![r].seen = Len(invites),
                                  ![r].revokes = LiveLinks(request[r].vendor)]
    /\ UNCHANGED <<dataVars, invites, mailed, page, bounds>>

\* issueInviteToken, second half.  The mutant inserts first, and revokes what it inserted.
CommitIssue_InsertFirst(r) ==
    LET q == request[r] IN
    /\ q.pc = "commit"
    /\ Len(invites) < MaxInvites
    /\ invites' = Append([i \in DOMAIN invites |-> IF i \in q.revokes THEN [invites[i] EXCEPT !.state = "revoked"] ELSE invites[i]],
                         [vendor |-> q.vendor, purpose |-> q.purpose, state |-> "revoked", seen |-> q.seen])
    /\ request' = [request EXCEPT ![r].pc = "mail", ![r].link = Len(invites) + 1]
    /\ UNCHANGED <<dataVars, mailed, page, bounds>>
CommitIssue(r) ==
    LET q == request[r] IN
    /\ q.pc = "commit"
    /\ Len(invites) < MaxInvites
    /\ invites' = Append([i \in DOMAIN invites |-> IF i \in q.revokes THEN [invites[i] EXCEPT !.state = "revoked"] ELSE invites[i]],
                         [vendor |-> q.vendor, purpose |-> q.purpose, state |-> "live", seen |-> q.seen])
    /\ request' = [request EXCEPT ![r].pc = "mail", ![r].link = Len(invites) + 1]
    /\ UNCHANGED <<dataVars, mailed, page, bounds>>

\* The mail is queued when the link is committed, in a statement of its own;
\* the mutant looks for the newest row instead of keeping the link it issued.
MailLink_LooksUp(r) ==
    LET q == request[r] IN
    /\ q.pc = "mail"
    /\ mailed' = [mailed EXCEPT ![q.vendor] = Append(@, Len(invites))]
    /\ request' = [request EXCEPT ![r] = NoRequest]
    /\ UNCHANGED <<dataVars, invites, page, bounds>>
MailLink(r) ==
    LET q == request[r] IN
    /\ q.pc = "mail"
    /\ mailed' = [mailed EXCEPT ![q.vendor] = Append(@, q.link)]
    /\ request' = [request EXCEPT ![r] = NoRequest]
    /\ UNCHANGED <<dataVars, invites, page, bounds>>

\* applyDecision, for one location; a reject is final and mails the administrators.
Decide(v, l, decision) ==
    /\ stage[v][l] = "under_review" /\ Event
    /\ stage' = Moved(v, {l}, decision)
    /\ UNCHANGED <<contact, complete, jobs, run, invites, mailed, request, page, failed>>
Approve(v, l) == Decide(v, l, "approved")
Decline(v, l) == Decide(v, l, "declined")

\* The flip when coverage lapses; it may come for a certificate that is not the last.
Lapse(v) ==
    /\ {l \in Locations : stage[v][l] \in {"approved", "under_review"}} # {}
    /\ stage' = Moved(v, {l \in Locations : stage[v][l] \in {"approved", "under_review"}}, "expired")
    /\ UNCHANGED <<contact, complete, jobs, run, invites, mailed, request, page, bounds>>

\* A rule change makes a run of an approved vendor; when it fails, every location flips.
RuleChange(v) ==
    /\ \E l \in Locations : stage[v][l] = "approved"
    /\ \/ stage' = Moved(v, {l \in Locations : stage[v][l] # "none"}, "non_compliant")
       \/ stage' = stage
    /\ run' = [run EXCEPT ![v] = TRUE]
    /\ UNCHANGED <<contact, complete, jobs, invites, mailed, request, page, bounds>>

-----------------------------------------------------------------------------
(* The vendor *)

\* The page validates the link and has read the vendor's locations.
Visit(v, i) ==
    /\ \E k \in DOMAIN mailed[v] : mailed[v][k] = i
    /\ Live(i)
    /\ page' = [page EXCEPT ![v] = [shows |-> "opening", link |-> i]]
    /\ UNCHANGED <<dataVars, invites, mailed, request, bounds>>

\* fireOnboardingStarted, when every location waits for it, then the landing gate: a
\* vendor with a verification run gets the confirmation, whatever the purpose of the
\* link and whatever started the run.  The mutant forgets the transition, as the page
\* once forgot its audit event.
Pending(v) ==
    LET ls == {l \in Locations : stage[v][l] # "none"} IN
    IF \A l \in ls : stage[v][l] = "invited_pending" THEN ls ELSE {}
Land_NoTransition(v) ==
    /\ page[v].shows = "opening"
    /\ page' = [page EXCEPT ![v].shows = IF run[v] THEN "received" ELSE "form"]
    /\ UNCHANGED <<dataVars, invites, mailed, request, bounds>>
Land(v) ==
    /\ page[v].shows = "opening"
    /\ stage' = Moved(v, Pending(v), "onboarding")
    /\ page' = [page EXCEPT ![v].shows = IF run[v] THEN "received" ELSE "form"]
    /\ UNCHANGED <<contact, complete, jobs, run, invites, mailed, request, bounds>>

\* The documents route: every call validates the link again.
Upload(v) ==
    /\ page[v].shows = "form" /\ Live(page[v].link)
    /\ ~complete[v]
    /\ complete' = [complete EXCEPT ![v] = TRUE]
    /\ UNCHANGED <<contact, stage, jobs, run, invites, mailed, request, page, bounds>>

\* The submit route: the locations that are onboarding, and only those, go under
\* review; with none it answers 409.
Submit(v) ==
    /\ page[v].shows = "form" /\ Live(page[v].link)
    /\ complete[v] /\ Onboarding(v) # {}
    /\ stage' = Moved(v, Onboarding(v), "under_review")
    /\ jobs' = [jobs EXCEPT ![v] = @ + 1]
    /\ page' = [page EXCEPT ![v].shows = "received"]
    /\ UNCHANGED <<contact, complete, run, invites, mailed, request, bounds>>

\* The verification worker ends a job, wherever the vendor is by then.
Verify(v) ==
    /\ jobs[v] > 0
    /\ jobs' = [jobs EXCEPT ![v] = @ - 1]
    /\ run' = [run EXCEPT ![v] = TRUE]
    /\ UNCHANGED <<contact, stage, complete, invites, mailed, request, page, bounds>>

\* The certificate had expired: no run, the document is void, what is under review
\* reopens, and the mail that says so has no link.
Bounce(v) ==
    /\ jobs[v] > 0
    /\ jobs' = [jobs EXCEPT ![v] = @ - 1]
    /\ complete' = [complete EXCEPT ![v] = FALSE]
    /\ stage' = Moved(v, UnderReview(v), "onboarding")
    /\ UNCHANGED <<contact, run, invites, mailed, request, page, bounds>>

-----------------------------------------------------------------------------

\* The 14 days of a link pass; what was revoked is dead already.
Expire(i) ==
    /\ Event /\ i \in DOMAIN invites /\ Live(i)
    /\ failed' = TRUE
    /\ invites' = [invites EXCEPT ![i].state = "expired"]
    /\ UNCHANGED <<dataVars, mailed, request, page>>

\* The server dies; a transaction that has not committed is rolled back.
Crash ==
    /\ Event /\ \E r \in Requests : request[r] # NoRequest
    /\ failed' = TRUE
    /\ request' = [r \in Requests |-> NoRequest]
    /\ UNCHANGED <<dataVars, invites, mailed, page>>

Step(r) == Create(r) \/ Add(r) \/ Sweep(r) \/ RevokeSeen(r) \/ CommitIssue(r) \/ MailLink(r)

Operator(r) ==
    \/ \E v \in Vendors : \/ \E e \in Emails : StartCreate(r, v, e)
                          \/ \E l \in Locations : StartAdd(r, v, l)
                          \/ StartResend(r, v) \/ StartCorrection(r, v)
    \/ Step(r)

Decision(v) == (\E l \in Locations : Approve(v, l) \/ Decline(v, l)) \/ Lapse(v) \/ RuleChange(v)

Portal(v) == (\E i \in Rows : Visit(v, i)) \/ Land(v) \/ Upload(v) \/ Submit(v)

Next ==
    \/ \E r \in Requests : Operator(r)
    \/ \E v \in Vendors : Portal(v) \/ Verify(v) \/ Bounce(v) \/ Decision(v)
    \/ \E i \in Rows : Expire(i)
    \/ Crash

Spec == Init /\ [][Next]_vars

\* Awaits settle, and the vendor opens the newest mail whose link works until it
\* has the form, and does what the form offers, however often it loads the page.
OpenMail(v) ==
    \E i \in Rows :
        /\ Visit(v, i) /\ i >= page[v].link /\ page[v] # [shows |-> "form", link |-> i]
        /\ \A k \in DOMAIN mailed[v] : Live(mailed[v][k]) => mailed[v][k] <= i
Fairness ==
    /\ \A r \in Requests : WF_vars(Step(r))
    /\ \A v \in Vendors :
         /\ WF_vars(OpenMail(v)) /\ WF_vars(Land(v))
         /\ SF_vars(Upload(v)) /\ SF_vars(Submit(v))
FairSpec == Spec /\ Fairness

-----------------------------------------------------------------------------
(* Properties *)

\* Whoever issues a link ends every link of that vendor, of any purpose, that was
\* committed when the revoking statement began (invite-token.ts:57-68): two links of
\* one vendor only live side by side when their issuing overlapped.
NewestLinkWins ==
    \A i, j \in DOMAIN invites :
        i < j /\ invites[i].vendor = invites[j].vendor /\ Live(i) /\ Live(j) => invites[j].seen < i

LastLink(v) == {i \in DOMAIN invites :
                  /\ invites[i].vendor = v
                  /\ \A j \in DOMAIN invites : invites[j].vendor = v => j <= i}

\* However creation, resends and corrections overlap, when they are through, none
\* has died and no link has expired, the vendor has been mailed a link that works: the
\* last one committed (invite-token.ts:57-80, resend-invite.ts:42-71, decision.ts:259-290).
\* It need not be the link of the newest mail.
VendorHasWorkingLink ==
    \A v \in Vendors :
        Exists(v) /\ ~failed
          /\ (\A r \in Requests : request[r] # NoRequest => request[r].vendor # v) =>
        \E i \in LastLink(v) : Live(i) /\ \E k \in DOMAIN mailed[v] : mailed[v][k] = i

\* A location that waits for its vendor, which does what its mails and the page ask,
\* comes under review, however resends and corrections revoke its links meanwhile and
\* whatever becomes of the vendor's other locations (vendor-token.ts:50-53,
\* vendor-onboarding.ts:35-39, submit/route.ts:51-81).  Excepted are a link that expires,
\* a request that dies, and a vendor with a run, of a job or of a location added
\* (add-to-locations.ts:82): the page tells it that all has been received (page.tsx:43).
InvitedIsReviewed ==
    \A v \in Vendors, l \in Locations :
        stage[v][l] \in {"invited_pending", "onboarding"}
          ~> stage[v][l] = "under_review" \/ run[v] \/ failed
=============================================================================
