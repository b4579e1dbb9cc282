-------------------------- MODULE VendorLinksProofs --------------------------
(***************************************************************************)
(* Type correctness of the links, that issuing a link ends the ones before *)
(* it, and that a vendor nobody is working on has been mailed a link that  *)
(* works, for every number of vendors, operator requests and links.  The   *)
(* three share one inductive invariant: what a request in progress knows   *)
(* of the table stays true while others insert and revoke.                 *)
(***************************************************************************)
EXTENDS VendorLinks, SequenceTheorems, TLAPS

-----------------------------------------------------------------------------
(* The rows of invites, as what the proofs use of them *)

Owner(i) == invites[i].vendor
Seen(i) == invites[i].seen
Busy(r) == request[r] # NoRequest

RowsOK ==
    /\ invites \in Seq(Invite) /\ Len(invites) <= MaxInvites
    /\ mailed \in [Vendors -> Seq(Rows)]
    /\ \A v \in Vendors : \A k \in DOMAIN mailed[v] :
         mailed[v][k] \in DOMAIN invites /\ Owner(mailed[v][k]) = v

OthersOK ==
    /\ contact \in [Vendors -> Emails \cup {NoEmail}]
    /\ stage \in [Vendors -> [Locations -> Stages]]
    /\ complete \in [Vendors -> BOOLEAN] /\ jobs \in [Vendors -> Nat] /\ run \in [Vendors -> BOOLEAN]
    /\ page \in [Vendors -> Page]
    /\ events \in 0..MaxEvents /\ failed \in BOOLEAN

RequestsOK == request \in [Requests -> Request \cup {NoRequest}]

\* What a request relies on: its vendor's row, that its snapshot still lists every
\* live link of the vendor there was, and the link it is about to mail.
Good(q) ==
    q # NoRequest =>
        /\ Exists(q.vendor) <=> q.pc # "create"
        /\ q.pc = "commit" =>
             /\ q.seen <= Len(invites)
             /\ \A i \in q.revokes : i \in DOMAIN invites /\ Owner(i) = q.vendor
             /\ \A i \in 1..q.seen : Owner(i) = q.vendor /\ Live(i) => i \in q.revokes
        /\ q.pc = "mail" => q.link \in DOMAIN invites /\ Owner(q.link) = q.vendor

RequestInv == \A r \in Requests : Good(request[r])

\* A vendor is created by one request, which nobody else knows of.
AloneInv ==
    \A r, s \in Requests :
        request[r].pc = "create" /\ Busy(s) /\ r # s => request[s].vendor # request[r].vendor

\* Before it exists a vendor has no link.
VendorInv ==
    \A v \in Vendors : ~Exists(v) => \A i \in DOMAIN invites : Owner(i) # v

Carried(v, i) ==
    \/ \E k \in DOMAIN mailed[v] : mailed[v][k] = i
    \/ \E r \in Requests : /\ Busy(r) /\ request[r].pc = "mail"
                           /\ request[r].vendor = v /\ request[r].link = i

\* The last link of a vendor works, and is in a mail or in the hands of the request
\* that will mail it, until a link expires or a request dies.
LastInv ==
    ~failed =>
        \A v \in Vendors : Exists(v) => \E i \in LastLink(v) : Live(i) /\ Carried(v, i)

TypeInv == RowsOK /\ OthersOK /\ RequestsOK
IInv == TypeInv /\ RequestInv /\ AloneInv /\ VendorInv /\ NewestLinkWins /\ LastInv

-----------------------------------------------------------------------------
(* What a step does to the rows *)

\* Rows are only added, and links only end.
Grows ==
    /\ Len(invites) <= Len(invites')
    /\ \A i \in DOMAIN invites :
         Owner(i)' = Owner(i) /\ Seen(i)' = Seen(i) /\ (Live(i)' => Live(i))

LEMMA RowTypes ==
  ASSUME TypeInv
  PROVE  /\ DOMAIN invites = 1..Len(invites) /\ Len(invites) \in Nat
         /\ Len(invites) <= MaxInvites
         /\ \A i \in DOMAIN invites : Owner(i) \in Vendors /\ Seen(i) \in 0..MaxInvites
<1>1. DOMAIN invites = 1..Len(invites) /\ Len(invites) \in Nat
  BY DEF TypeInv, RowsOK
<1>2. ASSUME NEW i \in DOMAIN invites PROVE invites[i] \in Invite
  BY <1>1 DEF TypeInv, RowsOK
<1>3. QED
  BY <1>1, <1>2 DEF TypeInv, RowsOK, Invite, Owner, Seen

LEMMA RequestTypes ==
  ASSUME TypeInv, NEW r \in Requests, request[r].pc # "idle"
  PROVE  /\ Busy(r) /\ request[r] \in Request /\ request[r].vendor \in Vendors
         /\ request[r].seen \in 0..MaxInvites /\ request[r].revokes \subseteq Rows
         /\ request[r].link \in 0..MaxInvites /\ request[r].email \in Emails /\ request[r].at \subseteq Locations
         /\ request[r].purpose \in Purposes
BY DEF TypeInv, RequestsOK, Request, NoRequest, Busy

LEMMA RequestIdle ==
  ASSUME TypeInv, NEW r \in Requests
  PROVE  Busy(r) <=> request[r].pc # "idle"
BY DEF TypeInv, RequestsOK, Request, NoRequest, Busy

LEMMA MovedType ==
  ASSUME OthersOK, NEW v \in Vendors, NEW ls, NEW to \in Stages, stage' = Moved(v, ls, to)
  PROVE  stage' \in [Vendors -> [Locations -> Stages]]
<1>1. [l \in Locations |-> IF l \in ls THEN to ELSE stage[v][l]] \in [Locations -> Stages]
  BY DEF OthersOK
<1>2. QED
  BY <1>1 DEF OthersOK, Moved

LEMMA EventType ==
  ASSUME OthersOK, Event
  PROVE  events' \in 0..MaxEvents
BY LinksAssumption DEF OthersOK, Event

\* A request that does not move keeps what it relies on while rows are added.
LEMMA GoodKept ==
  ASSUME TypeInv, Grows, NEW r \in Requests, Good(request[r]),
         request'[r] = request[r],
         Len(invites') \in Nat, DOMAIN invites' = 1..Len(invites'),
         Busy(r) => (Exists(request[r].vendor)' <=> Exists(request[r].vendor))
  PROVE  Good(request[r])'
<1>1. CASE ~Busy(r)
  BY <1>1 DEF Good, Busy
<1>2. CASE Busy(r)
  <2>1. request[r].pc # "idle"
    BY <1>2, RequestIdle
  <2>2. request[r].seen \in Nat /\ request[r].link \in Nat
    BY <2>1, RequestTypes, LinksAssumption
  <2>3. PICK q : q = request[r]
    OBVIOUS
  <2>4. Exists(q.vendor)' <=> Exists(q.vendor)
    BY <1>2, <2>3
  <2>5. Good(q)'
    BY <1>2, <2>2, <2>3, <2>4, RowTypes DEF Good, Grows, Busy
  <2>6. QED
    BY <2>3, <2>5 DEF Good
<1>3. QED
  BY <1>1, <1>2

LEMMA LinksInit == Init => IInv
<1> SUFFICES ASSUME Init PROVE IInv
  OBVIOUS
<1>1. RowsOK
  <2>1. <<>> \in Seq(Invite) /\ <<>> \in Seq(Rows) /\ Len(invites) = 0 /\ MaxInvites \in Nat
    BY LinksAssumption DEF Init
  <2>2. QED
    BY <2>1 DEF Init, RowsOK
<1>2. OthersOK
  <2>1. [l \in Locations |-> "none"] \in [Locations -> Stages] /\ 0 \in Nat /\ FALSE \in BOOLEAN
    BY DEF Stages
  <2>2. page \in [Vendors -> Page] /\ stage \in [Vendors -> [Locations -> Stages]]
    BY <2>1, LinksAssumption DEF Init, Page
  <2>3. events \in 0..MaxEvents
    BY LinksAssumption DEF Init
  <2>4. QED
    BY <2>1, <2>2, <2>3 DEF Init, OthersOK
<1>3. RequestsOK
  BY DEF Init, RequestsOK
<1>4. /\ \A r \in Requests : ~Busy(r) /\ request[r].pc = "idle"
      /\ \A v \in Vendors : ~Exists(v)
      /\ DOMAIN invites = {}
  BY DEF Init, NoRequest, Busy, Exists
<1>5. RequestInv /\ AloneInv
  BY <1>4 DEF RequestInv, AloneInv, Good, Busy
<1>6. VendorInv /\ NewestLinkWins /\ LastInv
  BY <1>4 DEF VendorInv, NewestLinkWins, LastInv
<1>7. QED
  BY <1>1, <1>2, <1>3, <1>5, <1>6 DEF IInv, TypeInv

-----------------------------------------------------------------------------
(* The vendor, the verification and what decides about the vendor *)

\* They leave the links and the requests alone.
Quiet ==
    UNCHANGED <<contact, invites, mailed, request, failed>>

LEMMA QuietKeeps ==
  ASSUME IInv, Quiet, OthersOK'
  PROVE  IInv'
<1>1. TypeInv'
  BY DEF IInv, TypeInv, RowsOK, RequestsOK, Quiet, Owner
<1>2. RequestInv'
  <2>1. ASSUME NEW r \in Requests PROVE Good(request[r])'
    <3>1. Busy(r) => request[r].vendor \in Vendors
      BY RequestIdle, RequestTypes DEF IInv
    <3>2. Good(request[r])
      BY DEF IInv, RequestInv
    <3>3. QED
      BY <3>1, <3>2 DEF Quiet, Good, Owner, Live, Busy, Exists
  <2>2. QED
    BY <2>1 DEF RequestInv
<1>3. AloneInv' /\ NewestLinkWins'
  BY DEF IInv, AloneInv, NewestLinkWins, Quiet, Busy, Live
<1>4. VendorInv'
  BY DEF IInv, VendorInv, Quiet, Owner, Exists
<1>5. LastInv'
  BY DEF IInv, LastInv, Quiet, LastLink, Live, Carried, Busy, Exists
<1>6. QED
  BY <1>1, <1>2, <1>3, <1>4, <1>5 DEF IInv

LEMMA PortalStep ==
  ASSUME IInv, NEW v \in Vendors, Portal(v) \/ Verify(v) \/ Bounce(v)
  PROVE  IInv'
<1> USE DEF dataVars, bounds, Quiet
<1>0. OthersOK /\ TypeInv /\ {"onboarding", "under_review"} \subseteq Stages
  BY DEF IInv, TypeInv, Stages
<1>1. ASSUME NEW i \in Rows, Visit(v, i) PROVE Quiet /\ OthersOK'
  <2>1. i \in 0..MaxInvites
    BY LinksAssumption DEF Rows
  <2>2. QED
    BY <1>0, <1>1, <2>1 DEF Visit, OthersOK, Page
<1>2. CASE Land(v)
  <2>1. page' \in [Vendors -> Page] /\ stage' \in [Vendors -> [Locations -> Stages]]
    BY <1>0, <1>2, MovedType DEF Land, OthersOK, Page
  <2>2. Quiet /\ OthersOK'
    BY <1>0, <1>2, <2>1 DEF Land, OthersOK
  <2>3. QED
    BY <2>2, QuietKeeps
<1>3. CASE Upload(v)
  BY <1>0, <1>3, QuietKeeps DEF Upload, OthersOK
<1>4. CASE Submit(v)
  <2>1. page' \in [Vendors -> Page]
    BY <1>0, <1>4 DEF Submit, OthersOK, Page
  <2>2. stage' \in [Vendors -> [Locations -> Stages]] /\ jobs' \in [Vendors -> Nat]
    BY <1>0, <1>4, MovedType DEF Submit, OthersOK
  <2>3. Quiet /\ OthersOK'
    BY <1>0, <1>4, <2>1, <2>2 DEF Submit, OthersOK
  <2>4. QED
    BY <2>3, QuietKeeps
<1>5. CASE Verify(v)
  <2>1. jobs' \in [Vendors -> Nat] /\ run' \in [Vendors -> BOOLEAN]
    BY <1>0, <1>5 DEF Verify, OthersOK
  <2>2. Quiet /\ OthersOK'
    BY <1>0, <1>5, <2>1 DEF Verify, OthersOK
  <2>3. QED
    BY <2>2, QuietKeeps
<1>6. CASE Bounce(v)
  <2>1. /\ stage' \in [Vendors -> [Locations -> Stages]]
        /\ complete' \in [Vendors -> BOOLEAN] /\ jobs' \in [Vendors -> Nat]
    BY <1>0, <1>6, MovedType DEF Bounce, OthersOK
  <2>2. Quiet /\ OthersOK'
    BY <1>0, <1>6, <2>1 DEF Bounce, OthersOK
  <2>3. QED
    BY <2>2, QuietKeeps
<1>7. QED
  BY <1>1, <1>2, <1>3, <1>4, <1>5, <1>6, QuietKeeps DEF Portal

LEMMA DecisionStep ==
  ASSUME IInv, NEW v \in Vendors, Decision(v)
  PROVE  IInv'
<1> USE DEF dataVars, bounds, Quiet
<1>0. OthersOK /\ {"approved", "declined", "expired", "non_compliant"} \subseteq Stages
  BY DEF IInv, TypeInv, Stages
<1>1. ASSUME NEW l \in Locations, NEW d \in {"approved", "declined"}, Decide(v, l, d)
      PROVE  Quiet /\ OthersOK'
  <2>1. events' \in 0..MaxEvents /\ stage' \in [Vendors -> [Locations -> Stages]]
    BY <1>0, <1>1, EventType, MovedType DEF Decide
  <2>2. QED
    BY <1>0, <1>1, <2>1 DEF Decide, OthersOK
<1>2. ASSUME Lapse(v) PROVE Quiet /\ OthersOK'
  <2>1. stage' \in [Vendors -> [Locations -> Stages]]
    BY <1>0, <1>2, MovedType DEF Lapse
  <2>2. QED
    BY <1>0, <1>2, <2>1 DEF Lapse, OthersOK
<1>3. ASSUME RuleChange(v) PROVE Quiet /\ OthersOK'
  <2>1. stage' \in [Vendors -> [Locations -> Stages]] /\ run' \in [Vendors -> BOOLEAN]
    BY <1>0, <1>3, MovedType DEF RuleChange, OthersOK
  <2>2. QED
    BY <1>0, <1>3, <2>1 DEF RuleChange, OthersOK
<1>4. QED
  BY <1>1, <1>2, <1>3, QuietKeeps DEF Decision, Approve, Decline

-----------------------------------------------------------------------------
(* The operators *)

LEMMA UnchangedGrows ==
  ASSUME TypeInv, UNCHANGED invites
  PROVE  Grows /\ Len(invites') \in Nat /\ DOMAIN invites' = 1..Len(invites')
BY RowTypes DEF Grows, Owner, Seen, Live

LEMMA StartKeeps ==
  ASSUME IInv, NEW r \in Requests, NEW v \in Vendors, NEW e \in Emails, NEW ls \in SUBSET Locations,
         NEW purpose \in Purposes, NEW pc \in {"create", "add", "sweep", "issue"},
         Begin(r, At(pc, v, e, ls, purpose)),
         UNCHANGED <<contact, complete, jobs, run, invites, mailed, page>>,
         stage' \in [Vendors -> [Locations -> Stages]],
         Exists(v) <=> pc # "create",
         pc = "create" => \A s \in Requests : request[s].pc # "idle" => request[s].vendor # v
  PROVE  IInv'
<1>0. PICK q : q = At(pc, v, e, ls, purpose)
  OBVIOUS
<1>1. /\ q.pc = pc /\ q.vendor = v /\ q \in Request /\ q # NoRequest
      /\ q.pc # "commit" /\ q.pc # "mail"
  BY <1>0, LinksAssumption DEF At, Request, NoRequest
<1>2. /\ request' = [request EXCEPT ![r] = q] /\ request[r].pc = "idle" /\ Event
      /\ UNCHANGED <<contact, complete, jobs, run, invites, mailed, page, failed>>
  BY <1>0 DEF Begin
<1>3. TypeInv /\ ~Busy(r) /\ request \in [Requests -> Request \cup {NoRequest}]
  BY <1>2, RequestIdle DEF IInv, TypeInv, RequestsOK
<1>4. RowsOK' /\ RequestsOK'
  BY <1>1, <1>2, <1>3 DEF TypeInv, RowsOK, RequestsOK, Owner
<1>5. OthersOK'
  <2>1. OthersOK /\ events' \in 0..MaxEvents
    BY <1>2, <1>3, EventType DEF TypeInv
  <2>2. QED
    BY <1>2, <2>1 DEF OthersOK
<1>6. ASSUME NEW s \in Requests PROVE Good(request[s])'
  <2>1. CASE s = r
    <3>1. Good(q)'
      BY <1>1, <1>2 DEF Good, Exists
    <3>2. QED
      BY <1>2, <1>3, <2>1, <3>1 DEF Good
  <2>2. CASE s # r
    <3>1. Good(request[s]) /\ request'[s] = request[s]
      BY <1>2, <1>3, <2>2 DEF IInv, RequestInv
    <3>2. QED
      BY <1>2, <1>3, <3>1, GoodKept, UnchangedGrows DEF Exists
  <2>3. QED
    BY <2>1, <2>2
<1>7. AloneInv'
  <2>1. ASSUME NEW a \in Requests, NEW b \in Requests,
               request'[a].pc = "create", Busy(b)', a # b
        PROVE  request'[b].vendor # request'[a].vendor
    <3>1. CASE a = r
      <4>1. request'[b] = request[b] /\ Busy(b) /\ request'[a] = q
        BY <1>2, <1>3, <2>1, <3>1 DEF Busy
      <4>2. QED
        BY <1>1, <1>3, <2>1, <3>1, <4>1, RequestIdle
    <3>2. CASE b = r
      <4>1. request'[a] = request[a] /\ request[a].pc = "create" /\ request'[b] = q
        BY <1>2, <1>3, <2>1, <3>2
      <4>2. Good(request[a]) /\ Busy(a)
        BY <1>3, <4>1, RequestTypes DEF IInv, RequestInv
      <4>3. ~Exists(request[a].vendor)
        BY <4>1, <4>2 DEF Good, Busy
      <4>4. CASE pc = "create"
        BY <1>1, <1>3, <4>1, <4>4
      <4>5. QED
        BY <1>1, <4>1, <4>3, <4>4
    <3>3. CASE a # r /\ b # r
      BY <1>2, <1>3, <2>1, <3>3 DEF IInv, AloneInv, Busy
    <3>4. QED
      BY <3>1, <3>2, <3>3
  <2>2. QED
    BY <2>1 DEF AloneInv
<1>8. VendorInv' /\ NewestLinkWins'
  BY <1>2 DEF IInv, VendorInv, NewestLinkWins, Exists, Owner, Live
<1>9. LastInv'
  <2>1. ASSUME NEW w \in Vendors, NEW i, Carried(w, i) PROVE Carried(w, i)'
    BY <1>2, <1>3, <2>1 DEF Carried, Busy
  <2>2. QED
    BY <1>2, <2>1 DEF IInv, LastInv, LastLink, Live, Exists
<1>10. QED
  BY <1>4, <1>5, <1>6, <1>7, <1>8, <1>9 DEF IInv, TypeInv, RequestInv

\* A request that moves on, or ends, is of nobody else's vendor still.
LEMMA AloneKept ==
  ASSUME TypeInv, AloneInv, NEW r \in Requests, Busy(r), NEW q,
         request' = [request EXCEPT ![r] = q],
         q.pc # "create", q # NoRequest => q.vendor = request[r].vendor
  PROVE  AloneInv'
<1>1. ASSUME NEW a \in Requests, NEW b \in Requests,
             request'[a].pc = "create", Busy(b)', a # b
      PROVE  request'[b].vendor # request'[a].vendor
  <2>1. a # r /\ request'[a] = request[a]
    BY <1>1 DEF TypeInv, RequestsOK
  <2>2. CASE b = r
    BY <1>1, <2>1, <2>2 DEF TypeInv, RequestsOK, AloneInv, Busy
  <2>3. CASE b # r
    BY <1>1, <2>1, <2>3 DEF TypeInv, RequestsOK, AloneInv, Busy
  <2>4. QED
    BY <2>2, <2>3
<1>2. QED
  BY <1>1 DEF AloneInv

LEMMA CarriedKept ==
  ASSUME TypeInv, NEW r \in Requests, request[r].pc # "mail", NEW q,
         request' = [request EXCEPT ![r] = q], UNCHANGED mailed,
         NEW v \in Vendors, NEW i, Carried(v, i)
  PROVE  Carried(v, i)'
BY DEF TypeInv, RequestsOK, Carried, Busy

\* The requests that do not move, while no vendor comes or goes.
LEMMA BystanderKept ==
  ASSUME IInv, Grows, Len(invites') \in Nat, DOMAIN invites' = 1..Len(invites'),
         UNCHANGED contact, NEW s \in Requests, request'[s] = request[s]
  PROVE  Good(request[s])'
<1>1. TypeInv /\ Good(request[s])
  BY DEF IInv, RequestInv
<1>2. Exists(request[s].vendor)' <=> Exists(request[s].vendor)
  BY DEF Exists
<1>3. QED
  BY <1>1, <1>2, GoodKept

\* A request moves on, or ends, and leaves the links and the mails alone.
LEMMA MovesOn ==
  ASSUME IInv, NEW r \in Requests, Busy(r), request[r].pc # "mail",
         NEW q \in Request \cup {NoRequest}, request' = [request EXCEPT ![r] = q],
         q.pc # "create", q # NoRequest => q.vendor = request[r].vendor, Good(q)',
         UNCHANGED <<contact, invites, mailed, failed>>, OthersOK'
  PROVE  IInv'
<1>1. TypeInv
  BY DEF IInv
<1>2. RowsOK' /\ RequestsOK'
  BY <1>1 DEF TypeInv, RowsOK, RequestsOK, Owner
<1>3. ASSUME NEW s \in Requests PROVE Good(request[s])'
  <2>1. CASE s = r
    BY <1>1, <2>1 DEF Good, TypeInv, RequestsOK
  <2>2. CASE s # r
    BY <1>1, <2>2, BystanderKept, UnchangedGrows DEF TypeInv, RequestsOK
  <2>3. QED
    BY <2>1, <2>2
<1>4. AloneInv'
  BY <1>1, AloneKept DEF IInv
<1>5. VendorInv' /\ NewestLinkWins'
  BY DEF IInv, VendorInv, NewestLinkWins, Owner, Live, Exists
<1>6. LastInv'
  <2>1. ASSUME NEW w \in Vendors, NEW i, Carried(w, i) PROVE Carried(w, i)'
    BY <1>1, <2>1, CarriedKept
  <2>2. QED
    BY <2>1 DEF IInv, LastInv, LastLink, Live, Exists
<1>7. QED
  BY <1>2, <1>3, <1>4, <1>5, <1>6 DEF IInv, TypeInv, RequestInv

LEMMA AddKeeps ==
  ASSUME IInv, NEW r \in Requests, Add(r)
  PROVE  IInv'
<1>1. TypeInv /\ Busy(r) /\ request[r].pc = "add"
  BY RequestTypes DEF IInv, Add
<1>2. Good(NoRequest)' /\ NoRequest.pc # "create"
  BY DEF Good, NoRequest
<1>3. OthersOK'
  BY <1>1 DEF TypeInv, OthersOK, Add, bounds
<1>4. QED
  BY <1>1, <1>2, <1>3, MovesOn DEF Add, bounds

LEMMA SweepKeeps ==
  ASSUME IInv, NEW r \in Requests, Sweep(r)
  PROVE  IInv'
<1>1. PICK v \in Vendors : v = request[r].vendor
  BY RequestTypes DEF Sweep, IInv
<1>2. PICK q : q = [request[r] EXCEPT !.pc = "issue"]
  OBVIOUS
<1>3. /\ request' = [request EXCEPT ![r] = q] /\ request[r].pc = "sweep"
      /\ stage' = Moved(v, request[r].at, "onboarding")
      /\ UNCHANGED <<contact, jobs, run, invites, mailed, page, events, failed>>
  BY <1>1, <1>2 DEF Sweep, bounds
<1>4. TypeInv /\ Busy(r) /\ request[r] \in Request
  BY <1>3, RequestTypes DEF IInv
<1>5. q \in Request /\ q.pc = "issue" /\ q.vendor = v /\ q # NoRequest
  BY <1>1, <1>2, <1>4 DEF Request, NoRequest
<1>6. OthersOK'
  <2>1. complete' \in [Vendors -> BOOLEAN]
    BY <1>1, <1>4 DEF Sweep, TypeInv, OthersOK
  <2>2. stage' \in [Vendors -> [Locations -> Stages]]
    BY <1>3, <1>4, MovedType DEF TypeInv, Stages
  <2>3. QED
    BY <1>3, <1>4, <2>1, <2>2 DEF TypeInv, OthersOK
<1>7. Exists(v)'
  BY <1>1, <1>3, <1>4 DEF IInv, RequestInv, Good, Busy, Exists
<1>8. Good(q)'
  BY <1>5, <1>7 DEF Good
<1>9. QED
  BY <1>1, <1>3, <1>4, <1>5, <1>6, <1>8, MovesOn

LEMMA RevokeSeenKeeps ==
  ASSUME IInv, NEW r \in Requests, RevokeSeen(r)
  PROVE  IInv'
<1>1. PICK v \in Vendors : v = request[r].vendor
  BY RequestTypes DEF RevokeSeen, IInv
<1>2. PICK q : q = [request[r] EXCEPT !.pc = "commit", !.seen = Len(invites), !.revokes = LiveLinks(v)]
  OBVIOUS
<1>3. TypeInv /\ Busy(r) /\ request[r] \in Request /\ request[r].pc = "issue"
  BY RequestTypes DEF IInv, RevokeSeen
<1>4. request' = [request EXCEPT ![r] = q]
  BY <1>1, <1>2, <1>3 DEF RevokeSeen, TypeInv, RequestsOK
<1>5. UNCHANGED <<contact, stage, complete, jobs, run, invites, mailed, page, events, failed>>
  BY DEF RevokeSeen, dataVars, bounds
<1>6. LiveLinks(v) \in SUBSET Rows /\ Len(invites) \in 0..MaxInvites
  BY <1>3, RowTypes, LinksAssumption DEF LiveLinks, Rows
<1>7. /\ q \in Request /\ q # NoRequest /\ q.vendor = v /\ q.pc = "commit"
      /\ q.seen = Len(invites) /\ q.revokes = LiveLinks(v)
  BY <1>1, <1>2, <1>3, <1>6 DEF Request, NoRequest
<1>8. OthersOK'
  BY <1>3, <1>5 DEF TypeInv, OthersOK
<1>9. Good(q)'
  <2>1. Exists(v)'
    BY <1>1, <1>3, <1>5 DEF IInv, RequestInv, Good, Busy, Exists
  <2>2. QED
    BY <1>3, <1>5, <1>7, <2>1, RowTypes DEF Good, LiveLinks, Live, Owner
<1>10. QED
  BY <1>1, <1>3, <1>4, <1>5, <1>7, <1>8, <1>9, MovesOn

LEMMA MailLinkKeeps ==
  ASSUME IInv, NEW r \in Requests, MailLink(r)
  PROVE  IInv'
<1>1. PICK v \in Vendors : v = request[r].vendor
  BY RequestTypes DEF MailLink, IInv
<1>2. TypeInv /\ Busy(r) /\ request[r] \in Request /\ request[r].pc = "mail"
  BY RequestTypes DEF IInv, MailLink
<1>3. PICK i \in DOMAIN invites : i = request[r].link /\ Owner(i) = v /\ i \in Rows
  BY <1>1, <1>2, RowTypes, LinksAssumption DEF IInv, RequestInv, Good, Busy, Rows
<1>4. /\ mailed' = [mailed EXCEPT ![v] = Append(mailed[v], i)]
      /\ request' = [request EXCEPT ![r] = NoRequest]
      /\ UNCHANGED <<contact, stage, complete, jobs, run, invites, page, events, failed>>
  BY <1>1, <1>2, <1>3 DEF MailLink, dataVars, bounds
<1>5. /\ mailed[v] \in Seq(Rows) /\ Append(mailed[v], i) \in Seq(Rows)
      /\ DOMAIN Append(mailed[v], i) = 1..(Len(mailed[v]) + 1)
      /\ DOMAIN mailed[v] = 1..Len(mailed[v]) /\ Len(mailed[v]) \in Nat
      /\ \A k \in DOMAIN mailed[v] : Append(mailed[v], i)[k] = mailed[v][k]
      /\ Append(mailed[v], i)[Len(mailed[v]) + 1] = i
  <2>1. mailed[v] \in Seq(Rows)
    BY <1>2 DEF TypeInv, RowsOK
  <2>2. QED
    BY <1>3, <2>1
<1>6. RowsOK'
  <2>1. mailed' \in [Vendors -> Seq(Rows)]
    BY <1>2, <1>4, <1>5 DEF TypeInv, RowsOK
  <2>2. ASSUME NEW w \in Vendors, NEW k \in DOMAIN mailed'[w]
        PROVE  mailed'[w][k] \in DOMAIN invites' /\ invites'[mailed'[w][k]].vendor = w
    <3>1. CASE w = v
      <4>1. mailed'[w] = Append(mailed[v], i)
        BY <1>2, <1>4, <3>1 DEF TypeInv, RowsOK
      <4>2. CASE k = Len(mailed[v]) + 1
        BY <1>3, <1>4, <1>5, <3>1, <4>1, <4>2 DEF Owner
      <4>3. CASE k # Len(mailed[v]) + 1
        <5>1. k \in DOMAIN mailed[v] /\ mailed'[w][k] = mailed[v][k]
          BY <1>5, <4>1, <4>3
        <5>2. QED
          BY <1>2, <1>4, <3>1, <5>1 DEF TypeInv, RowsOK, Owner
      <4>4. QED
        BY <4>2, <4>3
    <3>2. CASE w # v
      BY <1>2, <1>4, <3>2 DEF TypeInv, RowsOK, Owner
    <3>3. QED
      BY <3>1, <3>2
  <2>3. QED
    BY <1>2, <1>4, <2>1, <2>2 DEF TypeInv, RowsOK, Owner
<1>7. RequestsOK' /\ OthersOK'
  BY <1>2, <1>4 DEF TypeInv, RequestsOK, OthersOK
<1>8. ASSUME NEW s \in Requests PROVE Good(request[s])'
  <2>1. CASE s = r
    BY <1>2, <1>4, <2>1 DEF Good, TypeInv, RequestsOK
  <2>2. CASE s # r
    BY <1>2, <1>4, <2>2, BystanderKept, UnchangedGrows DEF TypeInv, RequestsOK
  <2>3. QED
    BY <2>1, <2>2
<1>9. AloneInv'
  <2>1. NoRequest.pc # "create"
    BY DEF NoRequest
  <2>2. QED
    BY <1>2, <1>4, <2>1, AloneKept DEF IInv
<1>10. VendorInv' /\ NewestLinkWins'
  BY <1>4 DEF IInv, VendorInv, NewestLinkWins, Owner, Live, Exists
<1>11. LastInv'
  <2>1. ASSUME NEW w \in Vendors, NEW j, Carried(w, j) PROVE Carried(w, j)'
    <3>1. CASE \E k \in DOMAIN mailed[w] : mailed[w][k] = j
      <4>1. \A k \in DOMAIN mailed[w] : k \in DOMAIN mailed'[w] /\ mailed'[w][k] = mailed[w][k]
        BY <1>2, <1>4, <1>5 DEF TypeInv, RowsOK
      <4>2. QED
        BY <3>1, <4>1 DEF Carried
    <3>2. CASE ~\E k \in DOMAIN mailed[w] : mailed[w][k] = j
      <4>1. PICK t \in Requests : /\ Busy(t) /\ request[t].pc = "mail"
                                  /\ request[t].vendor = w /\ request[t].link = j
        BY <2>1, <3>2 DEF Carried
      <4>2. CASE t = r
        <5>1. w = v /\ j = i /\ mailed'[w] = Append(mailed[v], i)
          BY <1>1, <1>2, <1>3, <1>4, <4>1, <4>2 DEF TypeInv, RowsOK
        <5>2. QED
          BY <1>5, <5>1 DEF Carried
      <4>3. CASE t # r
        BY <1>2, <1>4, <4>1, <4>3 DEF Carried, Busy, TypeInv, RequestsOK
      <4>4. QED
        BY <4>2, <4>3
    <3>3. QED
      BY <3>1, <3>2
  <2>2. QED
    BY <1>4, <2>1 DEF IInv, LastInv, LastLink, Live, Exists
<1>12. QED
  BY <1>6, <1>7, <1>8, <1>9, <1>10, <1>11 DEF IInv, TypeInv, RequestInv

\* One row more, while those of R are revoked.
Inserts(x, R) ==
    /\ Len(invites) < MaxInvites /\ x \in Invite
    /\ invites' = Append([i \in DOMAIN invites |->
                            IF i \in R THEN [invites[i] EXCEPT !.state = "revoked"] ELSE invites[i]], x)

LEMMA InsertsRows ==
  ASSUME TypeInv, NEW x, NEW R, Inserts(x, R)
  PROVE  /\ invites' \in Seq(Invite) /\ Grows
         /\ Len(invites') = Len(invites) + 1 /\ Len(invites') <= MaxInvites
         /\ Len(invites') \in Nat /\ DOMAIN invites' = 1..Len(invites')
         /\ invites'[Len(invites) + 1] = x
         /\ \A i \in DOMAIN invites :
              /\ invites'[i].vendor = Owner(i) /\ invites'[i].seen = Seen(i)
              /\ invites'[i].state = "live" <=> Live(i) /\ i \notin R
<1> DEFINE f == [i \in DOMAIN invites |->
                   IF i \in R THEN [invites[i] EXCEPT !.state = "revoked"] ELSE invites[i]]
<1>1. /\ Len(invites) \in Nat /\ DOMAIN invites = 1..Len(invites)
      /\ \A i \in DOMAIN invites : invites[i] \in Invite
  BY RowTypes DEF TypeInv, RowsOK
<1>2. \A i \in DOMAIN invites :
         /\ f[i] \in Invite /\ f[i].vendor = Owner(i) /\ f[i].seen = Seen(i)
         /\ f[i].state = "live" <=> Live(i) /\ i \notin R
  BY <1>1 DEF Invite, Owner, Seen, Live
<1>3. f \in Seq(Invite) /\ Len(f) = Len(invites)
  <2>1. DOMAIN f = 1..Len(invites)
    BY <1>1
  <2>2. \A i \in 1..Len(invites) : f[i] \in Invite
    BY <1>1, <1>2
  <2> HIDE DEF f
  <2>3. f \in [1..Len(invites) -> Invite]
    <3>1. f = [i \in DOMAIN f |-> f[i]]
      BY DEF f
    <3>2. QED
      BY <2>1, <2>2, <3>1
  <2>4. QED
    BY <1>1, <2>3
<1>4. invites' = Append(f, x) /\ x \in Invite /\ Len(invites) < MaxInvites
  BY DEF Inserts
<1> HIDE DEF f
<1>5. /\ invites' \in Seq(Invite) /\ Len(invites') = Len(invites) + 1
      /\ invites'[Len(invites) + 1] = x
      /\ \A i \in 1..Len(invites) : invites'[i] = f[i]
  BY <1>3, <1>4
<1>6. Len(invites') <= MaxInvites /\ Len(invites') \in Nat /\ DOMAIN invites' = 1..Len(invites')
  BY <1>1, <1>4, <1>5, LinksAssumption
<1>7. Grows
  BY <1>1, <1>2, <1>5 DEF Grows, Owner, Seen, Live
<1>8. QED
  BY <1>1, <1>2, <1>5, <1>6, <1>7

\* A row that was issued from a snapshot, and revoked what it saw there.
LEMMA InsertKeepsNewest ==
  ASSUME TypeInv, NewestLinkWins, NEW x, NEW R, Inserts(x, R), x.seen <= Len(invites),
         \A i \in 1..x.seen : Owner(i) = x.vendor /\ Live(i) => i \in R
  PROVE  NewestLinkWins'
<1>1. /\ Len(invites) \in Nat /\ DOMAIN invites = 1..Len(invites)
      /\ x.seen \in Nat /\ \A i \in DOMAIN invites : Seen(i) \in Nat
  BY RowTypes, LinksAssumption DEF Inserts, Invite
<1>2. ASSUME NEW i \in DOMAIN invites', NEW j \in DOMAIN invites', i < j,
             invites'[i].vendor = invites'[j].vendor,
             invites'[i].state = "live", invites'[j].state = "live"
      PROVE  invites'[j].seen < i
  <2>0. /\ DOMAIN invites' = 1..(Len(invites) + 1) /\ invites'[Len(invites) + 1] = x
        /\ \A k \in 1..Len(invites) :
             /\ invites'[k].vendor = Owner(k) /\ invites'[k].seen = Seen(k)
             /\ invites'[k].state = "live" => Live(k) /\ k \notin R
    BY <1>1, InsertsRows
  <2>1. i \in 1..Len(invites) /\ i \in Nat /\ j \in Nat
    BY <1>1, <1>2, <2>0
  <2>9. Live(i) /\ i \notin R /\ invites'[i].vendor = Owner(i)
    BY <1>2, <2>0, <2>1
  <2>2. CASE j = Len(invites) + 1
    <3>1. i \notin 1..x.seen
      BY <1>2, <2>0, <2>1, <2>9, <2>2
    <3>2. QED
      BY <1>1, <2>0, <2>1, <2>2, <3>1
  <2>3. CASE j # Len(invites) + 1
    <3>1. j \in 1..Len(invites)
      BY <1>1, <1>2, <2>0, <2>3
    <3>9. Live(j) /\ Owner(j) = Owner(i) /\ invites'[j].seen = Seen(j)
      BY <1>2, <2>0, <2>9, <3>1
    <3>2. QED
      BY <1>1, <1>2, <2>1, <2>9, <3>1, <3>9 DEF NewestLinkWins, Owner, Seen
  <2>4. QED
    BY <2>2, <2>3
<1>3. QED
  BY <1>2 DEF NewestLinkWins, Live

LEMMA CommitIssueKeeps ==
  ASSUME IInv, NEW r \in Requests, CommitIssue(r)
  PROVE  IInv'
<1>1. PICK v \in Vendors : v = request[r].vendor
  BY RequestTypes DEF CommitIssue, IInv
<1>2. PICK n : n = Len(invites) + 1
  OBVIOUS
<1>3. PICK x : x = [vendor |-> v, purpose |-> request[r].purpose, state |-> "live", seen |-> request[r].seen]
  OBVIOUS
<1>4. PICK R : R = request[r].revokes
  OBVIOUS
<1>5. PICK q : q = [request[r] EXCEPT !.pc = "mail", !.link = n]
  OBVIOUS
<1>6. TypeInv /\ Busy(r) /\ request[r] \in Request /\ request[r].pc = "commit"
  BY RequestTypes DEF IInv, CommitIssue
<1>7. request' = [request EXCEPT ![r] = q]
  BY <1>2, <1>5, <1>6 DEF CommitIssue, TypeInv, RequestsOK
<1>8. UNCHANGED <<contact, stage, complete, jobs, run, mailed, page, events, failed>>
  BY DEF CommitIssue, dataVars, bounds
<1>9. Inserts(x, R)
  <2>1. x \in Invite
    BY <1>3, <1>6, RequestTypes DEF Invite
  <2>2. QED
    BY <1>1, <1>3, <1>4, <2>1 DEF Inserts, CommitIssue
<1>10. /\ Good(request[r]) /\ x.seen = request[r].seen /\ x.vendor = v
       /\ x.seen <= Len(invites)
       /\ \A i \in R : i \in DOMAIN invites /\ Owner(i) = v
       /\ \A i \in 1..x.seen : Owner(i) = v /\ Live(i) => i \in R
  <2>1. Good(request[r])
    BY DEF IInv, RequestInv
  <2>2. QED
    BY <1>1, <1>3, <1>4, <1>6, <2>1 DEF Good, Busy
<1>11. /\ Len(invites) \in Nat /\ DOMAIN invites = 1..Len(invites)
       /\ Grows /\ Len(invites') = n /\ n \in 1..MaxInvites /\ n \in Nat
       /\ DOMAIN invites' = 1..n /\ invites'[n] = x /\ invites' \in Seq(Invite)
       /\ \A i \in DOMAIN invites :
            invites'[i].vendor = Owner(i) /\ (invites'[i].state = "live" <=> Live(i) /\ i \notin R)
  <2>1. /\ Len(invites) \in Nat /\ DOMAIN invites = 1..Len(invites) /\ Len(invites) < MaxInvites
    BY <1>6, <1>9, RowTypes DEF Inserts
  <2>2. n \in 1..MaxInvites /\ n \in Nat
    BY <1>2, <2>1, LinksAssumption
  <2>3. QED
    BY <1>2, <1>6, <1>9, <2>1, <2>2, InsertsRows
<1>12. /\ q \in Request /\ q # NoRequest /\ q.vendor = v /\ q.pc = "mail" /\ q.link = n
  <2>1. n \in 0..MaxInvites
    BY <1>11, LinksAssumption
  <2>2. QED
    BY <1>1, <1>5, <1>6, <2>1 DEF Request, NoRequest
<1>13. RowsOK' /\ RequestsOK' /\ OthersOK'
  <2>1. RequestsOK' /\ OthersOK'
    BY <1>6, <1>7, <1>8, <1>12 DEF TypeInv, RequestsOK, OthersOK
  <2>2. ASSUME NEW w \in Vendors, NEW k \in DOMAIN mailed[w]
        PROVE  mailed[w][k] \in DOMAIN invites' /\ invites'[mailed[w][k]].vendor = w
    <3>1. mailed[w][k] \in DOMAIN invites /\ Owner(mailed[w][k]) = w
      BY <1>6 DEF TypeInv, RowsOK
    <3>2. QED
      BY <1>2, <1>11, <3>1
  <2>3. RowsOK'
    BY <1>6, <1>8, <1>11, <2>2, LinksAssumption DEF TypeInv, RowsOK, Owner
  <2>4. QED
    BY <2>1, <2>3
<1>14. ASSUME NEW s \in Requests PROVE Good(request[s])'
  <2>1. CASE s = r
    <3>1. Exists(v)'
      BY <1>1, <1>6, <1>8, <1>10 DEF Good, Busy, Exists
    <3>2. Good(q)'
      BY <1>3, <1>11, <1>12, <3>1 DEF Good, Owner
    <3>3. QED
      BY <1>6, <1>7, <2>1, <3>2 DEF Good, TypeInv, RequestsOK
  <2>2. CASE s # r
    BY <1>6, <1>7, <1>8, <1>11, <2>2, BystanderKept DEF TypeInv, RequestsOK
  <2>3. QED
    BY <2>1, <2>2
<1>15. AloneInv'
  BY <1>1, <1>6, <1>7, <1>12, AloneKept DEF IInv
<1>16. VendorInv'
  <2>1. ASSUME NEW w \in Vendors, ~Exists(w)'
        PROVE  \A i \in DOMAIN invites' : invites'[i].vendor # w
    <3>1. ~Exists(w) /\ w # v
      BY <1>1, <1>6, <1>8, <1>10, <2>1 DEF Good, Busy, Exists
    <3>2. QED
      BY <1>2, <1>8, <1>10, <1>11, <3>1 DEF IInv, VendorInv
  <2>2. QED
    BY <2>1 DEF VendorInv, Owner
<1>17. NewestLinkWins'
  BY <1>6, <1>9, <1>10, InsertKeepsNewest DEF IInv
<1>18. LastInv'
  <2>1. SUFFICES ASSUME ~failed', NEW w \in Vendors, Exists(w)'
                 PROVE  \E i \in LastLink(w)' : Live(i)' /\ Carried(w, i)'
    BY DEF LastInv
  <2>2. CASE w = v
    <3>1. n \in LastLink(w)'
      BY <1>10, <1>11, <2>2 DEF LastLink
    <3>2. Live(n)' /\ Carried(w, n)'
      BY <1>3, <1>6, <1>7, <1>11, <1>12, <2>2 DEF Live, Carried, Busy, TypeInv, RequestsOK
    <3>3. QED
      BY <3>1, <3>2
  <2>3. CASE w # v
    <3>1. PICK i \in LastLink(w) : Live(i) /\ Carried(w, i)
      BY <1>8, <2>1 DEF IInv, LastInv, Exists
    <3>2. i \in DOMAIN invites /\ Owner(i) = w /\ i \notin R
      BY <1>10, <2>3, <3>1 DEF LastLink, Owner
    <3>3. i \in LastLink(w)'
      BY <1>2, <1>10, <1>11, <2>3, <3>1, <3>2 DEF LastLink, Owner
    <3>4. Live(i)' /\ Carried(w, i)'
      BY <1>6, <1>7, <1>8, <1>11, <3>1, <3>2, CarriedKept DEF Live
    <3>5. QED
      BY <3>3, <3>4
  <2>4. QED
    BY <2>2, <2>3
<1>19. QED
  BY <1>13, <1>14, <1>15, <1>16, <1>17, <1>18 DEF IInv, TypeInv, RequestInv

LEMMA CreateKeeps ==
  ASSUME IInv, NEW r \in Requests, Create(r)
  PROVE  IInv'
<1>1. PICK v \in Vendors : v = request[r].vendor
  BY RequestTypes DEF Create, IInv
<1>2. PICK n : n = Len(invites) + 1
  OBVIOUS
<1>3. PICK x : x = [vendor |-> v, purpose |-> "onboarding", state |-> "live", seen |-> Len(invites)]
  OBVIOUS
<1>4. TypeInv /\ Busy(r) /\ request[r].pc = "create" /\ request[r].email \in Emails
  BY RequestTypes DEF IInv, Create
<1>5. /\ contact' = [contact EXCEPT ![v] = request[r].email]
      /\ \E site \in Sites : stage' = Moved(v, site, "invited_pending")
      /\ mailed' = [mailed EXCEPT ![v] = <<n>>]
      /\ request' = [request EXCEPT ![r] = NoRequest]
      /\ UNCHANGED <<complete, jobs, run, page, events, failed>>
  BY <1>1, <1>2 DEF Create, bounds
<1>6. Len(invites) \in Nat /\ DOMAIN invites = 1..Len(invites) /\ Len(invites) < MaxInvites
  BY <1>4, RowTypes DEF Create
<1>7. x \in Invite /\ x.vendor = v /\ x.seen = Len(invites) /\ x.state = "live"
  BY <1>3, <1>6, LinksAssumption DEF Invite, Purposes
<1>8. Inserts(x, {})
  <2>1. invites = [i \in DOMAIN invites |->
                     IF i \in {} THEN [invites[i] EXCEPT !.state = "revoked"] ELSE invites[i]]
    BY <1>4 DEF TypeInv, RowsOK
  <2>2. invites' = Append(invites, x)
    BY <1>1, <1>3 DEF Create
  <2>3. QED
    BY <1>6, <1>7, <2>1, <2>2 DEF Inserts
<1>9. ~Exists(v) /\ \A i \in DOMAIN invites : Owner(i) # v
  <2>1. Good(request[r])
    BY DEF IInv, RequestInv
  <2>2. ~Exists(v)
    BY <1>1, <1>4, <2>1 DEF Good, Busy
  <2>3. QED
    BY <2>2 DEF IInv, VendorInv
<1>10. /\ n \in Rows /\ n \in Nat /\ n \in 1..n /\ <<n>> \in Seq(Rows) /\ DOMAIN <<n>> = {1} /\ <<n>>[1] = n
  BY <1>2, <1>6, LinksAssumption DEF Rows
<1>11. /\ Grows /\ Len(invites') = n /\ DOMAIN invites' = 1..n /\ invites'[n] = x
       /\ invites' \in Seq(Invite) /\ Len(invites') <= MaxInvites
       /\ \A i \in DOMAIN invites :
            invites'[i].vendor = Owner(i) /\ (invites'[i].state = "live" <=> Live(i))
  BY <1>2, <1>4, <1>8, InsertsRows
<1>12. \A w \in Vendors : (Exists(w)' <=> Exists(w) \/ w = v) /\ (w # v => mailed'[w] = mailed[w])
  BY <1>4, <1>5, LinksAssumption DEF Exists, TypeInv, OthersOK, RowsOK
<1>13. RequestsOK' /\ OthersOK'
  <2>1. stage' \in [Vendors -> [Locations -> Stages]]
    BY <1>4, <1>5, MovedType DEF TypeInv, Stages
  <2>2. OthersOK' /\ RequestsOK'
    BY <1>4, <1>5, <2>1 DEF TypeInv, RequestsOK, OthersOK
  <2>3. QED
    BY <2>2
<1>14. RowsOK'
  <2>1. mailed' \in [Vendors -> Seq(Rows)] /\ mailed'[v] = <<n>>
    BY <1>4, <1>5, <1>10 DEF TypeInv, RowsOK
  <2>2. ASSUME NEW w \in Vendors, NEW k \in DOMAIN mailed'[w]
        PROVE  mailed'[w][k] \in DOMAIN invites' /\ invites'[mailed'[w][k]].vendor = w
    <3>1. CASE w = v
      BY <1>7, <1>10, <1>11, <2>1, <2>2, <3>1
    <3>2. CASE w # v
      <4>1. k \in DOMAIN mailed[w] /\ mailed'[w] = mailed[w]
        BY <1>12, <2>2, <3>2
      <4>2. mailed[w][k] \in DOMAIN invites /\ Owner(mailed[w][k]) = w
        BY <1>4, <4>1 DEF TypeInv, RowsOK
      <4>3. QED
        BY <1>2, <1>6, <1>11, <4>1, <4>2
    <3>3. QED
      BY <3>1, <3>2
  <2>3. QED
    BY <1>11, <2>1, <2>2 DEF RowsOK, Owner
<1>15. ASSUME NEW s \in Requests PROVE Good(request[s])'
  <2>1. CASE s = r
    BY <1>4, <1>5, <2>1 DEF Good, TypeInv, RequestsOK
  <2>2. CASE s # r
    <3>1. Good(request[s]) /\ request'[s] = request[s]
      BY <1>4, <1>5, <2>2 DEF IInv, RequestInv, TypeInv, RequestsOK
    <3>2. ASSUME Busy(s) PROVE Exists(request[s].vendor)' <=> Exists(request[s].vendor)
      <4>1. PICK w \in Vendors : w = request[s].vendor
        BY <1>4, <3>2, RequestTypes, RequestIdle
      <4>2. w # v
        BY <1>1, <1>4, <2>2, <3>2, <4>1 DEF IInv, AloneInv
      <4>3. w = request'[s].vendor /\ (Exists(w)' <=> Exists(w))
        BY <1>12, <3>1, <4>1, <4>2
      <4>4. QED
        BY <4>1, <4>3 DEF Exists
    <3>3. Len(invites') \in Nat /\ DOMAIN invites' = 1..Len(invites')
      BY <1>10, <1>11
    <3>4. QED
      BY <1>4, <1>11, <3>1, <3>2, <3>3, GoodKept
  <2>3. QED
    BY <2>1, <2>2
<1>16. AloneInv'
  <2>1. NoRequest.pc # "create"
    BY DEF NoRequest
  <2>2. QED
    BY <1>4, <1>5, <2>1, AloneKept DEF IInv
<1>17. VendorInv'
  <2>1. ASSUME NEW w \in Vendors, ~Exists(w)'
        PROVE  \A i \in DOMAIN invites' : invites'[i].vendor # w
    <3>1. ~Exists(w) /\ w # v
      BY <1>12, <2>1
    <3>2. \A i \in DOMAIN invites : Owner(i) # w
      BY <3>1 DEF IInv, VendorInv
    <3>3. ASSUME NEW i \in DOMAIN invites' PROVE invites'[i].vendor # w
      <4>1. CASE i = n
        BY <1>7, <1>11, <3>1, <4>1
      <4>2. CASE i # n
        BY <1>2, <1>6, <1>11, <3>2, <4>2
      <4>3. QED
        BY <4>1, <4>2
    <3>4. QED
      BY <3>2, <3>3
  <2>2. QED
    BY <2>1 DEF VendorInv, Owner
<1>18. NewestLinkWins'
  <2>1. \A i \in 1..x.seen : Owner(i) = x.vendor /\ Live(i) => i \in {}
    BY <1>6, <1>7, <1>9
  <2>2. QED
    BY <1>4, <1>6, <1>7, <1>8, <2>1, InsertKeepsNewest DEF IInv
<1>19. LastInv'
  <2>1. SUFFICES ASSUME ~failed', NEW w \in Vendors, Exists(w)'
                 PROVE  \E i \in LastLink(w)' : Live(i)' /\ Carried(w, i)'
    BY DEF LastInv
  <2>2. CASE w = v
    <3>1. n \in LastLink(w)' /\ Live(n)'
      BY <1>7, <1>10, <1>11, <2>2 DEF LastLink, Live
    <3>2. mailed'[w] = <<n>>
      BY <1>4, <1>5, <2>2 DEF TypeInv, RowsOK
    <3>3. Carried(w, n)'
      BY <1>10, <3>2 DEF Carried
    <3>4. QED
      BY <3>1, <3>3
  <2>3. CASE w # v
    <3>1. PICK i \in LastLink(w) : Live(i) /\ Carried(w, i)
      BY <1>5, <1>12, <2>1, <2>3 DEF IInv, LastInv
    <3>2. i \in DOMAIN invites /\ Owner(i) = w
      BY <3>1 DEF LastLink, Owner
    <3>3. i \in LastLink(w)'
      BY <1>2, <1>6, <1>7, <1>11, <2>3, <3>1, <3>2 DEF LastLink, Owner
    <3>4. Live(i)' /\ Carried(w, i)'
      BY <1>4, <1>5, <1>11, <1>12, <2>3, <3>1, <3>2
         DEF Live, Carried, Busy, TypeInv, RequestsOK
    <3>5. QED
      BY <3>3, <3>4
  <2>4. QED
    BY <2>2, <2>3
<1>20. QED
  BY <1>13, <1>14, <1>15, <1>16, <1>17, <1>18, <1>19 DEF IInv, TypeInv, RequestInv

-----------------------------------------------------------------------------
(* Faults *)

LEMMA ExpireKeeps ==
  ASSUME IInv, NEW i \in Rows, Expire(i)
  PROVE  IInv'
<1>1. /\ i \in DOMAIN invites /\ invites' = [invites EXCEPT ![i].state = "expired"]
      /\ Event /\ failed' = TRUE
      /\ UNCHANGED <<contact, stage, complete, jobs, run, mailed, request, page>>
  BY DEF Expire, dataVars
<1>2. TypeInv /\ Len(invites) \in Nat /\ DOMAIN invites = 1..Len(invites)
      /\ \A j \in DOMAIN invites : invites[j] \in Invite
  BY RowTypes DEF IInv, TypeInv, RowsOK
<1>3. /\ DOMAIN invites' = DOMAIN invites /\ invites' \in Seq(Invite) /\ Len(invites') = Len(invites)
      /\ \A j \in DOMAIN invites :
           /\ invites'[j].vendor = Owner(j) /\ invites'[j].seen = Seen(j)
           /\ invites'[j].state = "live" => Live(j)
  <2>1. DOMAIN invites' = 1..Len(invites)
    BY <1>1, <1>2
  <2>2. ASSUME NEW j \in 1..Len(invites)
        PROVE  /\ invites'[j] \in Invite
               /\ invites'[j].vendor = Owner(j) /\ invites'[j].seen = Seen(j)
               /\ invites'[j].state = "live" => Live(j)
    BY <1>1, <1>2 DEF Invite, Owner, Seen, Live
  <2>3. invites' = [j \in DOMAIN invites' |-> invites'[j]]
    BY <1>1
  <2>4. invites' \in [1..Len(invites) -> Invite]
    BY <2>1, <2>2, <2>3
  <2>5. invites' \in Seq(Invite) /\ Len(invites') = Len(invites)
    BY <1>2, <2>1, <2>4
  <2>6. QED
    BY <1>2, <2>1, <2>2, <2>5
<1>4. Grows
  BY <1>2, <1>3 DEF Grows, Owner, Seen, Live
<1>5. RowsOK' /\ RequestsOK'
  BY <1>1, <1>2, <1>3 DEF TypeInv, RowsOK, RequestsOK, Owner
<1>6. OthersOK' /\ failed'
  <2>1. events' \in 0..MaxEvents
    BY <1>1, <1>2, EventType DEF TypeInv
  <2>2. QED
    BY <1>1, <1>2, <2>1 DEF TypeInv, OthersOK
<1>7. ASSUME NEW s \in Requests PROVE Good(request[s])'
  BY <1>1, <1>2, <1>3, <1>4, BystanderKept
<1>8. AloneInv'
  BY <1>1 DEF IInv, AloneInv, Busy
<1>9. VendorInv'
  BY <1>1, <1>3 DEF IInv, VendorInv, Exists, Owner
<1>10. NewestLinkWins'
  <2>1. ASSUME NEW a \in DOMAIN invites', NEW b \in DOMAIN invites', a < b,
               invites'[a].vendor = invites'[b].vendor,
               invites'[a].state = "live", invites'[b].state = "live"
        PROVE  invites'[b].seen < a
    <3>1. Live(a) /\ Live(b) /\ Owner(a) = Owner(b) /\ invites'[b].seen = Seen(b)
      BY <1>3, <2>1
    <3>2. QED
      BY <1>3, <2>1, <3>1 DEF IInv, NewestLinkWins, Owner, Seen
  <2>2. QED
    BY <2>1 DEF NewestLinkWins, Live
<1>11. LastInv'
  BY <1>6 DEF LastInv
<1>12. QED
  BY <1>5, <1>6, <1>7, <1>8, <1>9, <1>10, <1>11 DEF IInv, TypeInv, RequestInv

LEMMA CrashKeeps ==
  ASSUME IInv, Crash
  PROVE  IInv'
<1>1. /\ request' = [r \in Requests |-> NoRequest] /\ Event /\ failed' = TRUE
      /\ UNCHANGED <<contact, stage, complete, jobs, run, invites, mailed, page>>
  BY DEF Crash, dataVars
<1>2. \A r \in Requests : request'[r] = NoRequest /\ NoRequest.pc # "create"
  BY <1>1 DEF NoRequest
<1>3. RowsOK' /\ RequestsOK' /\ OthersOK' /\ failed'
  <2>1. events' \in 0..MaxEvents
    BY <1>1, EventType DEF IInv, TypeInv
  <2>2. QED
    BY <1>1, <2>1 DEF IInv, TypeInv, RowsOK, RequestsOK, OthersOK, Owner
<1>4. RequestInv' /\ AloneInv'
  BY <1>2 DEF RequestInv, AloneInv, Good
<1>5. VendorInv' /\ NewestLinkWins' /\ LastInv'
  BY <1>1, <1>3 DEF IInv, VendorInv, NewestLinkWins, LastInv, Exists, Owner, Live
<1>6. QED
  BY <1>3, <1>4, <1>5 DEF IInv, TypeInv

-----------------------------------------------------------------------------
(* The theorems *)

LEMMA LinksStep == IInv /\ [Next]_vars => IInv'
<1> SUFFICES ASSUME IInv, [Next]_vars PROVE IInv'
  OBVIOUS
<1>0. /\ {} \in SUBSET Locations /\ {"onboarding", "correction"} \subseteq Purposes /\ OthersOK
      /\ \A v \in Vendors : Exists(v) => contact[v] \in Emails
      /\ \A v \in Vendors : UnderReview(v) \in SUBSET Locations
      /\ UNCHANGED stage => stage' \in [Vendors -> [Locations -> Stages]]
  BY DEF IInv, TypeInv, OthersOK, Purposes, Exists, UnderReview
<1>1. ASSUME NEW r \in Requests, NEW v \in Vendors, NEW e \in Emails, StartCreate(r, v, e)
      PROVE  IInv'
  <2>1. /\ ~Exists(v) /\ Begin(r, At("create", v, e, {}, "onboarding"))
        /\ \A s \in Requests : request[s].pc # "idle" => request[s].vendor # v
        /\ UNCHANGED <<contact, stage, complete, jobs, run, invites, mailed, page>>
    BY <1>1 DEF StartCreate, dataVars
  <2>2. QED
    BY <1>0, <2>1, StartKeeps
<1>2. ASSUME NEW r \in Requests, NEW v \in Vendors, StartResend(r, v) PROVE IInv'
  <2>1. /\ Exists(v) /\ Begin(r, At("issue", v, contact[v], {}, "onboarding"))
        /\ UNCHANGED <<contact, stage, complete, jobs, run, invites, mailed, page>>
    BY <1>2 DEF StartResend, dataVars
  <2>2. QED
    BY <1>0, <2>1, StartKeeps
<1>3. ASSUME NEW r \in Requests, NEW v \in Vendors, StartCorrection(r, v) PROVE IInv'
  <2>1. /\ Exists(v) /\ Begin(r, At("sweep", v, contact[v], UnderReview(v), "correction"))
        /\ UNCHANGED <<contact, stage, complete, jobs, run, invites, mailed, page>>
    BY <1>3 DEF StartCorrection, dataVars
  <2>2. QED
    BY <1>0, <2>1, StartKeeps
<1>4. ASSUME NEW r \in Requests, NEW v \in Vendors, NEW l \in Locations, StartAdd(r, v, l) PROVE IInv'
  <2>1. /\ Exists(v) /\ Begin(r, At("add", v, contact[v], {l}, "onboarding"))
        /\ UNCHANGED <<contact, complete, jobs, run, invites, mailed, page>>
        /\ stage' = Moved(v, {l}, "under_review") /\ "under_review" \in Stages
    BY <1>4 DEF StartAdd, Stages
  <2>2. stage' \in [Vendors -> [Locations -> Stages]] /\ {l} \in SUBSET Locations
    BY <1>0, <2>1, MovedType
  <2>3. QED
    BY <1>0, <2>1, <2>2, StartKeeps
<1>5. ASSUME NEW r \in Requests, Step(r) PROVE IInv'
  BY <1>5, CreateKeeps, AddKeeps, SweepKeeps, RevokeSeenKeeps, CommitIssueKeeps, MailLinkKeeps DEF Step
<1>6. ASSUME NEW v \in Vendors, Portal(v) \/ Verify(v) \/ Bounce(v) \/ Decision(v) PROVE IInv'
  BY <1>6, PortalStep, DecisionStep
<1>7. ASSUME NEW i \in Rows, Expire(i) PROVE IInv'
  BY <1>7, ExpireKeeps
<1>8. CASE Crash
  BY <1>8, CrashKeeps
<1>9. CASE UNCHANGED vars
  <2>1. Quiet /\ OthersOK'
    BY <1>9 DEF vars, dataVars, bounds, Quiet, OthersOK, IInv, TypeInv
  <2>2. QED
    BY <2>1, QuietKeeps
<1>10. QED
  BY <1>1, <1>2, <1>3, <1>4, <1>5, <1>6, <1>7, <1>8, <1>9 DEF Next, Operator

\* Every reachable state has the declared types: a mail carries a link of its own vendor.
THEOREM LinksTypes == Spec => []TypeOK
<1>1. IInv => TypeOK
  BY DEF IInv, TypeInv, RowsOK, OthersOK, RequestsOK, TypeOK, Owner
<1>2. QED
  BY <1>1, LinksInit, LinksStep, PTL DEF Spec

\* However operators' requests overlap, issuing a link ends every link of the vendor
\* that was committed when its revoking statement began (invite-token.ts:57-68).
THEOREM NewestLinkWinsHolds == Spec => []NewestLinkWins
<1>1. IInv => NewestLinkWins
  BY DEF IInv
<1>2. QED
  BY <1>1, LinksInit, LinksStep, PTL DEF Spec

\* When the requests of a vendor are through and nothing has failed or expired, it has
\* been mailed a link that works, its last one (invite-token.ts:57-80).
THEOREM VendorHasWorkingLinkHolds == Spec => []VendorHasWorkingLink
<1>1. IInv => VendorHasWorkingLink
  <2> SUFFICES ASSUME IInv, NEW v \in Vendors, Exists(v), ~failed,
                      \A r \in Requests : request[r] # NoRequest => request[r].vendor # v
               PROVE  \E i \in LastLink(v) : Live(i) /\ \E k \in DOMAIN mailed[v] : mailed[v][k] = i
    BY DEF VendorHasWorkingLink
  <2>1. PICK i \in LastLink(v) : Live(i) /\ Carried(v, i)
    BY DEF IInv, LastInv
  <2>2. QED
    BY <2>1 DEF Carried, Busy
<1>2. QED
  BY <1>1, LinksInit, LinksStep, PTL DEF Spec
=============================================================================
