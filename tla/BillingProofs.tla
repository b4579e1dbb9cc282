--------------------------- MODULE BillingProofs ---------------------------
(***************************************************************************)
(* What Stripe charges a tenant at rest: the rate and the setup fee of its *)
(* row, and its active locations, for any number of overlapping attaches,  *)
(* edits of the terms, worker passes, location edits, failed or unanswered *)
(* calls and crashes.                                                      *)
(*                                                                         *)
(* The terms: until the subscription is stored its price is the parameter  *)
(* its idempotency key was first used with, and so is the fee, so that an  *)
(* attach that has read another price or another fee is refused; an edit   *)
(* that changes the terms under an attach, or between another edit's push  *)
(* and its write, is no longer alone.                                      *)
(*                                                                         *)
(* The count: while no race or fault excuses it, the last committed row is *)
(* what every pass and every attach past its reading holds, and what the   *)
(* subscription has been told unless a row still waits; and it is the      *)
(* number of active locations as soon as the edits are done.  An edit that *)
(* meets no other and no push, and whose row says "changed", restores all  *)
(* of this whatever happened before.                                       *)
(***************************************************************************)
EXTENDS Billing, FiniteSetTheorems, SequenceTheorems, WellFoundedInduction, TLAPS

\* What the terms need to know of the types: not the counts.
AttachRow(row) == row = [pc |-> row.pc, rate |-> row.rate, fee |-> row.fee, qty |-> row.qty]
Setting == [pc : {"idle", "push", "read", "write"}, field : {"rate", "fee"},
            new : Rates \cup Fees \cup {None}, was : Rates \cup Fees \cup {None},
            route : {"own", "pushed", "patch"}]
TermsType ==
    /\ rate \in Rates /\ fee \in Fees /\ attached \in BOOLEAN
    /\ attach = [a \in Attaches |-> attach[a]]
    /\ \A a \in Attaches : AttachRow(attach[a])
    /\ setting \in [Settings -> Setting]
    /\ soloTerms \subseteq Settings
    /\ keyed = [fee |-> keyed.fee, price |-> keyed.price, qty |-> keyed.qty]
    /\ sub = [made |-> sub.made, qty |-> sub.qty, price |-> sub.price]
    /\ sub.made \in BOOLEAN

Storing == \E a \in Attaches : attach[a].pc = "store"
Pushed == \E s \in Settings : setting[s].route = "pushed"

\* How far a request can be, given its route.
RouteInv ==
    \A s \in Settings :
        /\ setting[s].pc = "idle" => setting[s].route = "own"
        /\ setting[s].pc = "push" => attached /\ setting[s].field = "rate" /\ setting[s].route = "own"
        /\ setting[s].route = "pushed" => attached /\ setting[s].field = "rate"
                                          /\ setting[s].pc \in {"read", "write"}
        /\ setting[s].pc # "idle" =>
             setting[s].new \in IF setting[s].field = "rate" THEN Rates ELSE Fees

\* A request that nothing has overlapped: what it has read and pushed still stands.
AloneInv ==
    \A s \in soloTerms :
        /\ \A a \in Attaches : attach[a].pc = "idle"
        /\ \A r \in Settings \ {s} : setting[r].pc = "idle"
        /\ setting[s].pc = "write" => setting[s].was = Local(setting[s].field)
        /\ setting[s].pc \in {"read", "write"} /\ setting[s].route = "own" => ~attached
        /\ setting[s].route = "pushed" => sub.price = setting[s].new

\* Until it is stored, the subscription has the price its key was first used with.
KeyedInv ==
    /\ attached \/ Storing => sub.made
    /\ sub.made /\ ~attached =>
         keyed.price = sub.price /\ keyed.price # None

\* An attach holds the tenant's terms, unless an edit has overlapped it.
ReadInv ==
    \A a \in Attaches :
        attach[a].pc \in {"quantity", "subscribe"} =>
            /\ attach[a].rate \in Rates /\ attach[a].fee \in Fees
            /\ "rate" \notin excused => attach[a].rate = rate
            /\ "fee" \notin excused => attach[a].fee = fee

\* The terms agree, but for a rate that has been pushed and not yet written.
ChargedInv ==
    attached \/ Storing =>
        /\ "rate" \notin excused => sub.price = rate \/ Pushed
        /\ "fee" \notin excused => keyed.fee = fee

TermsInv == TermsType /\ RouteInv /\ AloneInv /\ KeyedInv /\ ReadInv /\ ChargedInv

-----------------------------------------------------------------------------

LEMMA TermsStart ==
  ASSUME BillingAssumption, Init
  PROVE  TermsInv
<1>1. TermsType
  <2>1. \A s \in Settings : setting[s] = NoSetting
    BY DEF Init
  <2>2. NoSetting \in Setting
    BY DEF NoSetting, Setting
  <2>3. rate \in Rates /\ fee \in Fees /\ attached \in BOOLEAN
    BY DEF Init, Rates, Fees
  <2>4. keyed = NoKeys /\ sub = NoSub /\ attach = [a \in Attaches |-> NoAttach]
    BY DEF Init
  <2>5. QED
    BY <2>1, <2>2, <2>3, <2>4 DEF Init, TermsType, AttachRow, NoAttach, NoKeys, NoSub
<1>2. RouteInv /\ AloneInv /\ KeyedInv /\ ReadInv /\ ChargedInv
  BY DEF Init, RouteInv, AloneInv, KeyedInv, ReadInv, ChargedInv, Storing, NoSetting, NoAttach, NoSub
<1>3. QED
  BY <1>1, <1>2 DEF TermsInv

\* A step that leaves the terms alone, and the requests that read or write them.
TermsAside ==
    /\ UNCHANGED <<tenantVars, attach, settingVars, keyed>>
    /\ sub' = [sub EXCEPT !.qty = sub'.qty]
    /\ excused' \ {"count"} = excused \ {"count"}

LEMMA AsideKeeps ==
  ASSUME TermsInv, TermsAside
  PROVE  TermsInv'
<1>1. /\ UNCHANGED <<rate, fee, attached, attach, setting, soloTerms, keyed>>
      /\ sub'.made = sub.made /\ sub'.price = sub.price
      /\ sub' = [made |-> sub'.made, qty |-> sub'.qty, price |-> sub'.price]
      /\ "rate" \in excused' <=> "rate" \in excused
      /\ "fee" \in excused' <=> "fee" \in excused
  BY DEF TermsAside, TermsInv, TermsType, tenantVars, settingVars
<1>2. TermsType'
  BY <1>1 DEF TermsInv, TermsType
<1>3. RouteInv' /\ AloneInv'
  BY <1>1 DEF TermsInv, RouteInv, AloneInv, Local
<1>4. KeyedInv' /\ ReadInv' /\ ChargedInv'
  BY <1>1 DEF TermsInv, KeyedInv, ReadInv, ChargedInv, Storing, Pushed
<1>5. QED
  BY <1>2, <1>3, <1>4 DEF TermsInv

\* Location edits, and the worker's passes.
LEMMA EditsAside ==
  ASSUME TermsInv, NEW e \in Editors,
         \/ \E l \in Locations : ChangeLocation(e, l) \/ ImportRow(e, l)
         \/ \E ls \in SUBSET Locations : BulkBegin(e, ls)
         \/ EditStep(e)
  PROVE  TermsAside
<1> USE DEF tenantVars, settingVars, stripeVars, TermsInv, TermsType, TermsAside
<1>1. ASSUME NEW l \in Locations, ChangeLocation(e, l) \/ ImportRow(e, l) PROVE TermsAside
  BY <1>1 DEF ChangeLocation, ImportRow, StartEdit
<1>2. ASSUME NEW ls \in SUBSET Locations, BulkBegin(e, ls) PROVE TermsAside
  <2>1. StartEdit(e)
    BY <1>2, Zenon DEF BulkBegin
  <2>2. QED
    BY <2>1 DEF StartEdit
<1>3. CASE ImportEnd(e) \/ CountActive(e) \/ ReadLast(e)
  BY <1>3 DEF ImportEnd, CountActive, ReadLast
<1>4. CASE BulkCommit(e)
  BY <1>4 DEF BulkCommit, Taken
<1>5. CASE InsertSnapshot(e)
  BY <1>5 DEF InsertSnapshot, Taken
<1>6. QED
  BY <1>1, <1>2, <1>3, <1>4, <1>5 DEF EditStep

LEMMA TicksAside ==
  ASSUME TermsInv, NEW w \in Ticks, TickStep(w)
  PROVE  TermsAside
<1> USE DEF tenantVars, settingVars, stripeVars, TermsInv, TermsType, TermsAside
<1>1. CASE SyncSelect(w)
  BY <1>1 DEF SyncSelect
<1>2. CASE SyncPush(w)
  BY <1>2 DEF SyncPush
<1>3. CASE SyncPushFails(w)
  BY <1>3 DEF SyncPushFails
<1>4. CASE SyncMark(w)
  BY <1>4 DEF SyncMark
<1>5. QED
  BY <1>1, <1>2, <1>3, <1>4 DEF TickStep

-----------------------------------------------------------------------------
(* The attaches *)

LEMMA AttachKeeps ==
  ASSUME BillingAssumption, TermsInv, NEW a \in Attaches, AttachRead(a) \/ AttachStep(a)
  PROVE  TermsInv'
<1> USE DEF tenantVars, settingVars, stripeVars, TermsInv
<1>0. /\ None \notin Rates
      /\ DOMAIN keyed = {"fee", "price", "qty"}
  BY DEF BillingAssumption, TermsType
<1>1. CASE AttachRead(a)
  <2>1. /\ UNCHANGED <<rate, fee, attached, setting, keyed, sub, excused>> /\ soloTerms' = {}
        /\ attach' = [attach EXCEPT ![a] = attach'[a]]
        /\ attach'[a] = [pc |-> "quantity", rate |-> rate, fee |-> fee, qty |-> None]
    BY <1>1 DEF AttachRead, TermsType
  <2>2. TermsType'
    BY <2>1 DEF TermsType, AttachRow
  <2>3. RouteInv' /\ AloneInv'
    BY <2>1 DEF RouteInv, AloneInv
  <2>4. \A b \in Attaches : b # a => attach'[b] = attach[b]
    BY <2>1 DEF TermsType
  <2>5. KeyedInv' /\ ReadInv' /\ ChargedInv'
    BY <2>1, <2>4 DEF KeyedInv, ReadInv, ChargedInv, Storing, Pushed, TermsType
  <2>6. QED
    BY <2>2, <2>3, <2>5
<1>2. CASE AttachQuantity(a)
  <2>1. /\ UNCHANGED <<rate, fee, attached, setting, soloTerms, keyed, sub, excused>>
        /\ attach[a].pc = "quantity"
        /\ attach'[a].pc = "subscribe" /\ attach'[a].rate = attach[a].rate /\ attach'[a].fee = attach[a].fee
        /\ AttachRow(attach'[a])
        /\ attach' = [b \in Attaches |-> attach'[b]]
        /\ \A b \in Attaches : b # a => attach'[b] = attach[b]
    BY <1>2 DEF AttachQuantity, TermsType, AttachRow
  <2>2. TermsType'
    BY <2>1 DEF TermsType
  <2>3. RouteInv' /\ AloneInv'
    BY <2>1 DEF RouteInv, AloneInv, Local
  <2>4. KeyedInv' /\ ReadInv' /\ ChargedInv'
    BY <2>1 DEF KeyedInv, ReadInv, ChargedInv, Storing, Pushed
  <2>5. QED
    BY <2>2, <2>3, <2>4
<1>3. CASE AttachSubscribe(a)
  <2>1. /\ UNCHANGED <<rate, fee, attached, setting, soloTerms>>
        /\ "rate" \in excused' <=> "rate" \in excused
        /\ "fee" \in excused => "fee" \in excused'
        /\ attach[a].pc = "subscribe" /\ attach'[a].pc = "store"
        /\ AttachRow(attach'[a])
        /\ attach' = [b \in Attaches |-> attach'[b]]
        /\ \A b \in Attaches : b # a => attach'[b] = attach[b]
    BY <1>3 DEF AttachSubscribe, TermsType, AttachRow
  <2>2. /\ keyed' = [fee |-> keyed'.fee, price |-> attach[a].rate, qty |-> attach[a].qty]
        /\ keyed.price \in {None, attach[a].rate}
        /\ "fee" \notin excused' => keyed'.fee = attach[a].fee
    BY <1>0, <1>3 DEF AttachSubscribe, Refused, Accepts, SubscribeKeys
  <2>3. /\ sub.made => sub' = sub
        /\ ~sub.made => sub' = [made |-> TRUE, qty |-> attach[a].qty, price |-> attach[a].rate]
        /\ sub'.made
    BY <1>3 DEF AttachSubscribe, TermsType
  <2>4. attach[a].rate \in Rates /\ attach[a].fee \in Fees
    BY <2>1 DEF ReadInv
  <2>5. ~attached => sub'.price = attach[a].rate
    BY <2>2, <2>3 DEF KeyedInv
  <2>6. TermsType'
    <3>1. sub' = [made |-> sub'.made, qty |-> sub'.qty, price |-> sub'.price]
      BY <2>3 DEF TermsType
    <3>2. QED
      BY <2>1, <2>2, <2>3, <3>1 DEF TermsType
  <2>7. soloTerms' = {}
    BY <2>1 DEF AloneInv, TermsType
  <2>8. RouteInv' /\ AloneInv'
    BY <2>1, <2>7 DEF RouteInv, AloneInv
  <2>9. KeyedInv' /\ ReadInv'
    BY <1>0, <2>1, <2>2, <2>3, <2>4, <2>5 DEF KeyedInv, ReadInv
  <2>10. ChargedInv'
    <3>1. "fee" \notin excused' => keyed'.fee = fee'
      BY <2>1, <2>2 DEF ReadInv
    <3>2. CASE attached
      BY <2>1, <2>3, <3>1, <3>2 DEF ChargedInv, KeyedInv, Pushed
    <3>3. CASE ~attached
      BY <2>1, <2>5, <3>1, <3>3 DEF ChargedInv, ReadInv
    <3>4. QED
      BY <3>2, <3>3
  <2>11. QED
    BY <2>6, <2>8, <2>9, <2>10
<1>4. CASE AttachFails(a)
  <2>1. /\ UNCHANGED <<rate, fee, attached, setting, soloTerms, sub, excused>>
        /\ attach' = [attach EXCEPT ![a] = NoAttach]
        /\ attach[a].pc \in {"quantity", "subscribe"}
    BY <1>4 DEF AttachFails
  <2>2. /\ keyed' = [fee |-> keyed'.fee, price |-> keyed'.price, qty |-> keyed'.qty]
        /\ keyed.price # None => keyed'.price = keyed.price
        /\ keyed'.fee = keyed.fee \/ keyed'.fee = attach[a].fee
    <3>1. PICK done \in {{}, {"fee"}, {"fee", "price"}} :
             /\ \A k \in done : Accepts(keyed[k], SubscribeKeys(a)[k])
             /\ keyed' = [k \in DOMAIN keyed |-> IF k \in done THEN SubscribeKeys(a)[k] ELSE keyed[k]]
      BY <1>4 DEF AttachFails
    <3>2. DOMAIN keyed' = {"fee", "price", "qty"}
      BY <1>0, <3>1
    <3>3. keyed' = [fee |-> keyed'.fee, price |-> keyed'.price, qty |-> keyed'.qty]
      BY <1>0, <3>1
    <3>4. \A k \in DOMAIN keyed : keyed[k] # None => keyed'[k] = keyed[k]
      BY <3>1 DEF Accepts
    <3>5. keyed'.fee = keyed.fee \/ keyed'.fee = attach[a].fee
      BY <1>0, <3>1 DEF SubscribeKeys
    <3>6. QED
      BY <1>0, <3>3, <3>4, <3>5
  <2>3. TermsType'
    BY <2>1, <2>2 DEF TermsType, AttachRow, NoAttach
  <2>4. RouteInv' /\ AloneInv'
    BY <2>1 DEF RouteInv, AloneInv, Local, NoAttach, TermsType
  <2>5. \A b \in Attaches : attach'[b].pc # "idle" => attach'[b] = attach[b]
    BY <2>1 DEF NoAttach, TermsType
  <2>6. Storing' => Storing
    BY <2>5 DEF Storing
  <2>7. KeyedInv' /\ ReadInv'
    BY <2>1, <2>2, <2>5, <2>6 DEF KeyedInv, ReadInv
  <2>8. ChargedInv'
    BY <2>1, <2>2, <2>6 DEF ChargedInv, ReadInv, Pushed
  <2>9. QED
    BY <2>3, <2>4, <2>7, <2>8
<1>5. CASE AttachStore(a)
  <2>1. /\ UNCHANGED <<rate, fee, setting, soloTerms, keyed, sub, excused>> /\ attached'
        /\ attach[a].pc = "store" /\ attach'[a].pc = "mark"
        /\ AttachRow(attach'[a])
        /\ attach' = [b \in Attaches |-> attach'[b]]
        /\ \A b \in Attaches : b # a => attach'[b] = attach[b]
    BY <1>5 DEF AttachStore, TermsType, AttachRow
  <2>2. TermsType'
    BY <1>5, <2>1 DEF TermsType, AttachStore
  <2>3. RouteInv'
    BY <2>1 DEF RouteInv
  <2>4. AloneInv'
    BY <2>1 DEF AloneInv, TermsType
  <2>5. KeyedInv' /\ ReadInv' /\ ChargedInv'
    BY <2>1 DEF KeyedInv, ReadInv, ChargedInv, Storing, Pushed
  <2>6. QED
    BY <2>2, <2>3, <2>4, <2>5
<1>6. CASE AttachMark(a)
  <2>1. /\ UNCHANGED <<rate, fee, attached, setting, soloTerms, keyed, sub>>
        /\ "rate" \in excused' <=> "rate" \in excused
        /\ "fee" \in excused' <=> "fee" \in excused
        /\ attach' = [attach EXCEPT ![a] = NoAttach] /\ attach[a].pc = "mark"
    BY <1>6 DEF AttachMark
  <2>2. TermsType'
    BY <2>1 DEF TermsType, AttachRow, NoAttach
  <2>3. RouteInv' /\ AloneInv'
    BY <2>1 DEF RouteInv, AloneInv, Local, NoAttach, TermsType
  <2>4. \A b \in Attaches : attach'[b].pc # "idle" => attach'[b] = attach[b]
    BY <2>1 DEF NoAttach, TermsType
  <2>5. KeyedInv' /\ ReadInv' /\ ChargedInv'
    BY <2>1, <2>4 DEF KeyedInv, ReadInv, ChargedInv, Storing, Pushed
  <2>6. QED
    BY <2>2, <2>3, <2>5
<1>7. QED
  BY <1>1, <1>2, <1>3, <1>4, <1>5, <1>6 DEF AttachStep

-----------------------------------------------------------------------------
(* The edits of rate and setup fee *)

LEMMA SettingStarts ==
  ASSUME BillingAssumption, TermsInv, NEW s \in Settings, NEW field \in {"rate", "fee"},
         NEW new \in IF field = "rate" THEN Rates ELSE Fees, NEW at \in {"push", "read"}, NEW route \in {"own", "patch"},
         StartSetting(s, field, new, at, route),
         at = "push" => attached /\ field = "rate" /\ route = "own",
         at = "read" /\ route = "own" => ~attached
  PROVE  TermsInv'
<1> USE DEF tenantVars, stripeVars, TermsInv
<1>1. /\ UNCHANGED <<rate, fee, attached, attach, keyed, sub, excused>>
      /\ setting[s].pc = "idle"
      /\ setting' = [setting EXCEPT ![s] = setting'[s]]
      /\ setting'[s] = [pc |-> at, field |-> field, new |-> new, was |-> None, route |-> route]
  BY DEF StartSetting, TermsType, NoSetting
<1>2. \/ soloTerms' = {}
      \/ /\ soloTerms' = {s}
         /\ \A r \in Settings : setting[r].pc = "idle"
         /\ \A a \in Attaches : attach[a].pc = "idle"
  BY DEF StartSetting
<1>3. setting'[s] \in Setting
  BY <1>1 DEF Setting
<1>4. TermsType'
  BY <1>1, <1>2, <1>3 DEF TermsType
<1>5. \A r \in Settings \ {s} : setting'[r] = setting[r]
  BY <1>1 DEF TermsType
<1>6. RouteInv'
  BY <1>1, <1>5 DEF RouteInv
<1>7. AloneInv'
  BY <1>1, <1>2, <1>5 DEF AloneInv
<1>8. KeyedInv' /\ ReadInv'
  BY <1>1 DEF KeyedInv, ReadInv, Storing
<1>9. setting[s].route = "own"
  BY <1>1 DEF RouteInv
<1>10. Pushed => Pushed'
  BY <1>5, <1>9 DEF Pushed
<1>11. ChargedInv'
  BY <1>1, <1>10 DEF ChargedInv, Storing
<1>12. QED
  BY <1>4, <1>6, <1>7, <1>8, <1>11

LEMMA SettingKeeps ==
  ASSUME BillingAssumption, TermsInv, NEW s \in Settings, SettingStep(s)
  PROVE  TermsInv'
<1> USE DEF tenantVars, stripeVars, TermsInv
<1>1. CASE PushRate(s)
  <2>1. /\ UNCHANGED <<rate, fee, attached, attach, soloTerms, keyed, excused>>
        /\ setting[s].pc = "push" /\ attached /\ setting[s].field = "rate"
    BY <1>1 DEF PushRate, RouteInv
  <2>2. /\ setting' = [setting EXCEPT ![s] = setting'[s]]
        /\ setting'[s] = [setting[s] EXCEPT !.pc = "read", !.route = "pushed"]
        /\ sub' = [sub EXCEPT !.price = setting[s].new]
    BY <1>1 DEF PushRate, TermsType
  <2>3. /\ setting'[s] \in Setting /\ setting'[s].pc = "read" /\ setting'[s].route = "pushed"
        /\ setting'[s].new = setting[s].new /\ setting'[s].field = "rate"
        /\ \A r \in Settings \ {s} : setting'[r] = setting[r]
        /\ sub'.made = sub.made /\ sub'.price = setting[s].new
    <3>1. setting[s] \in Setting /\ setting[s].field = "rate"
      BY <2>1 DEF TermsType
    <3>2. /\ setting'[s] \in Setting /\ setting'[s].pc = "read" /\ setting'[s].route = "pushed"
          /\ setting'[s].new = setting[s].new /\ setting'[s].field = "rate"
      BY <2>2, <3>1 DEF Setting
    <3>3. \A r \in Settings \ {s} : setting'[r] = setting[r]
      BY <2>2 DEF TermsType
    <3>4. sub'.made = sub.made /\ sub'.price = setting[s].new
      BY <2>2 DEF TermsType
    <3>5. QED
      BY <3>2, <3>3, <3>4
  <2>4. TermsType'
    BY <2>1, <2>2, <2>3 DEF TermsType
  <2>5. RouteInv'
    BY <2>1, <2>3 DEF RouteInv
  <2>6. AloneInv'
    BY <2>1, <2>3 DEF AloneInv, TermsType, RouteInv
  <2>7. KeyedInv' /\ ReadInv'
    BY <2>1, <2>3 DEF KeyedInv, ReadInv, Storing
  <2>8. ChargedInv'
    BY <2>1, <2>3 DEF ChargedInv, Storing, Pushed
  <2>9. QED
    BY <2>4, <2>5, <2>6, <2>7, <2>8
<1>2. CASE PushRateFails(s)
  <2>1. /\ UNCHANGED <<rate, fee, attached, attach, keyed>>
        /\ setting[s].pc = "push" /\ attached
        /\ setting' = [setting EXCEPT ![s] = NoSetting]
        /\ soloTerms' = soloTerms \ {s}
    BY <1>2 DEF PushRateFails, RouteInv
  <2>2. \/ sub' = sub /\ excused' = excused
        \/ sub' = [sub EXCEPT !.price = setting[s].new] /\ excused' = excused \cup {"rate"}
    BY <1>2 DEF PushRateFails
  <2>3. /\ NoSetting \in Setting /\ NoSetting.pc = "idle" /\ NoSetting.route = "own"
        /\ \A r \in Settings \ {s} : setting'[r] = setting[r]
        /\ setting'[s] = NoSetting
    BY <2>1 DEF NoSetting, Setting, TermsType
  <2>4. /\ sub'.made = sub.made
        /\ "rate" \notin excused' => "rate" \notin excused /\ sub'.price = sub.price
        /\ "fee" \in excused' <=> "fee" \in excused
    BY <2>2 DEF TermsType
  <2>5. TermsType'
    BY <2>1, <2>2, <2>3 DEF TermsType
  <2>6. RouteInv'
    BY <2>1, <2>3 DEF RouteInv
  <2>7. AloneInv'
    <3>1. \A r \in soloTerms' : setting[r].pc = "push" /\ r # s => FALSE
      BY <2>1 DEF AloneInv, TermsType
    <3>2. soloTerms' = {}
      BY <2>1 DEF AloneInv, TermsType
    <3>3. QED
      BY <3>2 DEF AloneInv
  <2>8. KeyedInv' /\ ReadInv'
    BY <2>1, <2>4 DEF KeyedInv, ReadInv, Storing
  <2>9. setting[s].route = "own"
    BY <2>1 DEF RouteInv
  <2>10. ChargedInv'
    BY <2>1, <2>3, <2>4, <2>9 DEF ChargedInv, Storing, Pushed
  <2>11. QED
    BY <2>5, <2>6, <2>7, <2>8, <2>10
<1>3. CASE SettingRead(s)
  <2>1. /\ UNCHANGED <<rate, fee, attached, attach, soloTerms, keyed, sub, excused>>
        /\ setting[s].pc = "read"
    BY <1>3 DEF SettingRead
  <2>2. /\ setting[s] \in Setting /\ Local(setting[s].field) \in Rates \cup Fees
        /\ setting' = [setting EXCEPT ![s] = setting'[s]]
        /\ setting'[s] = [setting[s] EXCEPT !.pc = "write", !.was = Local(setting[s].field)]
    BY <1>3 DEF SettingRead, TermsType, Local
  <2>3. /\ setting'[s] \in Setting /\ setting'[s].pc = "write"
        /\ setting'[s].route = setting[s].route /\ setting'[s].new = setting[s].new
        /\ setting'[s].field = setting[s].field /\ setting'[s].was = Local(setting[s].field)
        /\ \A r \in Settings \ {s} : setting'[r] = setting[r]
    BY <2>2 DEF TermsType, Setting
  <2>4. TermsType'
    BY <2>1, <2>2, <2>3 DEF TermsType
  <2>5. RouteInv'
    BY <2>1, <2>3 DEF RouteInv
  <2>6. AloneInv'
    BY <2>1, <2>3 DEF AloneInv, TermsType, Local
  <2>7. KeyedInv' /\ ReadInv' /\ ChargedInv'
    BY <2>1, <2>3 DEF KeyedInv, ReadInv, ChargedInv, Storing, Pushed
  <2>8. QED
    BY <2>4, <2>5, <2>6, <2>7
<1>4. CASE SettingWrite(s)
  <2> DEFINE field == setting[s].field
             new == setting[s].new
             differs == new # setting[s].was
  <2>1. /\ UNCHANGED <<attached, attach, keyed, sub>>
        /\ setting[s].pc = "write" /\ setting[s] \in Setting
        /\ setting' = [setting EXCEPT ![s] = NoSetting]
        /\ soloTerms' = soloTerms \ {s}
    BY <1>4 DEF SettingWrite, TermsType
  <2>2. /\ rate' = IF field = "rate" /\ differs THEN new ELSE rate
        /\ fee' = IF field = "fee" /\ differs THEN new ELSE fee
        /\ excused' = IF s \notin soloTerms \/ (attached /\ differs /\ setting[s].route = "patch")
                        THEN excused \cup {field}
                      ELSE IF setting[s].route = "pushed" THEN excused \ {field}
                      ELSE excused
    BY <1>4 DEF SettingWrite
  <2>3. /\ NoSetting \in Setting /\ NoSetting.pc = "idle" /\ NoSetting.route = "own"
        /\ \A r \in Settings \ {s} : setting'[r] = setting[r]
        /\ setting'[s] = NoSetting
    BY <2>1 DEF NoSetting, Setting, TermsType
  <2>4. /\ field \in {"rate", "fee"}
        /\ field = "rate" => new \in Rates
        /\ field = "fee" => new \in Fees
        /\ setting[s].route = "pushed" => attached /\ field = "rate"
    BY <2>1 DEF RouteInv, Setting
  <2>5. TermsType'
    BY <2>1, <2>2, <2>3, <2>4 DEF TermsType
  <2>6. RouteInv'
    BY <2>1, <2>3 DEF RouteInv
  <2>7. AloneInv'
    <3>1. soloTerms' = {}
      BY <2>1 DEF AloneInv, TermsType
    <3>2. QED
      BY <3>1 DEF AloneInv
  <2>8. KeyedInv'
    BY <2>1 DEF KeyedInv, Storing
  <2>9. CASE s \notin soloTerms
    <3>1. excused' = excused \cup {field}
      BY <2>2, <2>9
    <3>2. ReadInv'
      BY <2>1, <2>2, <3>1 DEF ReadInv
    <3>3. field = "fee" /\ Pushed => Pushed'
      BY <2>3, <2>4 DEF Pushed
    <3>4. ChargedInv'
      BY <2>1, <2>2, <2>4, <3>1, <3>3 DEF ChargedInv, Storing
    <3>5. QED
      BY <2>5, <2>6, <2>7, <2>8, <3>2, <3>4
  <2>10. CASE s \in soloTerms
    <3>1. /\ \A a \in Attaches : attach[a].pc = "idle"
          /\ \A r \in Settings \ {s} : setting[r].route = "own"
          /\ setting[s].was = Local(field)
          /\ setting[s].route = "own" => ~attached
          /\ setting[s].route = "pushed" => sub.price = new
      BY <2>1, <2>10 DEF AloneInv, RouteInv
    <3>2. ReadInv'
      BY <2>1, <3>1 DEF ReadInv
    <3>3. \A a \in Attaches : attach'[a].pc # "store"
      BY <2>1, <3>1
    <3>4. ASSUME ~attached PROVE ChargedInv'
      BY <2>1, <3>3, <3>4 DEF ChargedInv, Storing
    <3>5. ASSUME attached, setting[s].route = "patch" PROVE ChargedInv'
      <4>1. ~Pushed
        BY <3>1, <3>5 DEF Pushed
      <4>2. QED
        BY <2>1, <2>2, <2>4, <2>10, <3>3, <3>5, <4>1 DEF ChargedInv, Storing
    <3>6. ASSUME attached, setting[s].route = "pushed" PROVE ChargedInv'
      <4>1. field = "rate" /\ rate' = new /\ fee' = fee /\ excused' = excused \ {"rate"}
        BY <2>2, <2>4, <2>10, <3>1, <3>6 DEF Local
      <4>2. QED
        BY <2>1, <3>1, <3>3, <3>6, <4>1 DEF ChargedInv, Storing
    <3>7. ChargedInv'
      <4>1. setting[s].route \in {"own", "pushed", "patch"}
        BY <2>1 DEF Setting
      <4>2. QED
        BY <3>1, <3>4, <3>5, <3>6, <4>1
    <3>8. QED
      BY <2>5, <2>6, <2>7, <2>8, <3>2, <3>7
  <2>11. QED
    BY <2>9, <2>10
<1>5. QED
  BY <1>1, <1>2, <1>3, <1>4 DEF SettingStep

LEMMA CrashKeeps ==
  ASSUME TermsInv, Crash
  PROVE  TermsInv'
<1> USE DEF tenantVars, stripeVars, TermsInv
<1>1. /\ UNCHANGED <<rate, fee, attached, keyed, sub>>
      /\ attach' = [a \in Attaches |-> NoAttach]
      /\ setting' = [s \in Settings |-> NoSetting]
      /\ soloTerms' = {}
  BY DEF Crash
<1>2. excused \subseteq excused' /\ (Pushed => "rate" \in excused')
  BY DEF Crash, Pushed
<1>3. /\ NoSetting \in Setting /\ NoSetting.pc = "idle" /\ NoSetting.route = "own"
      /\ AttachRow(NoAttach) /\ NoAttach.pc = "idle"
  BY DEF NoSetting, NoAttach, Setting, AttachRow
<1>4. TermsType'
  BY <1>1, <1>3 DEF TermsType
<1>5. RouteInv' /\ AloneInv'
  BY <1>1, <1>3 DEF RouteInv, AloneInv
<1>6. KeyedInv' /\ ReadInv'
  BY <1>1, <1>3 DEF KeyedInv, ReadInv, Storing
<1>7. ChargedInv'
  BY <1>1, <1>2, <1>3 DEF ChargedInv, Storing
<1>8. QED
  BY <1>4, <1>5, <1>6, <1>7

LEMMA TermsStep ==
  ASSUME BillingAssumption, TermsInv, [Next]_vars
  PROVE  TermsInv'
<1>1. ASSUME NEW s \in Settings, NEW new \in NewRates, EditRate(s, new) \/ PatchTenant(s, "rate", new)
      PROVE  TermsInv'
  <2>1. new \in IF "rate" = "rate" THEN Rates ELSE Fees
    BY DEF Rates
  <2>2. CASE EditRate(s, new)
    <3>1. CASE attached
      <4>1. StartSetting(s, "rate", new, "push", "own")
        BY <2>2, <3>1 DEF EditRate
      <4>2. QED
        BY <2>1, <3>1, <4>1, SettingStarts
    <3>2. CASE ~attached
      <4>1. StartSetting(s, "rate", new, "read", "own")
        BY <2>2, <3>2 DEF EditRate
      <4>2. QED
        BY <2>1, <3>2, <4>1, SettingStarts
    <3>3. QED
      BY <3>1, <3>2
  <2>3. CASE PatchTenant(s, "rate", new)
    BY <2>1, <2>3, SettingStarts DEF PatchTenant
  <2>4. QED
    BY <1>1, <2>2, <2>3
<1>2. ASSUME NEW s \in Settings, NEW new \in NewFees, EditFee(s, new) \/ PatchTenant(s, "fee", new)
      PROVE  TermsInv'
  <2>1. new \in IF "fee" = "rate" THEN Rates ELSE Fees
    BY DEF Fees
  <2>2. CASE EditFee(s, new)
    BY <2>1, <2>2, SettingStarts DEF EditFee
  <2>3. CASE PatchTenant(s, "fee", new)
    BY <2>1, <2>3, SettingStarts DEF PatchTenant
  <2>4. QED
    BY <1>2, <2>2, <2>3
<1>3. CASE UNCHANGED vars
  <2>1. TermsAside
    BY <1>3 DEF vars, TermsAside, TermsInv, TermsType, tenantVars, settingVars, stripeVars
  <2>2. QED
    BY <2>1, AsideKeeps
<1>4. QED
  BY <1>1, <1>2, <1>3, AsideKeeps, EditsAside, TicksAside, AttachKeeps, SettingKeeps, CrashKeeps DEF Next

\* When nothing is under way, what Stripe charges per location and for the setup is
\* what the tenant row says, whatever attaches, edits, retries, lost answers and
\* crashes have overlapped, but for the races TermsAreBilled names; an edit of the
\* rate on its own mends the rate.  For any number of requests and any terms, no
\* setup fee among them, as long as Stripe remembers the keys of earlier attaches.
THEOREM TermsAreBilledHolds == Spec => []TermsAreBilled
<1>1. Init => TermsInv
  BY TermsStart, BillingAssumption
<1>2. TermsInv /\ [Next]_vars => TermsInv'
  BY TermsStep, BillingAssumption
<1>3. TermsInv => TermsAreBilled
  BY DEF TermsInv, RouteInv, ChargedInv, Pushed, TermsAreBilled, AtRest
<1>4. QED
  BY <1>1, <1>2, <1>3, PTL DEF Spec

-----------------------------------------------------------------------------
(* The last of a set of rows *)

LEMMA SmallestOf ==
  ASSUME NEW T, T \subseteq Nat, T # {}
  PROVE  \E x \in T : \A y \in T : x <= y
<1> DEFINE R == OpToRel(<, Nat)
<1>1. R = {ss \in Nat \X Nat : ss[1] < ss[2]}
  BY DEF OpToRel
<1>2. \A x, y \in Nat : <<y, x>> \in R <=> y < x
  BY <1>1, Zenon
<1>3. IsWellFoundedOn(R, Nat)
  BY NatLessThanWellFounded, Zenon
<1> HIDE DEF R
<1>4. PICK x \in T : \A y \in T : <<y, x>> \notin R
  BY <1>3, WFMin
<1>5. ASSUME NEW y \in T PROVE x <= y
  <2>1. x \in Nat /\ y \in Nat /\ ~(y < x)
    BY <1>2, <1>4
  <2>2. QED
    BY <2>1
<1>6. QED
  BY <1>5

\* Max of a set of positions of a sequence is one of them, and no other is later.
LEMMA MaxIsLargest ==
  ASSUME NEW n \in Nat, NEW S, S \subseteq 1..n, S # {}
  PROVE  Max(S) \in S /\ \A y \in S : Max(S) >= y
<1>1. PICK t \in {n - y : y \in S} : \A u \in {n - y : y \in S} : t <= u
  <2>1. {n - y : y \in S} \subseteq Nat
    OBVIOUS
  <2>2. {n - y : y \in S} # {}
    OBVIOUS
  <2>3. QED
    BY <2>1, <2>2, SmallestOf
<1>2. PICK x \in S : t = n - x
  OBVIOUS
<1>3. ASSUME NEW y \in S PROVE x >= y
  <2>1. t <= n - y
    BY <1>1
  <2>2. x \in 1..n /\ y \in 1..n
    OBVIOUS
  <2>3. QED
    BY <1>2, <2>1, <2>2
<1>4. \E z \in S : \A y \in S : z >= y
  BY <1>3
<1>5. QED
  BY <1>4, Zenon DEF Max

LEMMA MaxIsEnd ==
  ASSUME NEW n \in Nat, NEW S, S \subseteq 1..n, n \in S
  PROVE  Max(S) = n
<1>1. Max(S) \in S /\ Max(S) >= n
  BY MaxIsLargest
<1>2. Max(S) \in 1..n
  BY <1>1
<1>3. QED
  BY <1>1, <1>2

\* LastCount and Waiting of any rows.
Seen(rows) == {i \in DOMAIN rows : Committed(rows[i])}
LastOf(rows) == rows[Max(Seen(rows))].count
WaitOf(rows) == {i \in DOMAIN rows : Committed(rows[i]) /\ rows[i].changed /\ ~rows[i].synced}

LEMMA OfSnaps == LastCount = LastOf(snaps) /\ Waiting = WaitOf(snaps)
BY DEF LastCount, Waiting, LastOf, WaitOf, Seen

LEMMA SeenKept ==
  ASSUME NEW n \in Nat, NEW rows, DOMAIN rows = 1..n, Seen(rows) # {},
         NEW next, Seen(next) = Seen(rows), \A i \in Seen(rows) : next[i].count = rows[i].count
  PROVE  LastOf(next) = LastOf(rows)
<1>1. Max(Seen(rows)) \in Seen(rows)
  BY MaxIsLargest DEF Seen
<1>2. QED
  BY <1>1 DEF LastOf

LEMMA WaitKept ==
  ASSUME NEW n \in Nat, NEW rows, DOMAIN rows = 1..n, WaitOf(rows) # {},
         NEW next, WaitOf(next) = WaitOf(rows), \A i \in Seen(rows) : next[i].count = rows[i].count
  PROVE  next[Max(WaitOf(next))].count = rows[Max(WaitOf(rows))].count
<1>1. Max(WaitOf(rows)) \in WaitOf(rows)
  BY MaxIsLargest DEF WaitOf
<1>2. Max(WaitOf(rows)) \in Seen(rows)
  BY <1>1 DEF WaitOf, Seen
<1>3. QED
  BY <1>2

LEMMA LastRow ==
  ASSUME NEW n \in Nat, NEW rows, DOMAIN rows = 1..n, n >= 1, Committed(rows[n])
  PROVE  /\ LastOf(rows) = rows[n].count
         /\ rows[n].changed /\ ~rows[n].synced => WaitOf(rows) # {} /\ Max(WaitOf(rows)) = n
<1>1. n \in Seen(rows)
  BY DEF Seen
<1>2. Max(Seen(rows)) = n
  BY <1>1, MaxIsEnd DEF Seen
<1>3. ASSUME rows[n].changed, ~rows[n].synced PROVE WaitOf(rows) # {} /\ Max(WaitOf(rows)) = n
  <2>1. n \in WaitOf(rows)
    BY <1>3 DEF WaitOf
  <2>2. WaitOf(rows) \subseteq 1..n
    BY DEF WaitOf
  <2>3. QED
    BY <2>1, <2>2, MaxIsEnd
<1>4. QED
  BY <1>2, <1>3 DEF LastOf

LEMMA AppendedRow ==
  ASSUME NEW T, NEW rows \in Seq(T), NEW row \in T
  PROVE  /\ Append(rows, row) \in Seq(T) /\ Len(Append(rows, row)) = Len(rows) + 1
         /\ DOMAIN Append(rows, row) = 1..(Len(rows) + 1)
         /\ \A i \in 1..Len(rows) : Append(rows, row)[i] = rows[i]
         /\ Append(rows, row)[Len(rows) + 1] = row
<1>1. Append(rows, row) \in Seq(T) /\ Len(Append(rows, row)) = Len(rows) + 1
  OBVIOUS
<1>2. QED
  BY <1>1

-----------------------------------------------------------------------------
(* The count: types and invariant *)

Exc == "count" \in excused
Edit == [pc : {"idle", "import", "bulk", "count", "last", "insert"},
         locs : SUBSET Locations, count : Counts, changed : BOOLEAN]
Attaching == [pc : {"idle", "quantity", "subscribe", "store", "mark"},
              rate : Rates \cup {None}, fee : Fees \cup {None}, qty : Counts \cup {None}]
Tick == [pc : {"idle", "push", "mark"}, qty : Counts \cup {None}]

EditType ==
    /\ locState \in [Locations -> {"none", "active", "archived"}]
    /\ edit \in [Editors -> Edit]
    /\ solo \subseteq Editors
SyncType ==
    /\ attach \in [Attaches -> Attaching]
    /\ tick \in [Ticks -> Tick]
    /\ keyed \in [fee : Fees \cup {None}, price : Rates \cup {None}, qty : Counts \cup {None}]
    /\ sub \in [made : BOOLEAN, qty : Counts \cup {None}, price : Rates \cup {None}]
BoundsType ==
    /\ excused \subseteq {"count", "rate", "fee"}
    /\ edits \in 0..MaxEdits /\ attaches \in 0..MaxAttaches
    /\ faults \in 0..MaxFaults

\* createTenant's row is there, a row of an open transaction is some onboarding's
\* and unsynced, and an onboarding's locations are nobody else's.
RowsInv ==
    /\ snaps \in Seq(Snapshot)
    /\ Len(snaps) >= 1 /\ Committed(snaps[1])
    /\ \A i \in DOMAIN snaps : ~Committed(snaps[i]) => ~snaps[i].synced
    /\ \A i \in DOMAIN snaps : snaps[i].by \in Editors => edit[snaps[i].by].pc = "bulk"
    /\ \A e \in Editors : edit[e].pc = "bulk" => \A l \in edit[e].locs : locState[l] = "none"
    /\ \A d, e \in Editors : d # e /\ edit[d].pc = "bulk" /\ edit[e].pc = "bulk" =>
                               edit[d].locs \cap edit[e].locs = {}

\* What an onboarding that nothing overlaps is about to commit.
BulkRows(e) ==
    /\ snaps[Len(snaps)].by = e
    /\ snaps[Len(snaps)].count = ActiveCount + Cardinality(edit[e].locs)
    /\ ~snaps[Len(snaps)].changed =>
         /\ snaps[Len(snaps)].count = LastCount
         /\ \A i \in DOMAIN snaps : snaps[i].by = e => ~snaps[i].changed

\* An edit that no other has overlapped holds what it has read.
SoloInv ==
    \A e \in solo :
        /\ Editing = {e}
        /\ edit[e].pc \in {"last", "insert"} => edit[e].count = ActiveCount
        /\ edit[e].pc = "insert" => (edit[e].changed <=> LastCount # edit[e].count)
        /\ edit[e].pc = "bulk" => BulkRows(e)

Free == \A e \in Editors : edit[e].pc \in {"idle", "bulk"}
LastInv == ~Exc /\ Free => LastCount = ActiveCount
WaitInv == ~Exc /\ Waiting # {} => snaps[Max(Waiting)].count = LastCount

TickInv ==
    \A w \in Ticks : tick[w].pc # "idle" =>
        /\ attached
        /\ ~Exc => tick[w].qty = LastCount
        /\ ~Exc /\ tick[w].pc = "mark" => sub.qty = LastCount

\* Until it is stored, the subscription has the quantity its key was used with.
QuantityInv ==
    /\ \A a \in Attaches : attach[a].pc \in {"subscribe", "store", "mark"} =>
         /\ attach[a].qty # None
         /\ ~Exc => attach[a].qty = LastCount
         /\ attach[a].pc = "store" /\ ~attached => attach[a].qty = keyed.qty
    /\ sub.made /\ ~attached => sub.qty = keyed.qty /\ keyed.qty # None

SubInv == attached /\ ~Exc /\ Waiting = {} => sub.qty = LastCount

CountInv ==
    /\ TermsInv /\ EditType /\ SyncType /\ BoundsType
    /\ RowsInv /\ SoloInv /\ LastInv /\ WaitInv /\ TickInv /\ QuantityInv /\ SubInv

LEMMA TypesOfCount ==
  ASSUME CountInv
  PROVE  TypeOK
BY DEF CountInv, TermsInv, TermsType, Setting, EditType, SyncType, BoundsType, RowsInv, TypeOK,
       Edit, Attaching, Tick

-----------------------------------------------------------------------------

Active == {l \in Locations : locState[l] = "active"}

LEMMA LocationsFinite ==
  ASSUME BillingAssumption
  PROVE  /\ Cardinality(Locations) \in Nat
         /\ \A T \in SUBSET Locations :
              IsFiniteSet(T) /\ Cardinality(T) \in Nat /\ Cardinality(T) <= Cardinality(Locations)
<1>1. Cardinality(Locations) \in Nat
  BY FS_CardinalityType DEF BillingAssumption
<1>2. ASSUME NEW T \in SUBSET Locations
      PROVE  IsFiniteSet(T) /\ Cardinality(T) \in Nat /\ Cardinality(T) <= Cardinality(Locations)
  <2>1. IsFiniteSet(T) /\ Cardinality(T) <= Cardinality(Locations)
    BY FS_Subset DEF BillingAssumption
  <2>2. QED
    BY <2>1, FS_CardinalityType
<1>3. QED
  BY <1>1, <1>2

LEMMA ActiveCounts ==
  ASSUME BillingAssumption
  PROVE  ActiveCount \in Counts
<1>1. Active \in SUBSET Locations /\ ActiveCount = Cardinality(Active)
  BY DEF Active, ActiveCount
<1>2. QED
  BY <1>1, LocationsFinite DEF Counts

\* Locations that are not there yet add up to those that are.
LEMMA AddedCount ==
  ASSUME BillingAssumption, NEW T \in SUBSET Locations, \A l \in T : locState[l] = "none"
  PROVE  /\ Cardinality(Active \cup T) = ActiveCount + Cardinality(T)
         /\ ActiveCount + Cardinality(T) <= Cardinality(Locations)
         /\ Cardinality(T) \in Nat
<1>1. Active \in SUBSET Locations /\ ActiveCount = Cardinality(Active) /\ Active \cap T = {}
  BY DEF Active, ActiveCount
<1>2. IsFiniteSet(Active) /\ IsFiniteSet(T) /\ Cardinality(T) \in Nat /\ Cardinality(Active) \in Nat
  BY <1>1, LocationsFinite
<1>3. Cardinality(Active \cup T) = Cardinality(Active) + Cardinality(T) - Cardinality(Active \cap T)
  BY <1>2, FS_Union
<1>4. Cardinality(Active \cap T) = 0
  BY <1>1, FS_EmptySet
<1>5. Cardinality(Active \cup T) <= Cardinality(Locations)
  BY <1>1, LocationsFinite
<1>6. QED
  BY <1>1, <1>2, <1>3, <1>4, <1>5

LEMMA RowsDomain ==
  ASSUME BillingAssumption, RowsInv
  PROVE  /\ Len(snaps) \in Nat /\ DOMAIN snaps = 1..Len(snaps)
         /\ \A i \in DOMAIN snaps : snaps[i] \in Snapshot
         /\ Seen(snaps) # {} /\ LastCount \in Counts
         /\ \A i \in DOMAIN snaps : snaps[i].count \in Counts
<1>1. Len(snaps) \in Nat /\ DOMAIN snaps = 1..Len(snaps) /\ \A i \in DOMAIN snaps : snaps[i] \in Snapshot
  BY LenProperties DEF RowsInv
<1>2. 1 \in Seen(snaps)
  BY <1>1 DEF RowsInv, Seen
<1>3. Max(Seen(snaps)) \in Seen(snaps)
  BY <1>1, <1>2, MaxIsLargest DEF Seen
<1>4. Max(Seen(snaps)) \in DOMAIN snaps
  BY <1>3 DEF Seen
<1>5. \A i \in DOMAIN snaps : snaps[i].count \in Counts
  BY <1>1 DEF Snapshot
<1>6. QED
  BY <1>1, <1>2, <1>4, <1>5, OfSnaps DEF LastOf

LEMMA CountStart ==
  ASSUME BillingAssumption, Init
  PROVE  CountInv
<1> DEFINE n == 1 + Cardinality(Provisioned)
<1>1. /\ Cardinality(Provisioned) \in Nat /\ Cardinality(Provisioned) <= Cardinality(Locations)
      /\ Cardinality(Locations) \in Nat
  BY LocationsFinite DEF BillingAssumption
<1>2. n \in Nat /\ n >= 1
  BY <1>1
<1>3. snaps = [i \in 1..n |-> Row(i - 1, TRUE, None)]
  BY DEF Init
<1>4. \A i \in 1..n : Row(i - 1, TRUE, None) \in Snapshot
  <2>1. \A i \in 1..n : i - 1 \in Counts
    BY <1>1 DEF Counts
  <2>2. QED
    BY <2>1 DEF Row, Snapshot
<1> HIDE DEF n
<1>5. snaps \in [1..n -> Snapshot]
  BY <1>3, <1>4
<1>6. snaps \in Seq(Snapshot) /\ DOMAIN snaps = 1..n /\ Len(snaps) = n
  <2>1. snaps \in Seq(Snapshot)
    BY <1>2, <1>5, SeqDef
  <2>2. QED
    BY <1>2, <1>5, <2>1, LenProperties
<1>7. \A i \in 1..n : /\ snaps[i].by = None /\ snaps[i].count = i - 1
                       /\ snaps[i].changed = TRUE /\ snaps[i].synced = FALSE
  BY <1>3 DEF Row
<1>8. \A e \in Editors : edit[e] = NoEdit
  BY DEF Init
<1>9. RowsInv
  BY <1>2, <1>6, <1>7, <1>8 DEF RowsInv, Committed, NoEdit, BillingAssumption
<1>10. LastCount = Cardinality(Provisioned)
  <2>1. LastOf(snaps) = snaps[n].count
    BY <1>2, <1>6, <1>7, LastRow DEF Committed
  <2>2. QED
    BY <1>1, <1>2, <1>7, <2>1, OfSnaps DEF n
<1>11. ActiveCount = Cardinality(Provisioned)
  <2>1. {l \in Locations : locState[l] = "active"} = Provisioned
    BY DEF Init, BillingAssumption
  <2>2. QED
    BY <2>1 DEF ActiveCount
<1>12. LastInv
  BY <1>10, <1>11 DEF LastInv
<1>13. WaitInv
  <2>1. Max(WaitOf(snaps)) = n /\ LastOf(snaps) = snaps[n].count
    BY <1>2, <1>6, <1>7, LastRow DEF Committed
  <2>2. QED
    BY <2>1, OfSnaps DEF WaitInv
<1>14. EditType
  <2>1. NoEdit \in Edit
    BY <1>1 DEF NoEdit, Edit, Counts
  <2>2. QED
    BY <2>1 DEF Init, EditType
<1>15. SyncType
  BY DEF Init, SyncType, Attaching, Tick, NoAttach, NoTick, NoKeys, NoSub
<1>16. BoundsType
  BY DEF Init, BoundsType, BillingAssumption
<1>17. SoloInv /\ TickInv /\ QuantityInv /\ SubInv
  BY DEF Init, SoloInv, TickInv, QuantityInv, SubInv, NoAttach, NoTick, NoSub
<1>18. QED
  BY <1>9, <1>12, <1>13, <1>14, <1>15, <1>16, <1>17, TermsStart DEF CountInv

-----------------------------------------------------------------------------
(* The history and the counters stay within their bounds *)

LEMMA BoundsStep ==
  ASSUME BillingAssumption, TermsInv, BoundsType, Next
  PROVE  BoundsType'
<1>0. /\ MaxEdits \in Nat /\ MaxAttaches \in Nat /\ MaxFaults \in Nat
      /\ edits \in Nat /\ attaches \in Nat /\ faults \in Nat
      /\ edits <= MaxEdits /\ attaches <= MaxAttaches /\ faults <= MaxFaults
      /\ excused \subseteq {"count", "rate", "fee"}
  BY DEF BoundsType, BillingAssumption
<1> DEFINE Fine == /\ edits' \in {edits} \cup (IF edits < MaxEdits THEN {edits + 1} ELSE {})
                   /\ attaches' \in {attaches} \cup (IF attaches < MaxAttaches THEN {attaches + 1} ELSE {})
                   /\ faults' \in {faults} \cup (IF faults < MaxFaults THEN {faults + 1} ELSE {})
                   /\ excused' \subseteq {"count", "rate", "fee"}
<1>1. ASSUME Fine PROVE BoundsType'
  <2>1. /\ edits' \in 0..MaxEdits /\ attaches' \in 0..MaxAttaches
        /\ faults' \in 0..MaxFaults
    BY <1>0, <1>1
  <2>2. QED
    BY <1>1, <2>1 DEF BoundsType
<1> USE <1>0 DEF bounds, locVars, tenantVars, settingVars, stripeVars
<1>2. ASSUME NEW e \in Editors, NEW l \in Locations, ChangeLocation(e, l) \/ ImportRow(e, l) PROVE Fine
  BY <1>2 DEF ChangeLocation, ImportRow, StartEdit
<1>3. ASSUME NEW e \in Editors, NEW ls \in SUBSET Locations, BulkBegin(e, ls) PROVE Fine
  <2>1. StartEdit(e)
    BY <1>3, Zenon DEF BulkBegin
  <2>2. QED
    BY <2>1 DEF StartEdit
<1>4. ASSUME NEW e \in Editors, EditStep(e) PROVE Fine
  <2>1. CASE ImportEnd(e) \/ CountActive(e) \/ ReadLast(e)
    BY <2>1 DEF ImportEnd, CountActive, ReadLast
  <2>2. CASE BulkCommit(e)
    BY <2>2 DEF BulkCommit, Taken
  <2>3. CASE InsertSnapshot(e)
    BY <2>3 DEF InsertSnapshot, Taken
  <2>4. QED
    BY <1>4, <2>1, <2>2, <2>3 DEF EditStep
<1>5. ASSUME NEW a \in Attaches, AttachRead(a) \/ AttachStep(a) PROVE Fine
  <2>1. CASE AttachRead(a)
    BY <2>1 DEF AttachRead
  <2>2. CASE AttachQuantity(a) \/ AttachSubscribe(a) \/ AttachStore(a) \/ AttachMark(a)
    BY <2>2 DEF AttachQuantity, AttachSubscribe, AttachStore, AttachMark
  <2>3. CASE AttachFails(a)
    BY <2>3 DEF AttachFails
  <2>4. QED
    BY <1>5, <2>1, <2>2, <2>3 DEF AttachStep
<1>6. ASSUME NEW w \in Ticks, TickStep(w) PROVE Fine
  BY <1>6 DEF TickStep, SyncSelect, SyncPush, SyncPushFails, SyncMark
<1>7. ASSUME NEW s \in Settings, NEW field \in {"rate", "fee"}, NEW new,
             NEW at, NEW route, StartSetting(s, field, new, at, route)
      PROVE  Fine
  BY <1>7 DEF StartSetting
<1>8. ASSUME NEW s \in Settings, SettingStep(s) PROVE Fine
  <2>1. CASE PushRate(s) \/ PushRateFails(s) \/ SettingRead(s)
    BY <2>1 DEF PushRate, PushRateFails, SettingRead
  <2>2. CASE SettingWrite(s)
    <3>1. setting[s].field \in {"rate", "fee"}
      BY DEF TermsInv, TermsType, Setting
    <3>2. QED
      BY <2>2, <3>1 DEF SettingWrite
  <2>3. QED
    BY <1>8, <2>1, <2>2 DEF SettingStep
<1>9. ASSUME Crash PROVE Fine
  BY <1>9 DEF Crash
<1> HIDE DEF Fine
<1>10. Fine
  <2>1. ASSUME NEW s \in Settings, NEW new, EditRate(s, new) \/ PatchTenant(s, "rate", new)
                                            \/ EditFee(s, new) \/ PatchTenant(s, "fee", new)
        PROVE Fine
    BY <2>1, <1>7 DEF EditRate, EditFee, PatchTenant
  <2>2. QED
    BY <1>2, <1>3, <1>4, <1>5, <1>6, <1>8, <1>9, <2>1 DEF Next
<1>11. QED
  BY <1>1, <1>10

-----------------------------------------------------------------------------
(* The edits of locations *)

LEMMA NextRows == LastCount' = LastOf(snaps') /\ Waiting' = WaitOf(snaps')
BY DEF LastCount, Waiting, LastOf, WaitOf, Seen

\* What is charged, and what is on its way to be.
SyncInv == SyncType /\ WaitInv /\ TickInv /\ QuantityInv /\ SubInv

LEMMA SyncAside ==
  ASSUME SyncInv, UNCHANGED <<snaps, excused, attached, attach, tick, keyed, sub>>
  PROVE  SyncInv'
<1>1. LastCount' = LastCount /\ Waiting' = Waiting
  BY NextRows, OfSnaps
<1>2. SyncType' /\ TickInv' /\ QuantityInv' /\ SubInv'
  BY <1>1 DEF SyncInv, SyncType, TickInv, QuantityInv, SubInv, Exc
<1>3. WaitInv'
  BY <1>1 DEF SyncInv, WaitInv, Exc
<1>4. QED
  BY <1>2, <1>3 DEF SyncInv

EditInv == EditType /\ RowsInv /\ SoloInv /\ LastInv

\* A step of an editor that is its first, or leaves it under way.
LEMMA ChangeKeeps ==
  ASSUME BillingAssumption, EditInv, NEW e \in Editors, NEW l \in Locations,
         ChangeLocation(e, l) \/ ImportRow(e, l)
  PROVE  EditInv'
<1> USE DEF locVars, EditInv
<1>1. /\ edit' = [edit EXCEPT ![e] = edit'[e]] /\ edit'[e] \in Edit
      /\ edit'[e].pc \in {"import", "count"} /\ edit'[e].locs = edit[e].locs
      /\ edit[e].pc # "bulk"
      /\ \A d \in Editors \ {e} : edit'[d] = edit[d]
  BY DEF ChangeLocation, ImportRow, StartEdit, EditType, Edit
<1>2. locState' \in [Locations -> {"none", "active", "archived"}]
  BY DEF ChangeLocation, ImportRow, EditType
<1>3. \A k \in Locations : locState[k] = "none" /\ locState'[k] # "none" =>
        k = l /\ \A d \in Editors : l \notin edit[d].locs
  BY DEF ChangeLocation, ImportRow, EditType, Creatable
<1>4. snaps' = snaps
  BY DEF ChangeLocation, ImportRow
<1>5. \/ solo' = solo /\ edit[e].pc = "import"
      \/ solo' = {}
      \/ solo' = {e} /\ Editing = {}
  BY DEF ChangeLocation, ImportRow, StartEdit
<1>6. EditType'
  BY <1>1, <1>2, <1>5 DEF EditType
<1>7. RowsInv'
  <2>1. \A d \in Editors : edit'[d].pc = "bulk" => \A k \in edit'[d].locs : locState'[k] = "none"
    BY <1>1, <1>3 DEF RowsInv, EditType, Edit
  <2>2. \A i \in DOMAIN snaps' : snaps'[i].by \in Editors => edit'[snaps'[i].by].pc = "bulk"
    BY <1>1, <1>4 DEF RowsInv
  <2>3. \A c, d \in Editors : c # d /\ edit'[c].pc = "bulk" /\ edit'[d].pc = "bulk" =>
                             edit'[c].locs \cap edit'[d].locs = {}
    BY <1>1 DEF RowsInv
  <2>4. QED
    BY <1>4, <2>1, <2>2, <2>3 DEF RowsInv, Committed
<1>8. \A d \in solo' : d = e /\ Editing' = {e}
  <2>1. edit[e].pc = "import" => e \in Editing
    BY DEF Editing
  <2>2. \A d \in solo' : d = e /\ Editing \subseteq {e}
    BY <1>5, <2>1 DEF SoloInv
  <2>3. Editing \subseteq {e} => Editing' = {e}
    BY <1>1 DEF Editing
  <2>4. QED
    BY <2>2, <2>3
<1>9. SoloInv'
  BY <1>1, <1>8 DEF SoloInv
<1>10. ~Free'
  BY <1>1 DEF Free
<1>11. QED
  BY <1>6, <1>7, <1>9, <1>10 DEF LastInv

LEMMA CountingKeeps ==
  ASSUME BillingAssumption, EditInv, NEW e \in Editors, ImportEnd(e) \/ CountActive(e) \/ ReadLast(e)
  PROVE  EditInv'
<1> USE DEF EditInv
<1>1. /\ UNCHANGED <<locState, snaps, solo>>
      /\ edit' = [edit EXCEPT ![e] = edit'[e]]
      /\ edit[e].pc \in {"import", "count", "last"} /\ edit'[e].pc \in {"count", "last", "insert"}
      /\ \A d \in Editors \ {e} : edit'[d] = edit[d]
  BY DEF ImportEnd, CountActive, ReadLast, EditType, Edit
<1>2. ActiveCount \in Counts
  BY ActiveCounts
<1>3. /\ edit'[e] \in Edit
      /\ edit'[e].pc = "last" => edit'[e].count = ActiveCount
      /\ edit'[e].pc = "insert" => /\ edit[e].pc = "last" /\ edit'[e].count = edit[e].count
                                   /\ edit'[e].changed <=> LastCount # edit[e].count
  BY <1>2 DEF ImportEnd, CountActive, ReadLast, EditType, Edit
<1>4. LastCount' = LastCount /\ ActiveCount' = ActiveCount
  BY <1>1, NextRows, OfSnaps DEF ActiveCount
<1>5. EditType'
  BY <1>1, <1>3 DEF EditType
<1>6. RowsInv'
  <2>1. \A c, d \in Editors : c # d /\ edit'[c].pc = "bulk" /\ edit'[d].pc = "bulk" =>
                             edit'[c].locs \cap edit'[d].locs = {}
    BY <1>1 DEF RowsInv
  <2>2. QED
    BY <1>1, <2>1 DEF RowsInv
<1>7. \A d \in solo' : d = e /\ Editing' = {e}
  <2>1. e \in Editing /\ Editing' = Editing
    BY <1>1 DEF Editing
  <2>2. QED
    BY <1>1, <2>1 DEF SoloInv
<1>8. SoloInv'
  BY <1>1, <1>3, <1>4, <1>7 DEF SoloInv
<1>9. ~Free'
  BY <1>1 DEF Free
<1>10. QED
  BY <1>5, <1>6, <1>8, <1>9 DEF LastInv


\* Rows come that change neither the last count nor the rows that wait.
LEMMA SyncKept ==
  ASSUME BillingAssumption, RowsInv, SyncInv, UNCHANGED <<attached, attach, tick, keyed, sub>>,
         Exc => Exc', LastCount' = LastCount, WaitOf(snaps') = WaitOf(snaps),
         \A i \in Seen(snaps) : snaps'[i].count = snaps[i].count
  PROVE  SyncInv'
<1>1. Waiting' = Waiting
  BY NextRows, OfSnaps
<1>2. SyncType' /\ TickInv' /\ QuantityInv' /\ SubInv'
  BY <1>1 DEF SyncInv, SyncType, TickInv, QuantityInv, SubInv
<1>3. Waiting # {} => snaps'[Max(Waiting')].count = snaps[Max(Waiting)].count
  BY RowsDomain, WaitKept, NextRows, OfSnaps
<1>4. WaitInv'
  BY <1>1, <1>3 DEF SyncInv, WaitInv
<1>5. QED
  BY <1>2, <1>4 DEF SyncInv

LEMMA BulkBeginKeeps ==
  ASSUME BillingAssumption, EditInv, SyncInv, NEW e \in Editors, NEW ls \in SUBSET Locations, BulkBegin(e, ls)
  PROVE  EditInv' /\ SyncInv'
<1> USE DEF EditInv
<1>1. PICK n : n = Len(snaps)
  OBVIOUS
<1>2. PICK c : c = Cardinality(ls)
  OBVIOUS
<1>3. /\ StartEdit(e) /\ locState' = locState
      /\ ls # {} /\ ls \subseteq Creatable
      /\ edit' = [edit EXCEPT ![e] = [NoEdit EXCEPT !.pc = "bulk", !.locs = ls]]
  BY Zenon DEF BulkBegin
<1>4. /\ UNCHANGED <<attached, attach, tick, keyed, sub, excused>>
      /\ edit[e].pc = "idle" /\ solo' \in {{}, {e}} /\ (solo' = {e} => Editing = {})
  BY <1>3 DEF StartEdit, tenantVars, stripeVars
<1>5. PICK added : /\ added = [i \in 1..c |-> Row(ActiveCount + i, i > 1 \/ ActiveCount + 1 # LastCount, e)]
                   /\ snaps' = snaps \o added
  BY <1>2 DEF BulkBegin
<1>6. \A l \in ls : locState[l] = "none" /\ \A d \in Editors : l \notin edit[d].locs
  BY <1>3 DEF Creatable
<1>7. /\ ActiveCount + c <= Cardinality(Locations) /\ c \in Nat
      /\ ActiveCount \in Nat /\ Cardinality(Locations) \in Nat /\ c >= 1
  <2>1. IsFiniteSet(ls)
    BY LocationsFinite
  <2>2. c # 0
    BY <1>2, <1>3, <2>1, FS_EmptySet
  <2>3. ActiveCount \in Nat /\ Cardinality(Locations) \in Nat
    BY ActiveCounts, LocationsFinite DEF Counts
  <2>4. ActiveCount + c <= Cardinality(Locations) /\ c \in Nat
    BY <1>2, <1>6, AddedCount
  <2>5. QED
    BY <2>2, <2>3, <2>4
<1>8. added \in Seq(Snapshot) /\ Len(added) = c
  <2>1. \A i \in 1..c : ActiveCount + i \in Counts
    BY <1>7 DEF Counts
  <2>2. \A i \in 1..c : added[i] \in Snapshot
    BY <1>5, <2>1 DEF Row, Snapshot
  <2>3. added \in [1..c -> Snapshot]
    BY <1>5, <2>2
  <2>4. QED
    BY <1>7, <2>3, SeqDef, LenProperties
<1>9. /\ n \in Nat /\ n >= 1 /\ DOMAIN snaps = 1..n /\ Seen(snaps) # {}
  BY <1>1, RowsDomain DEF RowsInv
<1>10. /\ snaps' \in Seq(Snapshot) /\ Len(snaps') = n + c /\ DOMAIN snaps' = 1..(n + c)
       /\ \A i \in 1..n : snaps'[i] = snaps[i]
       /\ \A i \in (n + 1)..(n + c) : snaps'[i] = added[i - n]
  <2>1. /\ snaps \o added \in Seq(Snapshot) /\ Len(snaps \o added) = n + c
        /\ \A i \in 1..(n + c) : (snaps \o added)[i] = IF i <= n THEN snaps[i] ELSE added[i - n]
    <3>1. /\ snaps \o added \in Seq(Snapshot) /\ Len(snaps \o added) = Len(snaps) + Len(added)
          /\ \A i \in 1..(Len(snaps) + Len(added)) :
                (snaps \o added)[i] = IF i <= Len(snaps) THEN snaps[i] ELSE added[i - Len(snaps)]
      <4>1. snaps \in Seq(Snapshot)
        BY DEF RowsInv
      <4>2. QED
        BY <1>8, <4>1, ConcatProperties, Zenon
    <3>2. QED
      BY <1>1, <1>8, <3>1, Zenon
  <2>2. DOMAIN (snaps \o added) = 1..(n + c)
    BY <2>1, LenProperties
  <2>3. /\ \A i \in 1..n : i \in 1..(n + c) /\ i <= n
        /\ \A i \in (n + 1)..(n + c) : i \in 1..(n + c) /\ ~(i <= n)
    BY <1>7, <1>9
  <2>4. /\ \A i \in 1..n : snaps'[i] = snaps[i]
        /\ \A i \in (n + 1)..(n + c) : snaps'[i] = added[i - n]
    BY <1>5, <2>1, <2>3, Zenon
  <2>5. QED
    BY <1>5, <2>1, <2>2, <2>4, Zenon
<1>11. \A i \in (n + 1)..(n + c) :
          /\ snaps'[i].count = ActiveCount + (i - n) /\ snaps'[i].by = e /\ ~snaps'[i].synced
          /\ ~Committed(snaps'[i])
          /\ snaps'[i].changed <=> i - n > 1 \/ ActiveCount + 1 # LastCount
  <2>1. ASSUME NEW i \in (n + 1)..(n + c)
        PROVE  snaps'[i] = Row(ActiveCount + (i - n), i - n > 1 \/ ActiveCount + 1 # LastCount, e)
    <3>1. i - n \in 1..c
      BY <1>7, <1>9
    <3>2. snaps'[i] = added[i - n]
      BY <1>10
    <3>3. QED
      BY <1>5, <3>1, <3>2
  <2>2. e # None
    BY DEF BillingAssumption
  <2>3. ASSUME NEW i \in (n + 1)..(n + c)
        PROVE  /\ snaps'[i].count = ActiveCount + (i - n) /\ snaps'[i].by = e /\ ~snaps'[i].synced
               /\ snaps'[i].changed = (i - n > 1 \/ ActiveCount + 1 # LastCount)
    <3>1. PICK b : b = (i - n > 1 \/ ActiveCount + 1 # LastCount)
      OBVIOUS
    <3>2. snaps'[i] = Row(ActiveCount + (i - n), b, e)
      BY <2>1, <3>1
    <3>3. QED
      BY <3>1, <3>2 DEF Row
  <2>4. QED
    BY <2>2, <2>3, Zenon DEF Committed
<1>12. Seen(snaps') = Seen(snaps) /\ WaitOf(snaps') = WaitOf(snaps)
  <2>1. \A i : i \in DOMAIN snaps' <=> i \in DOMAIN snaps \/ i \in (n + 1)..(n + c)
    BY <1>7, <1>9, <1>10
  <2>2. \A i \in DOMAIN snaps : snaps'[i] = snaps[i]
    BY <1>9, <1>10
  <2>3. \A i : i \in DOMAIN snaps' /\ Committed(snaps'[i]) <=> i \in DOMAIN snaps /\ Committed(snaps[i])
    BY <1>11, <2>1, <2>2
  <2>4. QED
    BY <2>2, <2>3 DEF Seen, WaitOf
<1>13. \A i \in Seen(snaps) : snaps'[i].count = snaps[i].count
  BY <1>9, <1>10 DEF Seen
<1>14. LastCount' = LastCount /\ ActiveCount' = ActiveCount
  BY <1>3, <1>9, <1>12, <1>13, SeenKept, NextRows, OfSnaps DEF ActiveCount
<1>15. SyncInv'
  BY <1>4, <1>12, <1>13, <1>14, SyncKept DEF Exc
<1>16. /\ edit'[e] \in Edit /\ edit'[e].pc = "bulk" /\ edit'[e].locs = ls
       /\ \A d \in Editors \ {e} : edit'[d] = edit[d]
       /\ edit' \in [Editors -> Edit]
  <2>1. PICK x : x = [NoEdit EXCEPT !.pc = "bulk", !.locs = ls]
    OBVIOUS
  <2>2. edit \in [Editors -> Edit] /\ NoEdit \in Edit
    BY <1>7 DEF EditType, NoEdit, Edit, Counts
  <2>3. x \in Edit /\ x.pc = "bulk" /\ x.locs = ls
    BY <2>1, <2>2 DEF Edit
  <2>4. edit' = [edit EXCEPT ![e] = x]
    BY <1>3, <2>1
  <2>5. QED
    BY <2>2, <2>3, <2>4
<1>17. EditType'
  BY <1>3, <1>4, <1>16 DEF EditType
<1>18. RowsInv'
  <2>1. Len(snaps') >= 1 /\ Committed(snaps'[1])
    BY <1>1, <1>7, <1>9, <1>10 DEF RowsInv
  <2>2. \A i \in DOMAIN snaps' : /\ ~Committed(snaps'[i]) => ~snaps'[i].synced
                                 /\ snaps'[i].by \in Editors => edit'[snaps'[i].by].pc = "bulk"
    <3>1. \A i \in 1..n : /\ ~Committed(snaps'[i]) => ~snaps'[i].synced
                          /\ snaps'[i].by \in Editors => edit'[snaps'[i].by].pc = "bulk"
      <4>1. ASSUME NEW i \in 1..n
            PROVE  /\ ~Committed(snaps'[i]) => ~snaps'[i].synced
                   /\ snaps'[i].by \in Editors => edit'[snaps'[i].by].pc = "bulk"
        <5>1. i \in DOMAIN snaps /\ snaps'[i] = snaps[i]
          BY <1>9, <1>10
        <5>2. /\ ~Committed(snaps[i]) => ~snaps[i].synced
              /\ snaps[i].by \in Editors => edit[snaps[i].by].pc = "bulk"
          BY <5>1 DEF RowsInv
        <5>3. \A d \in Editors : edit[d].pc = "bulk" => edit'[d].pc = "bulk"
          BY <1>4, <1>16
        <5>4. QED
          BY <5>1, <5>2, <5>3
      <4>2. QED
        BY <4>1
    <3>2. \A i \in (n + 1)..(n + c) : /\ ~Committed(snaps'[i]) => ~snaps'[i].synced
                                      /\ snaps'[i].by \in Editors => edit'[snaps'[i].by].pc = "bulk"
      BY <1>11, <1>16
    <3>3. QED
      BY <1>7, <1>9, <1>10, <3>1, <3>2
  <2>3. \A d \in Editors : edit'[d].pc = "bulk" => \A l \in edit'[d].locs : locState'[l] = "none"
    BY <1>3, <1>6, <1>16 DEF RowsInv
  <2>4. \A b, d \in Editors : b # d /\ edit'[b].pc = "bulk" /\ edit'[d].pc = "bulk" =>
                             edit'[b].locs \cap edit'[d].locs = {}
    BY <1>6, <1>16 DEF RowsInv
  <2>5. QED
    BY <1>10, <2>1, <2>2, <2>3, <2>4 DEF RowsInv
<1>19. BulkRows(e)'
  <2>1. n + c \in (n + 1)..(n + c) /\ n + c = Len(snaps')
    BY <1>7, <1>9, <1>10
  <2>2. /\ snaps'[n + c].by = e /\ snaps'[n + c].count = ActiveCount + c
        /\ snaps'[n + c].changed <=> c > 1 \/ ActiveCount + 1 # LastCount
    BY <1>7, <1>9, <1>11, <2>1
  <2>3. ASSUME ~snaps'[n + c].changed
        PROVE  /\ snaps'[n + c].count = LastCount
               /\ \A i \in DOMAIN snaps' : snaps'[i].by = e => ~snaps'[i].changed
    <3>1. c = 1 /\ ActiveCount + 1 = LastCount
      BY <1>7, <2>2, <2>3
    <3>2. \A i \in 1..n : snaps'[i].by # e
      BY <1>4, <1>9, <1>10 DEF RowsInv
    <3>3. \A i \in DOMAIN snaps' : i \in 1..n \/ i = n + c
      BY <1>9, <1>10, <3>1
    <3>4. QED
      BY <2>2, <2>3, <3>1, <3>2, <3>3
  <2>4. QED
    BY <1>2, <1>14, <1>16, <2>1, <2>2, <2>3 DEF BulkRows
<1>20. SoloInv'
  <2>1. solo' = {e} => Editing' = {e}
    BY <1>4, <1>16 DEF Editing
  <2>2. QED
    BY <1>4, <1>16, <1>19, <2>1 DEF SoloInv
<1>21. LastInv'
  <2>1. Free' => Free
    BY <1>4, <1>16 DEF Free
  <2>2. QED
    BY <1>4, <1>14, <2>1 DEF LastInv, Exc
<1>22. QED
  BY <1>15, <1>17, <1>18, <1>20, <1>21


\* A race or a fault may have left the count apart: nothing more is claimed.
LEMMA SyncExcused ==
  ASSUME SyncInv, UNCHANGED <<attached, attach, tick, keyed, sub>>, Exc'
  PROVE  SyncInv'
BY DEF SyncInv, SyncType, WaitInv, TickInv, QuantityInv, SubInv

\* A changed row that overlaps no push: it waits, and it is the last.
LEMMA SyncFresh ==
  ASSUME SyncInv, UNCHANGED <<attached, attach, tick, keyed, sub>>, ~OverlapsPush,
         NEW n \in Nat, DOMAIN snaps' = 1..n, n >= 1,
         Committed(snaps'[n]), snaps'[n].changed, ~snaps'[n].synced
  PROVE  SyncInv'
<1>1. LastCount' = snaps'[n].count /\ Waiting' # {} /\ Max(Waiting') = n
  BY LastRow, NextRows
<1>2. WaitInv' /\ SubInv'
  BY <1>1 DEF WaitInv, SubInv
<1>3. SyncType' /\ TickInv' /\ QuantityInv'
  BY DEF SyncInv, SyncType, TickInv, QuantityInv, OverlapsPush
<1>4. QED
  BY <1>2, <1>3 DEF SyncInv

\* An editor that another one meets is no longer alone.
LEMMA SoloAlone ==
  ASSUME SoloInv, NEW e \in Editors, edit[e].pc # "idle"
  PROVE  solo \subseteq {e}
<1>1. e \in Editing
  BY DEF Editing
<1>2. QED
  BY <1>1 DEF SoloInv

LEMMA BulkCommitKeeps ==
  ASSUME BillingAssumption, EditInv, SyncInv, NEW e \in Editors, BulkCommit(e)
  PROVE  EditInv' /\ SyncInv'
<1> USE DEF EditInv
<1>1. PICK n : n = Len(snaps)
  OBVIOUS
<1>2. PICK ls : ls = edit[e].locs
  OBVIOUS
<1>3. /\ edit[e].pc = "bulk"
      /\ locState' = [l \in Locations |-> IF l \in ls THEN "active" ELSE locState[l]]
      /\ snaps' = [i \in DOMAIN snaps |-> IF snaps[i].by = e THEN [snaps[i] EXCEPT !.by = None] ELSE snaps[i]]
      /\ edit' = [edit EXCEPT ![e] = NoEdit]
      /\ UNCHANGED <<attached, attach, tick, keyed, sub>>
      /\ solo' = solo \ {e}
  BY <1>2 DEF BulkCommit, Taken, tenantVars, stripeVars
<1>4. \/ (e \notin solo \/ OverlapsPush) /\ Exc'
      \/ /\ e \in solo /\ ~OverlapsPush
         /\ (\A i \in DOMAIN snaps : snaps[i].by = e => ~snaps[i].changed) => (Exc' <=> Exc)
  BY DEF BulkCommit, Taken, Exc
<1>5. /\ n \in Nat /\ n >= 1 /\ DOMAIN snaps = 1..n /\ Seen(snaps) # {}
      /\ \A i \in DOMAIN snaps : snaps[i] \in Snapshot
  BY <1>1, RowsDomain DEF RowsInv
<1>6. \A i \in 1..n : /\ snaps'[i] \in Snapshot
                      /\ snaps'[i].count = snaps[i].count /\ snaps'[i].changed = snaps[i].changed
                      /\ snaps'[i].synced = snaps[i].synced
                      /\ snaps'[i].by = IF snaps[i].by = e THEN None ELSE snaps[i].by
  <2>1. ASSUME NEW i \in 1..n
        PROVE  /\ snaps'[i] \in Snapshot
               /\ snaps'[i].count = snaps[i].count /\ snaps'[i].changed = snaps[i].changed
               /\ snaps'[i].synced = snaps[i].synced
               /\ snaps'[i].by = IF snaps[i].by = e THEN None ELSE snaps[i].by
    <3>1. snaps[i] \in Snapshot
      BY <1>5
    <3>2. snaps'[i] = IF snaps[i].by = e THEN [snaps[i] EXCEPT !.by = None] ELSE snaps[i]
      BY <1>3, <1>5
    <3>3. QED
      BY <3>1, <3>2 DEF Snapshot
  <2>2. QED
    BY <2>1
<1>7. \A i \in 1..n : Committed(snaps'[i]) <=> Committed(snaps[i]) \/ snaps[i].by = e
  BY <1>6 DEF Committed
<1>8. snaps' \in Seq(Snapshot) /\ Len(snaps') = n /\ DOMAIN snaps' = 1..n
  <2>1. DOMAIN snaps' = 1..n
    BY <1>3, <1>5
  <2>2. snaps' \in [1..n -> Snapshot]
    BY <1>3, <1>5, <1>6, <2>1
  <2>3. snaps' \in Seq(Snapshot)
    BY <1>5, <2>2, SeqDef
  <2>4. QED
    BY <1>5, <2>1, <2>3, LenProperties
<1>9. solo' = {}
  BY <1>3, SoloAlone
<1>10. /\ ls \in SUBSET Locations /\ \A l \in ls : locState[l] = "none"
       /\ edit' \in [Editors -> Edit] /\ edit'[e].pc = "idle"
       /\ \A d \in Editors \ {e} : edit'[d] = edit[d]
  <2>1. NoEdit \in Edit
    BY LocationsFinite DEF NoEdit, Edit, Counts
  <2>2. ls \in SUBSET Locations
    BY <1>2 DEF EditType, Edit
  <2>3. \A l \in ls : locState[l] = "none"
    BY <1>2, <1>3 DEF RowsInv
  <2>4. QED
    BY <1>3, <2>1, <2>2, <2>3 DEF EditType, NoEdit
<1>11. EditType'
  BY <1>3, <1>9, <1>10 DEF EditType
<1>12. RowsInv'
  <2>1. Len(snaps') >= 1 /\ Committed(snaps'[1])
    BY <1>5, <1>7, <1>8 DEF RowsInv
  <2>2. \A i \in DOMAIN snaps' : /\ ~Committed(snaps'[i]) => ~snaps'[i].synced
                                 /\ snaps'[i].by \in Editors => snaps'[i].by = snaps[i].by /\ snaps[i].by # e
    BY <1>5, <1>6, <1>7, <1>8 DEF RowsInv, BillingAssumption
  <2>3. \A i \in DOMAIN snaps' : snaps'[i].by \in Editors => edit'[snaps'[i].by].pc = "bulk"
    BY <1>5, <1>8, <1>10, <2>2 DEF RowsInv
  <2>4. \A d \in Editors : edit'[d].pc = "bulk" => \A l \in edit'[d].locs : locState'[l] = "none"
    <3>1. ASSUME NEW d \in Editors, edit'[d].pc = "bulk", NEW l \in edit'[d].locs PROVE locState'[l] = "none"
      <4>1. d # e /\ edit'[d] = edit[d] /\ l \in Locations
        BY <1>10, <3>1 DEF EditType, Edit
      <4>2. locState[l] = "none" /\ l \notin ls
        BY <1>2, <1>3, <3>1, <4>1 DEF RowsInv
      <4>3. QED
        BY <1>3, <4>1, <4>2
    <3>2. QED
      BY <3>1
  <2>5. \A c, d \in Editors : c # d /\ edit'[c].pc = "bulk" /\ edit'[d].pc = "bulk" =>
                             edit'[c].locs \cap edit'[d].locs = {}
    BY <1>10 DEF RowsInv
  <2>6. QED
    BY <1>8, <2>1, <2>2, <2>3, <2>4, <2>5 DEF RowsInv
<1>13. SoloInv'
  BY <1>9 DEF SoloInv
<1>14. CASE e \notin solo \/ OverlapsPush
  <2>1. Exc'
    BY <1>4, <1>14
  <2>2. SyncInv'
    BY <1>3, <2>1, SyncExcused
  <2>3. QED
    BY <1>11, <1>12, <1>13, <2>1, <2>2 DEF LastInv
<1>15. CASE e \in solo /\ ~OverlapsPush
  <2>1. /\ snaps[n].by = e /\ snaps[n].count = ActiveCount + Cardinality(ls)
        /\ ~snaps[n].changed => /\ snaps[n].count = LastCount
                                /\ \A i \in DOMAIN snaps : snaps[i].by = e => ~snaps[i].changed
    BY <1>1, <1>2, <1>3, <1>15 DEF SoloInv, BulkRows
  <2>2. n \in 1..n /\ Committed(snaps'[n]) /\ ~snaps'[n].synced /\ snaps'[n].count = snaps[n].count
    BY <1>5, <1>6, <1>7, <2>1 DEF RowsInv, Committed, BillingAssumption
  <2>3. LastCount' = snaps[n].count
    BY <1>5, <1>8, <2>2, LastRow, NextRows
  <2>4. ActiveCount' = ActiveCount + Cardinality(ls)
    <3>1. {l \in Locations : locState'[l] = "active"} = Active \cup ls
      BY <1>3, <1>10 DEF Active
    <3>2. QED
      BY <1>10, <3>1, AddedCount DEF ActiveCount
  <2>5. LastInv'
    BY <2>1, <2>3, <2>4 DEF LastInv
  <2>6. CASE snaps[n].changed
    <3>1. SyncInv'
      BY <1>3, <1>5, <1>6, <1>8, <1>15, <2>2, <2>6, SyncFresh
    <3>2. QED
      BY <1>11, <1>12, <1>13, <2>5, <3>1
  <2>7. CASE ~snaps[n].changed
    <3>1. Exc' <=> Exc
      BY <1>4, <1>15, <2>1, <2>7
    <3>2. WaitOf(snaps') = WaitOf(snaps)
      <4>1. \A i \in 1..n : snaps'[i].changed /\ Committed(snaps'[i]) <=> snaps[i].changed /\ Committed(snaps[i])
        BY <1>5, <1>6, <1>7, <2>1, <2>7
      <4>2. QED
        BY <1>5, <1>6, <1>8, <4>1 DEF WaitOf
    <3>3. \A i \in Seen(snaps) : snaps'[i].count = snaps[i].count
      BY <1>5, <1>6 DEF Seen
    <3>4. SyncInv'
      BY <1>3, <2>1, <2>3, <2>7, <3>1, <3>2, <3>3, SyncKept
    <3>5. QED
      BY <1>11, <1>12, <1>13, <2>5, <3>4
  <2>8. QED
    BY <2>6, <2>7
<1>16. QED
  BY <1>14, <1>15

LEMMA InsertKeeps ==
  ASSUME BillingAssumption, EditInv, SyncInv, NEW e \in Editors, InsertSnapshot(e)
  PROVE  EditInv' /\ SyncInv'
<1> USE DEF EditInv
<1>1. PICK n : n = Len(snaps)
  OBVIOUS
<1>2. PICK row : row = Row(edit[e].count, edit[e].changed, None)
  OBVIOUS
<1>3. /\ edit[e].pc = "insert" /\ locState' = locState
      /\ snaps' = Append(snaps, row)
      /\ edit' = [edit EXCEPT ![e] = NoEdit]
      /\ UNCHANGED <<attached, attach, tick, keyed, sub>>
      /\ solo' = solo \ {e}
  BY <1>2 DEF InsertSnapshot, Taken, tenantVars, stripeVars
<1>4. \/ (e \notin solo \/ OverlapsPush) /\ Exc'
      \/ e \in solo /\ ~OverlapsPush /\ (~edit[e].changed => (Exc' <=> Exc))
  BY DEF InsertSnapshot, Taken, Exc
<1>5. /\ n \in Nat /\ n >= 1 /\ DOMAIN snaps = 1..n /\ Seen(snaps) # {}
  BY <1>1, RowsDomain DEF RowsInv
<1>6. /\ row \in Snapshot /\ row.count = edit[e].count /\ (row.changed <=> edit[e].changed)
      /\ ~row.synced /\ row.by = None
  <2>1. edit[e] \in Edit
    BY DEF EditType
  <2>2. QED
    BY <1>2, <2>1 DEF Edit, Row, Snapshot
<1>7. /\ snaps' \in Seq(Snapshot) /\ Len(snaps') = n + 1 /\ DOMAIN snaps' = 1..(n + 1)
      /\ \A i \in 1..n : snaps'[i] = snaps[i]
      /\ snaps'[n + 1] = row
  <2>1. snaps \in Seq(Snapshot)
    BY DEF RowsInv
  <2>2. /\ Append(snaps, row) \in Seq(Snapshot) /\ Len(Append(snaps, row)) = Len(snaps) + 1
        /\ DOMAIN Append(snaps, row) = 1..(Len(snaps) + 1)
        /\ \A i \in 1..Len(snaps) : Append(snaps, row)[i] = snaps[i]
        /\ Append(snaps, row)[Len(snaps) + 1] = row
    <3>1. row \in Snapshot
      BY <1>6
    <3>2. QED
      BY <2>1, <3>1, AppendedRow
  <2>3. QED
    BY <1>1, <1>3, <2>2, Zenon
<1>8. solo' = {}
  BY <1>3, SoloAlone
<1>9. /\ edit' \in [Editors -> Edit] /\ edit'[e].pc = "idle"
      /\ \A d \in Editors \ {e} : edit'[d] = edit[d]
  <2>1. NoEdit \in Edit
    BY LocationsFinite DEF NoEdit, Edit, Counts
  <2>2. QED
    BY <1>3, <2>1 DEF EditType, NoEdit
<1>10. EditType'
  BY <1>3, <1>8, <1>9 DEF EditType
<1>11. RowsInv'
  <2>1. Len(snaps') >= 1 /\ Committed(snaps'[1])
    BY <1>1, <1>5, <1>7 DEF RowsInv
  <2>2. \A i \in DOMAIN snaps' : i \in 1..n \/ snaps'[i] = row
    BY <1>5, <1>7
  <2>3. \A i \in 1..n : snaps[i].by # e
    BY <1>3, <1>5 DEF RowsInv
  <2>4. \A i \in DOMAIN snaps' : /\ ~Committed(snaps'[i]) => ~snaps'[i].synced
                                 /\ snaps'[i].by \in Editors => edit'[snaps'[i].by].pc = "bulk"
    BY <1>5, <1>6, <1>7, <1>9, <2>2, <2>3 DEF RowsInv, BillingAssumption
  <2>5. \A d \in Editors : edit'[d].pc = "bulk" => \A l \in edit'[d].locs : locState'[l] = "none"
    BY <1>3, <1>9 DEF RowsInv
  <2>6. \A c, d \in Editors : c # d /\ edit'[c].pc = "bulk" /\ edit'[d].pc = "bulk" =>
                             edit'[c].locs \cap edit'[d].locs = {}
    BY <1>9 DEF RowsInv
  <2>7. QED
    BY <1>7, <2>1, <2>4, <2>5, <2>6 DEF RowsInv
<1>12. SoloInv'
  BY <1>8 DEF SoloInv
<1>13. CASE e \notin solo \/ OverlapsPush
  <2>1. Exc'
    BY <1>4, <1>13
  <2>2. SyncInv'
    BY <1>3, <2>1, SyncExcused
  <2>3. QED
    BY <1>10, <1>11, <1>12, <2>1, <2>2 DEF LastInv
<1>14. CASE e \in solo /\ ~OverlapsPush
  <2>1. edit[e].count = ActiveCount /\ (edit[e].changed <=> LastCount # edit[e].count)
    BY <1>3, <1>14 DEF SoloInv
  <2>2. n + 1 \in Nat /\ n + 1 >= 1 /\ Committed(snaps'[n + 1])
    BY <1>5, <1>6, <1>7 DEF Committed
  <2>3. LastCount' = edit[e].count
    BY <1>6, <1>7, <2>2, LastRow, NextRows
  <2>4. LastInv'
    BY <1>3, <2>1, <2>3 DEF LastInv, ActiveCount
  <2>5. CASE edit[e].changed
    <3>1. SyncInv'
      BY <1>3, <1>6, <1>7, <1>14, <2>2, <2>5, SyncFresh
    <3>2. QED
      BY <1>10, <1>11, <1>12, <2>4, <3>1
  <2>6. CASE ~edit[e].changed
    <3>1. WaitOf(snaps') = WaitOf(snaps)
      <4>1. \A i : i \in 1..(n + 1) <=> i \in 1..n \/ i = n + 1
        BY <1>5
      <4>2. QED
        BY <1>5, <1>6, <1>7, <2>6, <4>1 DEF WaitOf
    <3>2. \A i \in Seen(snaps) : snaps'[i].count = snaps[i].count
      BY <1>5, <1>7 DEF Seen
    <3>3. SyncInv'
      BY <1>3, <1>4, <1>14, <2>1, <2>3, <2>6, <3>1, <3>2, SyncKept
    <3>4. QED
      BY <1>10, <1>11, <1>12, <2>4, <3>3
  <2>7. QED
    BY <2>5, <2>6
<1>15. QED
  BY <1>13, <1>14


-----------------------------------------------------------------------------
(* The attaches, the passes, the terms, and the crash *)

LEMMA EditAside ==
  ASSUME EditInv, UNCHANGED <<locState, snaps, edit, solo>>, Exc => Exc'
  PROVE  EditInv'
<1>1. LastCount' = LastCount /\ ActiveCount' = ActiveCount
  BY NextRows, OfSnaps DEF ActiveCount
<1>2. EditType' /\ RowsInv'
  BY DEF EditInv, EditType, RowsInv
<1>3. SoloInv'
  BY <1>1 DEF EditInv, SoloInv, Editing, BulkRows
<1>4. LastInv'
  BY <1>1 DEF EditInv, LastInv, Free
<1>5. QED
  BY <1>2, <1>3, <1>4 DEF EditInv

\* The committed rows are marked: none waits, and nothing else changes.
LEMMA MarkedRows ==
  ASSUME BillingAssumption, EditInv, snaps' = MarkSynced(snaps), UNCHANGED <<locState, edit, solo>>, Exc => Exc'
  PROVE  EditInv' /\ LastCount' = LastCount /\ Waiting' = {}
<1> USE DEF EditInv
<1>1. PICK n : n = Len(snaps)
  OBVIOUS
<1>2. /\ n \in Nat /\ n >= 1 /\ DOMAIN snaps = 1..n /\ Seen(snaps) # {}
      /\ \A i \in DOMAIN snaps : snaps[i] \in Snapshot
  BY <1>1, RowsDomain DEF RowsInv
<1>3. \A i \in 1..n : snaps'[i] = [snaps[i] EXCEPT !.synced = @ \/ Committed(snaps[i])]
  BY <1>2 DEF MarkSynced
<1>4. \A i \in 1..n : /\ snaps'[i] \in Snapshot
                      /\ snaps'[i].count = snaps[i].count /\ snaps'[i].changed = snaps[i].changed
                      /\ snaps'[i].by = snaps[i].by
                      /\ snaps'[i].synced <=> snaps[i].synced \/ Committed(snaps[i])
  <2>1. ASSUME NEW i \in 1..n
        PROVE  /\ snaps'[i] \in Snapshot
               /\ snaps'[i].count = snaps[i].count /\ snaps'[i].changed = snaps[i].changed
               /\ snaps'[i].by = snaps[i].by
               /\ snaps'[i].synced = (snaps[i].synced \/ Committed(snaps[i]))
    <3>1. PICK b \in BOOLEAN : b = (snaps[i].synced \/ Committed(snaps[i]))
      OBVIOUS
    <3>2. snaps'[i] = [snaps[i] EXCEPT !.synced = b] /\ snaps[i] \in Snapshot
      BY <1>2, <1>3, <3>1
    <3>3. QED
      BY <3>1, <3>2 DEF Snapshot
  <2>2. QED
    BY <2>1, Zenon
<1>5. snaps' \in Seq(Snapshot) /\ Len(snaps') = n /\ DOMAIN snaps' = 1..n
  <2>1. DOMAIN snaps' = 1..n
    BY <1>2 DEF MarkSynced
  <2>2. snaps' = [i \in 1..n |-> snaps'[i]]
    BY <1>2 DEF MarkSynced
  <2>3. snaps' \in [1..n -> Snapshot]
    BY <1>4, <2>2
  <2>4. snaps' \in Seq(Snapshot)
    BY <1>2, <2>3, SeqDef
  <2>5. QED
    BY <1>2, <2>1, <2>4, LenProperties
<1>6. Seen(snaps') = Seen(snaps)
  BY <1>2, <1>4, <1>5 DEF Seen, Committed
<1>7. \A i \in Seen(snaps) : snaps'[i].count = snaps[i].count
  BY <1>2, <1>4 DEF Seen
<1>8. LastCount' = LastCount /\ ActiveCount' = ActiveCount
  BY <1>2, <1>6, <1>7, SeenKept, NextRows, OfSnaps DEF ActiveCount
<1>9. Waiting' = {}
  BY <1>4, <1>5 DEF Waiting, Committed
<1>10. EditType'
  BY DEF EditType
<1>11. RowsInv'
  <2>1. Len(snaps') >= 1 /\ Committed(snaps'[1])
    BY <1>2, <1>4, <1>5 DEF RowsInv, Committed
  <2>2. \A i \in DOMAIN snaps' : /\ ~Committed(snaps'[i]) => ~snaps'[i].synced
                                 /\ snaps'[i].by \in Editors => edit'[snaps'[i].by].pc = "bulk"
    BY <1>2, <1>4, <1>5 DEF RowsInv, Committed
  <2>3. QED
    BY <1>5, <2>1, <2>2 DEF RowsInv
<1>12. SoloInv'
  <2>1. ASSUME NEW e, BulkRows(e) PROVE BulkRows(e)'
    BY <1>1, <1>2, <1>4, <1>5, <1>8, <2>1 DEF BulkRows
  <2>2. QED
    BY <1>8, <2>1 DEF SoloInv, Editing
<1>13. LastInv'
  BY <1>8 DEF LastInv, Free
<1>14. QED
  BY <1>8, <1>9, <1>10, <1>11, <1>12, <1>13

LEMMA AttachCounts ==
  ASSUME BillingAssumption, TermsInv, EditInv, SyncInv, NEW a \in Attaches, AttachRead(a) \/ AttachStep(a)
  PROVE  EditInv' /\ SyncInv'
<1> USE DEF locVars, tenantVars, settingVars, stripeVars, bounds
<1>0. /\ LastCount \in Counts /\ None \notin Counts
      /\ keyed = [fee |-> keyed.fee, price |-> keyed.price, qty |-> keyed.qty]
      /\ attach \in [Attaches -> Attaching]
  <2>1. Counts \subseteq Nat
    BY LocationsFinite DEF Counts
  <2>2. QED
    BY <2>1, RowsDomain DEF EditInv, SyncInv, SyncType, BillingAssumption
<1>1. ASSUME UNCHANGED <<locState, snaps, edit, solo, tick>>, Exc' <=> Exc,
             \A b \in Attaches \ {a} : attach'[b] = attach[b]
      PROVE  /\ EditInv' /\ WaitInv'
             /\ LastCount' = LastCount /\ (Waiting = {} <=> Waiting' = {}) /\ (Exc' <=> Exc)
  <2>1. EditInv' /\ LastCount' = LastCount /\ Waiting' = Waiting
    BY <1>1, EditAside, NextRows, OfSnaps DEF Exc
  <2>2. WaitInv'
    BY <1>1, <2>1 DEF SyncInv, WaitInv, Exc
  <2>3. QED
    BY <1>1, <2>1, <2>2 DEF Exc
<1>2. CASE AttachRead(a)
  <2>1. /\ UNCHANGED <<locState, snaps, edit, solo, attached, tick, keyed, sub, excused>>
        /\ attach' = [attach EXCEPT ![a] = [pc |-> "quantity", rate |-> rate, fee |-> fee, qty |-> None]]
        /\ rate \in Rates /\ fee \in Fees
    BY <1>2 DEF AttachRead, TermsInv, TermsType
  <2>2. /\ attach' \in [Attaches -> Attaching]
        /\ attach'[a].pc = "quantity" /\ \A b \in Attaches \ {a} : attach'[b] = attach[b]
    BY <1>0, <2>1 DEF Attaching
  <2>3. EditInv' /\ WaitInv' /\ LastCount' = LastCount /\ (Waiting = {} <=> Waiting' = {}) /\ (Exc' <=> Exc)
    BY <1>1, <2>1, <2>2 DEF Exc
  <2>4. SyncType' /\ TickInv' /\ QuantityInv' /\ SubInv'
    BY <2>1, <2>2, <2>3 DEF SyncInv, SyncType, TickInv, QuantityInv, SubInv
  <2>5. QED
    BY <2>3, <2>4 DEF SyncInv
<1>3. CASE AttachQuantity(a)
  <2>1. /\ UNCHANGED <<locState, snaps, edit, solo, attached, tick, keyed, sub, excused>>
        /\ attach' = [attach EXCEPT ![a].pc = "subscribe", ![a].qty = LastCount]
    BY <1>3 DEF AttachQuantity
  <2>2. /\ attach' \in [Attaches -> Attaching]
        /\ attach'[a].pc = "subscribe" /\ attach'[a].qty = LastCount
        /\ \A b \in Attaches \ {a} : attach'[b] = attach[b]
    <3>1. PICK x : x = [attach[a] EXCEPT !.pc = "subscribe", !.qty = LastCount]
      OBVIOUS
    <3>2. x \in Attaching /\ x.pc = "subscribe" /\ x.qty = LastCount
      BY <1>0, <3>1 DEF Attaching
    <3>3. attach' = [attach EXCEPT ![a] = x]
      BY <2>1, <3>1
    <3>4. QED
      BY <1>0, <3>2, <3>3
  <2>3. EditInv' /\ WaitInv' /\ LastCount' = LastCount /\ (Waiting = {} <=> Waiting' = {}) /\ (Exc' <=> Exc)
    BY <1>1, <2>1, <2>2 DEF Exc
  <2>4. SyncType' /\ TickInv' /\ SubInv'
    BY <2>1, <2>2, <2>3 DEF SyncInv, SyncType, TickInv, SubInv
  <2>5. QuantityInv'
    BY <1>0, <2>1, <2>2, <2>3 DEF SyncInv, QuantityInv
  <2>6. QED
    BY <2>3, <2>4, <2>5 DEF SyncInv
<1>4. CASE AttachSubscribe(a)
  <2>1. /\ UNCHANGED <<locState, snaps, edit, solo, attached, tick>>
        /\ Exc' <=> Exc
        /\ attach[a].pc = "subscribe"
        /\ attach' = [attach EXCEPT ![a].pc = "store"]
        /\ keyed' = SubscribeKeys(a)
    BY <1>4 DEF AttachSubscribe, Exc
  <2>2. /\ attach' \in [Attaches -> Attaching]
        /\ attach'[a].pc = "store" /\ attach'[a].qty = attach[a].qty
        /\ \A b \in Attaches \ {a} : attach'[b] = attach[b]
        /\ attach[a] \in Attaching
    BY <1>0, <2>1 DEF Attaching
  <2>3. EditInv' /\ WaitInv' /\ LastCount' = LastCount /\ (Waiting = {} <=> Waiting' = {}) /\ (Exc' <=> Exc)
    BY <1>1, <2>1, <2>2
  <2>4. /\ keyed'.qty = attach[a].qty /\ keyed.qty \in {None, attach[a].qty}
        /\ keyed' \in [fee : Fees \cup {None}, price : Rates \cup {None}, qty : Counts \cup {None}]
    <3>1. Accepts(keyed["qty"], SubscribeKeys(a)["qty"])
      BY <1>0, <1>4 DEF AttachSubscribe, Refused
    <3>2. keyed \in [fee : Fees \cup {None}, price : Rates \cup {None}, qty : Counts \cup {None}]
      BY DEF SyncInv, SyncType
    <3>3. QED
      BY <2>1, <2>2, <3>1, <3>2 DEF Accepts, SubscribeKeys, Attaching
  <2>5. /\ sub.made => sub' = sub
        /\ ~sub.made => sub' = [made |-> TRUE, qty |-> attach[a].qty, price |-> attach[a].rate]
        /\ attached => sub.made
    BY <1>4 DEF AttachSubscribe, TermsInv, KeyedInv
  <2>6. attach[a].qty # None /\ (~Exc => attach[a].qty = LastCount)
    BY <2>1 DEF SyncInv, QuantityInv
  <2>7. SyncType'
    <3>1. sub' \in [made : BOOLEAN, qty : Counts \cup {None}, price : Rates \cup {None}]
      <4>1. attach[a].qty \in Counts \cup {None} /\ attach[a].rate \in Rates \cup {None}
        BY <2>2 DEF Attaching
      <4>2. sub \in [made : BOOLEAN, qty : Counts \cup {None}, price : Rates \cup {None}]
        BY DEF SyncInv, SyncType
      <4>3. CASE sub.made
        BY <2>5, <4>2, <4>3
      <4>4. CASE ~sub.made
        <5>1. sub' = [made |-> TRUE, qty |-> attach[a].qty, price |-> attach[a].rate]
          BY <2>5, <4>4
        <5>2. QED
          BY <4>1, <5>1
      <4>5. QED
        BY <4>3, <4>4
    <3>2. QED
      BY <2>1, <2>2, <2>4, <3>1 DEF SyncInv, SyncType
  <2>8. TickInv' /\ SubInv'
    BY <2>1, <2>3, <2>5 DEF SyncInv, TickInv, SubInv
  <2>9. QuantityInv'
    <3>1. \A b \in Attaches \ {a} : attach[b].pc = "store" /\ ~attached => attach[b].qty = keyed'.qty
      BY <2>4 DEF SyncInv, QuantityInv
    <3>2. ~attached => sub'.qty = keyed'.qty /\ keyed'.qty # None
      BY <2>4, <2>5, <2>6 DEF SyncInv, QuantityInv
    <3>3. \A b \in Attaches : attach'[b].pc \in {"subscribe", "store", "mark"} =>
            /\ attach'[b].qty # None
            /\ ~Exc' => attach'[b].qty = LastCount'
            /\ attach'[b].pc = "store" /\ ~attached' => attach'[b].qty = keyed'.qty
      BY <2>1, <2>2, <2>3, <2>4, <2>6, <3>1 DEF SyncInv, QuantityInv
    <3>4. QED
      BY <2>1, <3>2, <3>3 DEF QuantityInv
  <2>10. QED
    BY <2>3, <2>7, <2>8, <2>9 DEF SyncInv
<1>5. CASE AttachFails(a)
  <2>1. /\ UNCHANGED <<locState, snaps, edit, solo, attached, tick, sub, excused>>
        /\ attach' = [attach EXCEPT ![a] = NoAttach]
    BY <1>5 DEF AttachFails
  <2>2. /\ attach' \in [Attaches -> Attaching]
        /\ attach'[a].pc = "idle" /\ \A b \in Attaches \ {a} : attach'[b] = attach[b]
    BY <1>0, <2>1 DEF Attaching, NoAttach
  <2>3. EditInv' /\ WaitInv' /\ LastCount' = LastCount /\ (Waiting = {} <=> Waiting' = {}) /\ (Exc' <=> Exc)
    BY <1>1, <2>1, <2>2 DEF Exc
  <2>4. /\ keyed'.qty = keyed.qty
        /\ keyed' \in [fee : Fees \cup {None}, price : Rates \cup {None}, qty : Counts \cup {None}]
    <3>1. PICK done \in {{}, {"fee"}, {"fee", "price"}} :
            keyed' = [k \in DOMAIN keyed |-> IF k \in done THEN SubscribeKeys(a)[k] ELSE keyed[k]]
      BY <1>5 DEF AttachFails
    <3>2. DOMAIN keyed = {"fee", "price", "qty"}
      BY <1>0
    <3>3. keyed' = [fee |-> keyed'.fee, price |-> keyed'.price, qty |-> keyed'.qty]
      BY <3>1, <3>2
    <3>4. /\ keyed'.qty = keyed.qty
          /\ keyed'.fee \in {keyed.fee, attach[a].fee} /\ keyed'.price \in {keyed.price, attach[a].rate}
      BY <3>1, <3>2 DEF SubscribeKeys
    <3>5. attach[a] \in Attaching /\ keyed \in [fee : Fees \cup {None}, price : Rates \cup {None}, qty : Counts \cup {None}]
      BY DEF SyncInv, SyncType
    <3>6. keyed'.fee \in Fees \cup {None} /\ keyed'.price \in Rates \cup {None} /\ keyed'.qty \in Counts \cup {None}
      BY <3>4, <3>5 DEF Attaching
    <3>7. QED
      BY <3>3, <3>4, <3>6
  <2>5. SyncType' /\ TickInv' /\ SubInv'
    BY <2>1, <2>2, <2>3, <2>4 DEF SyncInv, SyncType, TickInv, SubInv
  <2>6. QuantityInv'
    BY <2>1, <2>2, <2>3, <2>4 DEF SyncInv, QuantityInv
  <2>7. QED
    BY <2>3, <2>5, <2>6 DEF SyncInv
<1>6. CASE AttachStore(a)
  <2>1. /\ UNCHANGED <<locState, snaps, edit, solo, tick, keyed, sub, excused>>
        /\ attached' = TRUE /\ attach[a].pc = "store"
        /\ attach' = [attach EXCEPT ![a].pc = "mark"]
    BY <1>6 DEF AttachStore
  <2>2. /\ attach' \in [Attaches -> Attaching]
        /\ attach'[a].pc = "mark" /\ attach'[a].qty = attach[a].qty
        /\ \A b \in Attaches \ {a} : attach'[b] = attach[b]
    BY <1>0, <2>1 DEF Attaching
  <2>3. EditInv' /\ WaitInv' /\ LastCount' = LastCount /\ (Waiting = {} <=> Waiting' = {}) /\ (Exc' <=> Exc)
    BY <1>1, <2>1, <2>2 DEF Exc
  <2>4. SyncType' /\ TickInv'
    BY <2>1, <2>2, <2>3 DEF SyncInv, SyncType, TickInv
  <2>5. QuantityInv'
    BY <2>1, <2>2, <2>3 DEF SyncInv, QuantityInv
  <2>6. SubInv'
    <3>1. sub.made
      BY <2>1 DEF TermsInv, KeyedInv, Storing
    <3>2. ~attached /\ ~Exc => sub.qty = LastCount
      BY <2>1, <3>1 DEF SyncInv, QuantityInv
    <3>3. QED
      BY <2>1, <2>3, <3>2 DEF SyncInv, SubInv
  <2>7. QED
    BY <2>3, <2>4, <2>5, <2>6 DEF SyncInv
<1>7. CASE AttachMark(a)
  <2>1. /\ UNCHANGED <<locState, edit, solo, attached, tick, keyed, sub>>
        /\ snaps' = MarkSynced(snaps)
        /\ attach[a].pc = "mark" /\ attach' = [attach EXCEPT ![a] = NoAttach]
        /\ ~Exc' => ~Exc /\ sub.qty = attach[a].qty
    BY <1>7 DEF AttachMark, Exc
  <2>2. EditInv' /\ LastCount' = LastCount /\ Waiting' = {}
    BY <2>1, MarkedRows
  <2>3. /\ attach' \in [Attaches -> Attaching]
        /\ attach'[a].pc = "idle" /\ \A b \in Attaches \ {a} : attach'[b] = attach[b]
    BY <1>0, <2>1 DEF Attaching, NoAttach
  <2>4. ~Exc' => sub.qty = LastCount
    BY <2>1 DEF SyncInv, QuantityInv
  <2>5. SyncType' /\ WaitInv' /\ TickInv' /\ SubInv'
    BY <2>1, <2>2, <2>3, <2>4 DEF SyncInv, SyncType, WaitInv, TickInv, SubInv
  <2>6. QuantityInv'
    BY <2>1, <2>2, <2>3 DEF SyncInv, QuantityInv
  <2>7. QED
    BY <2>2, <2>5, <2>6 DEF SyncInv
<1>8. QED
  BY <1>2, <1>3, <1>4, <1>5, <1>6, <1>7 DEF AttachStep


LEMMA TickCounts ==
  ASSUME BillingAssumption, TermsInv, EditInv, SyncInv, NEW w \in Ticks, TickStep(w)
  PROVE  EditInv' /\ SyncInv'
<1> USE DEF locVars, tenantVars, settingVars, stripeVars, bounds
<1>0. /\ tick \in [Ticks -> Tick] /\ tick[w] \in Tick
      /\ sub \in [made : BOOLEAN, qty : Counts \cup {None}, price : Rates \cup {None}]
  BY DEF SyncInv, SyncType
<1>1. ASSUME UNCHANGED <<locState, snaps, edit, solo, excused, attach>>
      PROVE  /\ EditInv' /\ WaitInv'
             /\ LastCount' = LastCount /\ (Waiting = {} <=> Waiting' = {}) /\ (Exc' <=> Exc)
  <2>1. EditInv' /\ LastCount' = LastCount /\ Waiting' = Waiting
    BY <1>1, EditAside, NextRows, OfSnaps DEF Exc
  <2>2. WaitInv'
    BY <1>1, <2>1 DEF SyncInv, WaitInv, Exc
  <2>3. QED
    BY <1>1, <2>1, <2>2 DEF Exc
<1>2. CASE SyncSelect(w)
  <2>1. /\ UNCHANGED <<locState, snaps, edit, solo, attached, attach, keyed, sub, excused>>
        /\ attached /\ Waiting # {}
        /\ tick' = [tick EXCEPT ![w] = [pc |-> "push", qty |-> snaps[Max(Waiting)].count]]
    BY <1>2 DEF SyncSelect
  <2>2. snaps[Max(Waiting)].count \in Counts
    <3>1. Max(Waiting) \in Waiting
      <4>1. Len(snaps) \in Nat /\ Waiting \subseteq 1..Len(snaps)
        BY RowsDomain DEF EditInv, Waiting
      <4>2. QED
        BY <2>1, <4>1, MaxIsLargest
    <3>2. QED
      BY <3>1, RowsDomain DEF EditInv, Waiting
  <2>3. /\ tick' \in [Ticks -> Tick]
        /\ tick'[w].pc = "push" /\ tick'[w].qty = snaps[Max(Waiting)].count
        /\ \A v \in Ticks \ {w} : tick'[v] = tick[v]
    BY <1>0, <2>1, <2>2 DEF Tick
  <2>4. EditInv' /\ WaitInv' /\ LastCount' = LastCount /\ (Waiting = {} <=> Waiting' = {}) /\ (Exc' <=> Exc)
    BY <1>1, <2>1
  <2>5. ~Exc => snaps[Max(Waiting)].count = LastCount
    BY <2>1 DEF SyncInv, WaitInv
  <2>6. SyncType' /\ QuantityInv' /\ SubInv'
    BY <2>1, <2>3, <2>4 DEF SyncInv, SyncType, QuantityInv, SubInv
  <2>7. TickInv'
    BY <2>1, <2>3, <2>4, <2>5 DEF SyncInv, TickInv
  <2>8. QED
    BY <2>4, <2>6, <2>7 DEF SyncInv
<1>3. ASSUME tick[w].pc = "push", UNCHANGED <<locState, snaps, edit, solo, attached, attach, keyed, excused>>,
             sub' \in {sub, [sub EXCEPT !.qty = tick[w].qty]},
             \A v \in Ticks \ {w} : tick'[v] = tick[v], tick' \in [Ticks -> Tick],
             \/ tick'[w].pc = "idle"
             \/ tick'[w].pc = "mark" /\ tick'[w].qty = tick[w].qty /\ sub'.qty = tick[w].qty
      PROVE  EditInv' /\ SyncInv'
  <2>1. attached /\ (~Exc => tick[w].qty = LastCount)
    BY <1>3 DEF SyncInv, TickInv
  <2>2. EditInv' /\ WaitInv' /\ LastCount' = LastCount /\ (Waiting = {} <=> Waiting' = {}) /\ (Exc' <=> Exc)
    BY <1>1, <1>3
  <2>3. /\ sub' \in [made : BOOLEAN, qty : Counts \cup {None}, price : Rates \cup {None}]
        /\ sub'.qty \in {sub.qty, tick[w].qty}
    BY <1>0, <1>3 DEF Tick
  <2>4. ~Exc => sub'.qty \in {sub.qty, LastCount}
    BY <2>1, <2>3
  <2>5. SyncType'
    BY <1>3, <2>3 DEF SyncInv, SyncType
  <2>6. QuantityInv'
    BY <1>3, <2>1, <2>2 DEF SyncInv, QuantityInv
  <2>7. SubInv'
    BY <1>3, <2>1, <2>2, <2>4 DEF SyncInv, SubInv
  <2>8. TickInv'
    BY <1>3, <2>1, <2>2, <2>4 DEF SyncInv, TickInv
  <2>9. QED
    BY <2>2, <2>5, <2>6, <2>7, <2>8 DEF SyncInv
<1>4. CASE SyncPush(w)
  <2>1. /\ tick[w].pc = "push" /\ UNCHANGED <<locState, snaps, edit, solo, attached, attach, keyed, excused>>
        /\ sub' = [sub EXCEPT !.qty = tick[w].qty]
        /\ tick' = [tick EXCEPT ![w].pc = "mark"]
    BY <1>4 DEF SyncPush
  <2>2. /\ \A v \in Ticks \ {w} : tick'[v] = tick[v]
        /\ tick' \in [Ticks -> Tick]
        /\ tick'[w].pc = "mark" /\ tick'[w].qty = tick[w].qty /\ sub'.qty = tick[w].qty
    BY <1>0, <2>1 DEF Tick
  <2>3. QED
    BY <1>3, <2>1, <2>2
<1>5. CASE SyncPushFails(w)
  <2>1. /\ tick[w].pc = "push" /\ UNCHANGED <<locState, snaps, edit, solo, attached, attach, keyed, excused>>
        /\ sub' \in {sub, [sub EXCEPT !.qty = tick[w].qty]}
        /\ tick' = [tick EXCEPT ![w] = NoTick]
    BY <1>5 DEF SyncPushFails
  <2>2. /\ \A v \in Ticks \ {w} : tick'[v] = tick[v]
        /\ tick' \in [Ticks -> Tick] /\ tick'[w].pc = "idle"
    BY <1>0, <2>1 DEF Tick, NoTick
  <2>3. QED
    BY <1>3, <2>1, <2>2
<1>6. CASE SyncMark(w)
  <2>1. /\ UNCHANGED <<locState, edit, solo, attached, attach, keyed, sub, excused>>
        /\ snaps' = MarkSynced(snaps)
        /\ tick[w].pc = "mark" /\ tick' = [tick EXCEPT ![w] = NoTick]
    BY <1>6 DEF SyncMark
  <2>2. EditInv' /\ LastCount' = LastCount /\ Waiting' = {} /\ (Exc' <=> Exc)
    BY <2>1, MarkedRows DEF Exc
  <2>3. /\ \A v \in Ticks \ {w} : tick'[v] = tick[v]
        /\ tick' \in [Ticks -> Tick] /\ tick'[w].pc = "idle"
    BY <1>0, <2>1 DEF Tick, NoTick
  <2>4. ~Exc => sub.qty = LastCount
    BY <2>1 DEF SyncInv, TickInv
  <2>5. SyncType' /\ WaitInv' /\ TickInv' /\ QuantityInv' /\ SubInv'
    BY <2>1, <2>2, <2>3, <2>4 DEF SyncInv, SyncType, WaitInv, TickInv, QuantityInv, SubInv
  <2>6. QED
    BY <2>2, <2>5 DEF SyncInv
<1>7. QED
  BY <1>2, <1>4, <1>5, <1>6 DEF TickStep

\* The edits of the terms touch the price of the subscription only.
LEMMA SettingAside ==
  ASSUME EditInv, SyncInv, UNCHANGED <<locState, snaps, edit, solo, attached, attach, tick, keyed>>,
         Exc' <=> Exc, sub'.qty = sub.qty, sub'.made = sub.made,
         sub' \in [made : BOOLEAN, qty : Counts \cup {None}, price : Rates \cup {None}]
  PROVE  EditInv' /\ SyncInv'
<1>1. EditInv'
  BY EditAside
<1>2. LastCount' = LastCount /\ Waiting' = Waiting
  BY NextRows, OfSnaps
<1>3. WaitInv'
  BY <1>2 DEF SyncInv, WaitInv
<1>4. SyncType' /\ TickInv' /\ QuantityInv' /\ SubInv'
  BY <1>2 DEF SyncInv, SyncType, TickInv, QuantityInv, SubInv
<1>5. QED
  BY <1>1, <1>3, <1>4 DEF SyncInv

LEMMA SettingCounts ==
  ASSUME TermsInv, EditInv, SyncInv, NEW s \in Settings, SettingStep(s)
  PROVE  EditInv' /\ SyncInv'
<1> USE DEF locVars, tenantVars, settingVars, stripeVars, bounds
<1>0. sub \in [made : BOOLEAN, qty : Counts \cup {None}, price : Rates \cup {None}]
  BY DEF SyncInv, SyncType
<1>1. setting[s].pc = "push" => setting[s].new \in Rates
  BY DEF TermsInv, RouteInv
<1>2. CASE PushRate(s) \/ PushRateFails(s)
  <2>1. /\ UNCHANGED <<locState, snaps, edit, solo, attached, attach, tick, keyed>>
        /\ setting[s].pc = "push" /\ (Exc' <=> Exc)
        /\ sub' \in {sub, [sub EXCEPT !.price = setting[s].new]}
    BY <1>2 DEF PushRate, PushRateFails, Exc
  <2>2. /\ sub'.qty = sub.qty /\ sub'.made = sub.made
        /\ sub' \in [made : BOOLEAN, qty : Counts \cup {None}, price : Rates \cup {None}]
    BY <1>0, <1>1, <2>1
  <2>3. QED
    BY <2>1, <2>2, SettingAside
<1>3. CASE SettingRead(s)
  BY <1>0, <1>3, SettingAside DEF SettingRead, Exc
<1>4. CASE SettingWrite(s)
  <2>1. setting[s].field \in {"rate", "fee"}
    BY DEF TermsInv, TermsType, Setting
  <2>2. UNCHANGED <<locState, snaps, edit, solo, attached, attach, tick, keyed, sub>> /\ (Exc' <=> Exc)
    BY <1>4, <2>1 DEF SettingWrite, Exc
  <2>3. QED
    BY <1>0, <2>2, SettingAside
<1>5. QED
  BY <1>2, <1>3, <1>4 DEF SettingStep

LEMMA CrashCounts ==
  ASSUME BillingAssumption, EditInv, SyncInv, Crash
  PROVE  EditInv' /\ SyncInv'
<1> USE DEF EditInv
<1>1. PICK n : n = Len(snaps)
  OBVIOUS
<1>2. /\ UNCHANGED <<locState, attached, keyed, sub>> /\ solo' = {}
      /\ snaps' = [i \in DOMAIN snaps |->
                     IF Committed(snaps[i]) THEN snaps[i] ELSE [snaps[i] EXCEPT !.by = Lost]]
      /\ edit' = [e \in Editors |-> NoEdit]
      /\ attach' = [a \in Attaches |-> NoAttach]
      /\ tick' = [w \in Ticks |-> NoTick]
  BY DEF Crash, tenantVars, stripeVars
<1>3. (Exc => Exc') /\ (~Free => Exc')
  BY DEF Crash, Exc, Free
<1>4. /\ n \in Nat /\ n >= 1 /\ DOMAIN snaps = 1..n /\ Seen(snaps) # {}
      /\ \A i \in DOMAIN snaps : snaps[i] \in Snapshot
  BY <1>1, RowsDomain DEF RowsInv
<1>5. \A i \in 1..n : /\ snaps'[i] \in Snapshot
                      /\ Committed(snaps[i]) => snaps'[i] = snaps[i]
                      /\ ~Committed(snaps[i]) => snaps'[i].by = Lost /\ snaps'[i].synced = snaps[i].synced
  <2>1. ASSUME NEW i \in 1..n
        PROVE  /\ snaps'[i] \in Snapshot
               /\ Committed(snaps[i]) => snaps'[i] = snaps[i]
               /\ ~Committed(snaps[i]) => snaps'[i].by = Lost /\ snaps'[i].synced = snaps[i].synced
    <3>1. snaps[i] \in Snapshot
      BY <1>4
    <3>2. snaps'[i] = IF Committed(snaps[i]) THEN snaps[i] ELSE [snaps[i] EXCEPT !.by = Lost]
      BY <1>2, <1>4
    <3>3. QED
      BY <3>1, <3>2 DEF Snapshot
  <2>2. QED
    BY <2>1
<1>6. \A i \in 1..n : Committed(snaps'[i]) <=> Committed(snaps[i])
  BY <1>5 DEF Committed, BillingAssumption
<1>7. snaps' \in Seq(Snapshot) /\ Len(snaps') = n /\ DOMAIN snaps' = 1..n
  <2>1. DOMAIN snaps' = 1..n
    BY <1>2, <1>4
  <2>2. snaps' \in [1..n -> Snapshot]
    BY <1>2, <1>4, <1>5, <2>1
  <2>3. snaps' \in Seq(Snapshot)
    BY <1>4, <2>2, SeqDef
  <2>4. QED
    BY <1>4, <2>1, <2>3, LenProperties
<1>8. Seen(snaps') = Seen(snaps) /\ WaitOf(snaps') = WaitOf(snaps)
  BY <1>4, <1>5, <1>6, <1>7 DEF Seen, WaitOf
<1>9. \A i \in Seen(snaps) : snaps'[i].count = snaps[i].count
  BY <1>4, <1>5 DEF Seen
<1>10. LastCount' = LastCount /\ ActiveCount' = ActiveCount /\ Waiting' = Waiting
  BY <1>2, <1>4, <1>8, <1>9, SeenKept, NextRows, OfSnaps DEF ActiveCount
<1>11. EditType'
  <2>1. NoEdit \in Edit
    BY LocationsFinite DEF NoEdit, Edit, Counts
  <2>2. QED
    BY <1>2, <2>1 DEF EditType
<1>12. RowsInv'
  <2>1. Len(snaps') >= 1 /\ Committed(snaps'[1])
    BY <1>4, <1>6, <1>7 DEF RowsInv
  <2>2. \A i \in DOMAIN snaps' : (~Committed(snaps'[i]) => ~snaps'[i].synced) /\ snaps'[i].by \notin Editors
    BY <1>4, <1>5, <1>6, <1>7 DEF RowsInv, Committed, BillingAssumption
  <2>3. \A e \in Editors : edit'[e].pc = "idle"
    BY <1>2 DEF NoEdit
  <2>4. QED
    BY <1>7, <2>1, <2>2, <2>3 DEF RowsInv
<1>13. SoloInv'
  BY <1>2 DEF SoloInv
<1>14. LastInv'
  BY <1>3, <1>10 DEF LastInv
<1>15. Waiting # {} => snaps'[Max(Waiting')].count = snaps[Max(Waiting)].count
  BY <1>4, <1>8, <1>9, WaitKept, NextRows, OfSnaps
<1>16. WaitInv'
  BY <1>3, <1>10, <1>15 DEF SyncInv, WaitInv
<1>17. SyncType' /\ TickInv' /\ QuantityInv' /\ SubInv'
  <2>1. /\ attach' \in [Attaches -> Attaching] /\ \A a \in Attaches : attach'[a].pc = "idle"
        /\ tick' \in [Ticks -> Tick] /\ \A w \in Ticks : tick'[w].pc = "idle"
    BY <1>2 DEF NoAttach, Attaching, NoTick, Tick
  <2>2. QED
    BY <1>2, <1>3, <1>10, <2>1 DEF SyncInv, SyncType, TickInv, QuantityInv, SubInv
<1>18. QED
  BY <1>11, <1>12, <1>13, <1>14, <1>16, <1>17 DEF SyncInv

LEMMA CountStep ==
  ASSUME BillingAssumption, CountInv, [Next]_vars
  PROVE  CountInv'
<1>1. TermsInv /\ BoundsType /\ EditInv /\ SyncInv
  BY DEF CountInv, EditInv, SyncInv
<1>2. TermsInv'
  BY <1>1, TermsStep
<1>3. CASE UNCHANGED vars
  <2>1. /\ UNCHANGED <<locState, snaps, edit, solo, attached, attach, tick, keyed, sub, excused>>
        /\ UNCHANGED <<edits, attaches, faults>>
    BY <1>3 DEF vars, locVars, tenantVars, stripeVars, bounds
  <2>2. BoundsType' /\ EditInv' /\ SyncInv'
    BY <1>1, <2>1, EditAside, SyncAside DEF BoundsType, Exc
  <2>3. QED
    BY <1>2, <2>2 DEF CountInv, EditInv, SyncInv
<1>4. CASE Next
  <2>1. BoundsType'
    BY <1>1, <1>4, BoundsStep
  <2>2. ASSUME NEW e \in Editors, NEW l \in Locations, ChangeLocation(e, l) \/ ImportRow(e, l)
        PROVE  EditInv' /\ SyncInv'
    <3>1. UNCHANGED <<snaps, excused, attached, attach, tick, keyed, sub>>
      BY <2>2 DEF ChangeLocation, ImportRow, StartEdit, tenantVars, stripeVars
    <3>2. QED
      BY <1>1, <2>2, <3>1, ChangeKeeps, SyncAside
  <2>3. ASSUME NEW e \in Editors, NEW ls \in SUBSET Locations, BulkBegin(e, ls) PROVE EditInv' /\ SyncInv'
    BY <1>1, <2>3, BulkBeginKeeps
  <2>4. ASSUME NEW e \in Editors, EditStep(e) PROVE EditInv' /\ SyncInv'
    <3>1. CASE ImportEnd(e) \/ CountActive(e) \/ ReadLast(e)
      <4>1. UNCHANGED <<snaps, excused, attached, attach, tick, keyed, sub>>
        BY <3>1 DEF ImportEnd, CountActive, ReadLast, tenantVars, stripeVars
      <4>2. QED
        BY <1>1, <3>1, <4>1, CountingKeeps, SyncAside
    <3>2. QED
      BY <1>1, <2>4, <3>1, BulkCommitKeeps, InsertKeeps DEF EditStep
  <2>5. ASSUME NEW s \in Settings, NEW field, NEW new, NEW at, NEW route, StartSetting(s, field, new, at, route)
        PROVE  EditInv' /\ SyncInv'
    <3>1. UNCHANGED <<locState, snaps, edit, solo, attached, attach, tick, keyed, sub, excused>>
      BY <2>5 DEF StartSetting, locVars, tenantVars, stripeVars
    <3>2. QED
      BY <1>1, <3>1, EditAside, SyncAside DEF Exc
  <2>6. ASSUME NEW s \in Settings, NEW new, EditRate(s, new) \/ PatchTenant(s, "rate", new)
                                            \/ EditFee(s, new) \/ PatchTenant(s, "fee", new)
        PROVE  EditInv' /\ SyncInv'
    BY <2>5, <2>6 DEF EditRate, EditFee, PatchTenant
  <2>7. EditInv' /\ SyncInv'
    BY <1>1, <1>4, <2>2, <2>3, <2>4, <2>6, AttachCounts, TickCounts, SettingCounts, CrashCounts DEF Next
  <2>8. QED
    BY <1>2, <2>1, <2>7 DEF CountInv, EditInv, SyncInv
<1>5. QED
  BY <1>3, <1>4

\* Every variable has its type: no row, request or subscription holds a count beyond
\* the locations there are.  For any locations and any number of requests.
THEOREM BillingTypeCorrect == Spec => []TypeOK
<1>1. Init => CountInv
  BY CountStart, BillingAssumption
<1>2. CountInv /\ [Next]_vars => CountInv'
  BY CountStep, BillingAssumption
<1>3. CountInv => TypeOK
  BY TypesOfCount
<1>4. QED
  BY <1>1, <1>2, <1>3, PTL DEF Spec

\* When nothing is under way and no snapshot waits, Stripe charges for the active
\* locations, through failed pushes, lost answers, attaches that died half way,
\* overlapping ticks, onboardings that rolled back and crashes, but for the races
\* CountIsBilled names; the next edit on its own that changes the count mends it.
\* For any locations and any number of requests, attaches, passes and faults.
THEOREM CountIsBilledHolds == Spec => []CountIsBilled
<1>1. Init => CountInv
  BY CountStart, BillingAssumption
<1>2. CountInv /\ [Next]_vars => CountInv'
  BY CountStep, BillingAssumption
<1>3. CountInv => CountIsBilled
  <2>1. AtRest => Free
    BY DEF AtRest, Editing, Free
  <2>2. QED
    BY <2>1 DEF CountInv, LastInv, SubInv, Exc, CountIsBilled
<1>4. QED
  BY <1>1, <1>2, <1>3, PTL DEF Spec
=============================================================================
