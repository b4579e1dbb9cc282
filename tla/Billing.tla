------------------------------ MODULE Billing ------------------------------
(***************************************************************************)
(* What one tenant is charged: the locations and their billing snapshots   *)
(* (src/lib/services/locations.ts, bulk-onboarding.ts), the attachment of  *)
(* Stripe and the edits of rate and setup fee                              *)
(* (src/lib/services/provisioning.ts, tenants.ts), and the quantity-sync   *)
(* worker (src/lib/billing/quantity-sync.ts).                              *)
(*                                                                         *)
(* Nothing here runs in a transaction but the bulk onboarding.  Every other*)
(* operation is a sequence of statements and of calls to Stripe, and each  *)
(* statement or call is an action.  The model starts when the transaction  *)
(* of provisionTenant has committed.                                       *)
(***************************************************************************)
EXTENDS Naturals, Sequences, FiniteSetsExt

CONSTANTS
    Locations,    \* the locations the tenant may come to have
    Provisioned,  \* those the provisioning creates
    Editors,      \* the tenant's requests that change locations
    Ticks,        \* passes of the quantity-sync worker
    Attaches,     \* attachBilling calls: the provisioning's own and the retries
    Settings,     \* the platform operator's requests that change rate or fee
    Quoted,       \* the rates and setup fees that may be entered in the wizard
    NewRates, NewFees,  \* those the operator may change them to
    None,         \* no value; as a setup fee: no fee, null or 0
    Lost,         \* the transaction a row was part of has been rolled back
    MaxEdits,     \* bound: edits of locations, rate and fee together
    MaxAttaches,  \* bound: attachBilling calls
    MaxFaults     \* bound: failed or unanswered Stripe calls, and crashes

Rates == NewRates \cup {q.rate : q \in Quoted}
Fees == NewFees \cup {q.fee : q \in Quoted}

ASSUME BillingAssumption ==
    /\ IsFiniteSet(Locations) /\ Provisioned \subseteq Locations
    /\ \A q \in Quoted : DOMAIN q = {"rate", "fee"}
    /\ None \notin Rates \cup Nat \cup Editors
    /\ Lost \notin Editors \cup {None}
    /\ {MaxEdits, MaxAttaches, MaxFaults} \subseteq Nat

VARIABLES
    locState,  \* locations.status ("none": no row)
    snaps,     \* billing_snapshots in the order of seq
    edit,      \* per editor: how far its request is, with what it has read
    rate, fee, \* tenants.monthly_rate_cents, tenants.setup_fee_cents
    attached,  \* tenants.stripe_subscription_id is set
    attach,    \* per attachBilling call: how far it is, with what it has read
    tick,      \* per worker pass: how far it is, and the quantity it pushes
    setting,   \* per settings request: how far it is, with what it has read
    keyed,     \* Stripe: the parameters each idempotency key was used with; keyed.fee
               \* is the fee item it has made, pending or on an invoice
    sub,       \* Stripe: the subscription
    excused,   \* history: what a race or a fault may have left apart
    solo,      \* history: the editors no other editor has overlapped
    soloTerms, \* history: the settings requests no other and no attach has overlapped
    edits, attaches, faults

locVars == <<locState, snaps, edit, solo>>
tenantVars == <<rate, fee, attached>>
stripeVars == <<keyed, sub>>
settingVars == <<setting, soloTerms>>
bounds == <<edits, attaches, faults>>
vars == <<locVars, tenantVars, attach, tick, settingVars, stripeVars, excused, bounds>>

NoKeys == [fee |-> None, price |-> None, qty |-> None]
NoSub == [made |-> FALSE, qty |-> None, price |-> None]
NoEdit == [pc |-> "idle", locs |-> {}, count |-> 0, changed |-> FALSE]
NoAttach == [pc |-> "idle", rate |-> None, fee |-> None, qty |-> None]
NoTick == [pc |-> "idle", qty |-> None]
NoSetting == [pc |-> "idle", field |-> "rate", new |-> None, was |-> None, route |-> "own"]

Counts == 0..Cardinality(Locations)
\* "by" is the bulk onboarding whose transaction is still open; a row that was
\* rolled back leaves a gap in seq.
Snapshot == [count : Counts, changed : BOOLEAN, synced : BOOLEAN, by : Editors \cup {None, Lost}]

TypeOK ==
    /\ locState \in [Locations -> {"none", "active", "archived"}]
    /\ snaps \in Seq(Snapshot)
    /\ edit \in [Editors -> [pc : {"idle", "import", "bulk", "count", "last", "insert"},
                             locs : SUBSET Locations, count : Counts, changed : BOOLEAN]]
    /\ solo \subseteq Editors /\ soloTerms \subseteq Settings
    /\ rate \in Rates /\ fee \in Fees /\ attached \in BOOLEAN
    /\ attach \in [Attaches -> [pc : {"idle", "quantity", "subscribe", "store", "mark"},
                                rate : Rates \cup {None}, fee : Fees \cup {None},
                                qty : Counts \cup {None}]]
    /\ tick \in [Ticks -> [pc : {"idle", "push", "mark"}, qty : Counts \cup {None}]]
    /\ setting \in [Settings -> [pc : {"idle", "push", "read", "write"}, field : {"rate", "fee"},
                                 new : Rates \cup Fees \cup {None}, was : Rates \cup Fees \cup {None},
                                 route : {"own", "pushed", "patch"}]]
    /\ keyed \in [fee : Fees \cup {None}, price : Rates \cup {None}, qty : Counts \cup {None}]
    /\ sub \in [made : BOOLEAN, qty : Counts \cup {None}, price : Rates \cup {None}]
    /\ excused \subseteq {"count", "rate", "fee"}
    /\ edits \in 0..MaxEdits /\ attaches \in 0..MaxAttaches /\ faults \in 0..MaxFaults

Row(count, changed, by) == [count |-> count, changed |-> changed, synced |-> FALSE, by |-> by]
Committed(row) == row.by = None

\* createTenant's row of 0 locations, then one row per provisioned location.
Init ==
    /\ locState = [l \in Locations |-> IF l \in Provisioned THEN "active" ELSE "none"]
    /\ snaps = [i \in 1..(1 + Cardinality(Provisioned)) |-> Row(i - 1, TRUE, None)]
    /\ edit = [e \in Editors |-> NoEdit]
    /\ solo = {} /\ soloTerms = {}
    /\ \E q \in Quoted : rate = q.rate /\ fee = q.fee
    /\ attached = FALSE
    /\ attach = [a \in Attaches |-> NoAttach]
    /\ tick = [w \in Ticks |-> NoTick]
    /\ setting = [s \in Settings |-> NoSetting]
    /\ keyed = NoKeys /\ sub = NoSub
    /\ excused = {}
    /\ edits = 0 /\ attaches = 0 /\ faults = 0

ActiveCount == Cardinality({l \in Locations : locState[l] = "active"})
\* What a query ordered by seq DESC LIMIT 1 returns: the last committed row.
LastCount == snaps[Max({i \in DOMAIN snaps : Committed(snaps[i])})].count

MarkSynced(rows) == [i \in DOMAIN rows |-> [rows[i] EXCEPT !.synced = @ \/ Committed(rows[i])]]

-----------------------------------------------------------------------------
(* The locations *)

Editing == {e \in Editors : edit[e].pc # "idle"}
\* Locations of no editor's open transaction, and not yet there.
Creatable == {l \in Locations : locState[l] = "none" /\ \A e \in Editors : l \notin edit[e].locs}

StartEdit(e) ==
    /\ edit[e].pc = "idle"
    /\ edits < MaxEdits
    /\ edits' = edits + 1
    /\ solo' = IF Editing = {} THEN {e} ELSE {}
    /\ UNCHANGED <<tenantVars, attach, tick, settingVars, stripeVars, excused, attaches, faults>>

\* createLocation, and updateLocation when it archives or restores: the row is
\* written, then recordBillingSnapshot begins.  The mutant invents a status.
ChangeLocation_Closed(e, l) ==
    /\ StartEdit(e)
    /\ locState[l] # "none" \/ l \in Creatable
    /\ locState' = [locState EXCEPT ![l] = IF @ = "active" THEN "closed" ELSE "active"]
    /\ edit' = [edit EXCEPT ![e].pc = "count"]
    /\ UNCHANGED snaps
ChangeLocation(e, l) ==
    /\ StartEdit(e)
    /\ locState[l] # "none" \/ l \in Creatable
    /\ locState' = [locState EXCEPT ![l] = IF @ = "active" THEN "archived" ELSE "active"]
    /\ edit' = [edit EXCEPT ![e].pc = "count"]
    /\ UNCHANGED snaps

\* bulkImportLocations inserts row by row, each in its own transaction, and takes
\* one snapshot at the end.
ImportRow(e, l) ==
    /\ l \in Creatable
    /\ \/ StartEdit(e)
       \/ /\ edit[e].pc = "import"
          /\ UNCHANGED <<solo, tenantVars, attach, tick, settingVars, stripeVars, excused, bounds>>
    /\ locState' = [locState EXCEPT ![l] = "active"]
    /\ edit' = [edit EXCEPT ![e].pc = "import"]
    /\ UNCHANGED snaps

ImportEnd(e) ==
    /\ edit[e].pc = "import"
    /\ edit' = [edit EXCEPT ![e].pc = "count"]
    /\ UNCHANGED <<locState, snaps, solo, tenantVars, attach, tick, settingVars, stripeVars, excused, bounds>>

\* bulkCreateLocationsWithManagers: one transaction.  Its snapshots take their
\* place in seq when they are inserted and are seen when it commits.
BulkBegin(e, ls) ==
    /\ StartEdit(e)
    /\ ls # {} /\ ls \subseteq Creatable
    /\ snaps' = snaps \o [i \in 1..Cardinality(ls) |->
                            Row(ActiveCount + i, i > 1 \/ ActiveCount + 1 # LastCount, e)]
    /\ edit' = [edit EXCEPT ![e] = [NoEdit EXCEPT !.pc = "bulk", !.locs = ls]]
    /\ UNCHANGED locState

OverlapsPush ==
    \/ \E w \in Ticks : tick[w].pc # "idle"
    \/ \E a \in Attaches : attach[a].pc \in {"subscribe", "store", "mark"}

\* A new row is told apart from a race: nobody else was between reading the
\* snapshots and marking them, or between two steps of an edit.
Taken(e, changed) ==
    /\ excused' = IF e \notin solo \/ OverlapsPush THEN excused \cup {"count"}
               ELSE IF changed THEN excused \ {"count"}
               ELSE excused
    /\ solo' = solo \ {e}

BulkCommit(e) ==
    /\ edit[e].pc = "bulk"
    /\ locState' = [l \in Locations |-> IF l \in edit[e].locs THEN "active" ELSE locState[l]]
    /\ snaps' = [i \in DOMAIN snaps |-> IF snaps[i].by = e THEN [snaps[i] EXCEPT !.by = None] ELSE snaps[i]]
    /\ edit' = [edit EXCEPT ![e] = NoEdit]
    /\ Taken(e, \E i \in DOMAIN snaps : snaps[i].by = e /\ snaps[i].changed)
    /\ UNCHANGED <<tenantVars, attach, tick, settingVars, stripeVars, bounds>>

\* recordBillingSnapshot: count, read the last row, insert.
CountActive(e) ==
    /\ edit[e].pc = "count"
    /\ edit' = [edit EXCEPT ![e].pc = "last", ![e].count = ActiveCount]
    /\ UNCHANGED <<locState, snaps, solo, tenantVars, attach, tick, settingVars, stripeVars, excused, bounds>>

\* The mutant compares with the oldest row.
ReadLast_Oldest(e) ==
    /\ edit[e].pc = "last"
    /\ edit' = [edit EXCEPT ![e].pc = "insert", ![e].changed = snaps[1].count # edit[e].count]
    /\ UNCHANGED <<locState, snaps, solo, tenantVars, attach, tick, settingVars, stripeVars, excused, bounds>>
ReadLast(e) ==
    /\ edit[e].pc = "last"
    /\ edit' = [edit EXCEPT ![e].pc = "insert", ![e].changed = LastCount # edit[e].count]
    /\ UNCHANGED <<locState, snaps, solo, tenantVars, attach, tick, settingVars, stripeVars, excused, bounds>>

InsertSnapshot(e) ==
    /\ edit[e].pc = "insert"
    /\ snaps' = Append(snaps, Row(edit[e].count, edit[e].changed, None))
    /\ Taken(e, edit[e].changed)
    /\ edit' = [edit EXCEPT ![e] = NoEdit]
    /\ UNCHANGED <<locState, tenantVars, attach, tick, settingVars, stripeVars, bounds>>

-----------------------------------------------------------------------------
(* attachBilling and the subscription it creates *)

AttachRead(a) ==
    /\ attach[a].pc = "idle"
    /\ attaches < MaxAttaches
    /\ attaches' = attaches + 1
    /\ attach' = [attach EXCEPT ![a] = [pc |-> "quantity", rate |-> rate, fee |-> fee, qty |-> None]]
    /\ soloTerms' = {}
    /\ UNCHANGED <<locVars, tenantVars, tick, setting, stripeVars, excused, edits, faults>>

\* The latest snapshot, once the customer and the SetupIntent exist.
AttachQuantity(a) ==
    /\ attach[a].pc = "quantity"
    /\ attach' = [attach EXCEPT ![a].pc = "subscribe", ![a].qty = LastCount]
    /\ UNCHANGED <<locVars, tenantVars, tick, settingVars, stripeVars, excused, bounds>>

\* Stripe answers a key it has seen with what it did then, and refuses it with
\* other parameters, for as long as it remembers the key: beyond the retries here.
\* The fee and the price have keys of their own.
Accepts(key, value) == key \in {None, value}

\* createSubscription asks for a fee item only if there is a fee, and otherwise
\* leaves the fee's key as it is.
SubscribeKeys(a) ==
    [fee |-> IF attach[a].fee = None THEN keyed.fee ELSE attach[a].fee,
     price |-> attach[a].rate, qty |-> attach[a].qty]
Refused(a) == \E k \in DOMAIN keyed : ~Accepts(keyed[k], SubscribeKeys(a)[k])

\* A fee item made by an earlier attach is invoiced with the subscription all the
\* same when this one asks for none: an edit in between has removed the fee.
AttachSubscribe(a) ==
    /\ attach[a].pc = "subscribe"
    /\ ~Refused(a)
    /\ keyed' = SubscribeKeys(a)
    /\ sub' = IF sub.made THEN sub
              ELSE [made |-> TRUE, qty |-> attach[a].qty, price |-> attach[a].rate]
    /\ excused' = IF attach[a].fee = None /\ keyed.fee # None THEN excused \cup {"fee"} ELSE excused
    /\ attach' = [attach EXCEPT ![a].pc = "store"]
    /\ UNCHANGED <<locVars, tenantVars, tick, settingVars, bounds>>

\* A call fails, after none, one or two of the three; the caller is told
\* attached: false.
AttachFails(a) ==
    /\ attach[a].pc \in {"quantity", "subscribe"}
    /\ IF attach[a].pc = "subscribe" /\ Refused(a)
         THEN UNCHANGED faults
         ELSE faults < MaxFaults /\ faults' = faults + 1
    /\ \E done \in {{}, {"fee"}, {"fee", "price"}} :
         /\ attach[a].pc = "quantity" => done = {}
         /\ \A k \in done : Accepts(keyed[k], SubscribeKeys(a)[k])
         /\ keyed' = [k \in DOMAIN keyed |-> IF k \in done THEN SubscribeKeys(a)[k] ELSE keyed[k]]
    /\ attach' = [attach EXCEPT ![a] = NoAttach]
    /\ UNCHANGED <<locVars, tenantVars, tick, settingVars, sub, excused, edits, attaches>>

\* A repeated attach may store a subscription that has since been changed.
AttachStore(a) ==
    /\ attach[a].pc = "store"
    /\ attached' = TRUE
    /\ attach' = [attach EXCEPT ![a].pc = "mark"]
    /\ UNCHANGED <<locVars, rate, fee, tick, settingVars, stripeVars, excused, bounds>>

\* Every unsynced row is marked: the subscription was made with the latest count.
AttachMark(a) ==
    /\ attach[a].pc = "mark"
    /\ snaps' = MarkSynced(snaps)
    /\ attach' = [attach EXCEPT ![a] = NoAttach]
    /\ excused' = IF sub.qty # attach[a].qty THEN excused \cup {"count"} ELSE excused
    /\ UNCHANGED <<locState, edit, solo, tenantVars, tick, settingVars, stripeVars, bounds>>

-----------------------------------------------------------------------------
(* The quantity-sync worker *)

Waiting == {i \in DOMAIN snaps : Committed(snaps[i]) /\ snaps[i].changed /\ ~snaps[i].synced}

\* The mutant pushes the first of the waiting rows.
SyncSelect_First(w) ==
    /\ tick[w].pc = "idle"
    /\ attached /\ Waiting # {}
    /\ tick' = [tick EXCEPT ![w] = [pc |-> "push", qty |-> snaps[Min(Waiting)].count]]
    /\ UNCHANGED <<locVars, tenantVars, attach, settingVars, stripeVars, excused, bounds>>
SyncSelect(w) ==
    /\ tick[w].pc = "idle"
    /\ attached /\ Waiting # {}
    /\ tick' = [tick EXCEPT ![w] = [pc |-> "push", qty |-> snaps[Max(Waiting)].count]]
    /\ UNCHANGED <<locVars, tenantVars, attach, settingVars, stripeVars, excused, bounds>>

SyncPush(w) ==
    /\ tick[w].pc = "push"
    /\ sub' = [sub EXCEPT !.qty = tick[w].qty]
    /\ tick' = [tick EXCEPT ![w].pc = "mark"]
    /\ UNCHANGED <<locVars, tenantVars, attach, settingVars, keyed, excused, bounds>>

\* The call fails, or Stripe has done it and the answer is lost: the rows wait
\* for the next tick.
SyncPushFails(w) ==
    /\ tick[w].pc = "push"
    /\ faults < MaxFaults
    /\ faults' = faults + 1
    /\ sub' \in {sub, [sub EXCEPT !.qty = tick[w].qty]}
    /\ tick' = [tick EXCEPT ![w] = NoTick]
    /\ UNCHANGED <<locVars, tenantVars, attach, settingVars, keyed, excused, edits, attaches>>

SyncMark(w) ==
    /\ tick[w].pc = "mark"
    /\ snaps' = MarkSynced(snaps)
    /\ tick' = [tick EXCEPT ![w] = NoTick]
    /\ UNCHANGED <<locState, edit, solo, tenantVars, attach, settingVars, stripeVars, excused, bounds>>

-----------------------------------------------------------------------------
(* The edits of rate and setup fee *)

Local(field) == IF field = "rate" THEN rate ELSE fee

StartSetting(s, field, new, pc, route) ==
    /\ setting[s].pc = "idle"
    /\ edits < MaxEdits
    /\ edits' = edits + 1
    /\ setting' = [setting EXCEPT ![s] = [NoSetting EXCEPT !.pc = pc, !.field = field, !.new = new,
                                                           !.route = route]]
    /\ soloTerms' = IF (\E r \in Settings : setting[r].pc # "idle") \/ (\E a \in Attaches : attach[a].pc # "idle")
                      THEN {} ELSE {s}
    /\ UNCHANGED <<locVars, tenantVars, attach, tick, stripeVars, excused, attaches, faults>>

\* updateTenantRate: with a subscription, Stripe is told first.
EditRate(s, new) == StartSetting(s, "rate", new, IF attached THEN "push" ELSE "read", "own")

\* updateTenantSetupFee: blocked once there is a subscription (not in the mutant).
EditFee_Unblocked(s, new) == StartSetting(s, "fee", new, "read", "own")
EditFee(s, new) ==
    /\ ~attached
    /\ StartSetting(s, "fee", new, "read", "own")

\* PATCH /api/platform/tenants/:id hands its body to updateTenant.
PatchTenant(s, field, new) == StartSetting(s, field, new, "read", "patch")

PushRate(s) ==
    /\ setting[s].pc = "push"
    /\ sub' = [sub EXCEPT !.price = setting[s].new]
    /\ setting' = [setting EXCEPT ![s].pc = "read", ![s].route = "pushed"]
    /\ UNCHANGED <<locVars, tenantVars, attach, tick, soloTerms, keyed, excused, bounds>>

\* Refused, or done with the answer lost: the local rate stays as it is.
PushRateFails(s) ==
    /\ setting[s].pc = "push"
    /\ faults < MaxFaults
    /\ faults' = faults + 1
    /\ \/ UNCHANGED <<sub, excused>>
       \/ /\ sub' = [sub EXCEPT !.price = setting[s].new]
          /\ excused' = excused \cup {"rate"}
    /\ setting' = [setting EXCEPT ![s] = NoSetting]
    /\ soloTerms' = soloTerms \ {s}
    /\ UNCHANGED <<locVars, tenantVars, attach, tick, keyed, edits, attaches>>

\* updateTenant reads the tenant, then writes what differs from its reading.
SettingRead(s) ==
    /\ setting[s].pc = "read"
    /\ setting' = [setting EXCEPT ![s].pc = "write", ![s].was = Local(setting[s].field)]
    /\ UNCHANGED <<locVars, tenantVars, attach, tick, soloTerms, stripeVars, excused, bounds>>

SettingWrite(s) ==
    LET field == setting[s].field
        differs == setting[s].new # setting[s].was
    IN  /\ setting[s].pc = "write"
        /\ rate' = IF field = "rate" /\ differs THEN setting[s].new ELSE rate
        /\ fee' = IF field = "fee" /\ differs THEN setting[s].new ELSE fee
        /\ excused' = IF s \notin soloTerms \/ (attached /\ differs /\ setting[s].route = "patch")
                        THEN excused \cup {field}
                      ELSE IF setting[s].route = "pushed" THEN excused \ {field}
                      ELSE excused
        /\ setting' = [setting EXCEPT ![s] = NoSetting]
        /\ soloTerms' = soloTerms \ {s}
        /\ UNCHANGED <<locVars, attached, attach, tick, stripeVars, bounds>>

-----------------------------------------------------------------------------
(* The server dies: every request and every pass in flight is lost, and an   *)
(* open transaction rolls back.                                              *)

Crash ==
    /\ faults < MaxFaults
    /\ faults' = faults + 1
    /\ snaps' = [i \in DOMAIN snaps |->
                   IF Committed(snaps[i]) THEN snaps[i] ELSE [snaps[i] EXCEPT !.by = Lost]]
    /\ excused' = excused
         \cup {f \in {"count"} : \E e \in Editors : edit[e].pc \notin {"idle", "bulk"}}
         \cup {f \in {"rate"} : \E s \in Settings : setting[s].route = "pushed"}
    /\ edit' = [e \in Editors |-> NoEdit]
    /\ attach' = [a \in Attaches |-> NoAttach]
    /\ tick' = [w \in Ticks |-> NoTick]
    /\ setting' = [s \in Settings |-> NoSetting]
    /\ solo' = {} /\ soloTerms' = {}
    /\ UNCHANGED <<locState, tenantVars, stripeVars, edits, attaches>>

-----------------------------------------------------------------------------

EditStep(e) ==
    \/ ImportEnd(e) \/ BulkCommit(e) \/ CountActive(e) \/ ReadLast(e) \/ InsertSnapshot(e)
AttachStep(a) == AttachQuantity(a) \/ AttachSubscribe(a) \/ AttachFails(a) \/ AttachStore(a) \/ AttachMark(a)
TickStep(w) == SyncSelect(w) \/ SyncPush(w) \/ SyncPushFails(w) \/ SyncMark(w)
SettingStep(s) == PushRate(s) \/ PushRateFails(s) \/ SettingRead(s) \/ SettingWrite(s)

Next ==
    \/ \E e \in Editors :
         \/ \E l \in Locations : ChangeLocation(e, l) \/ ImportRow(e, l)
         \/ \E ls \in SUBSET Locations : BulkBegin(e, ls)
         \/ EditStep(e)
    \/ \E a \in Attaches : AttachRead(a) \/ AttachStep(a)
    \/ \E w \in Ticks : TickStep(w)
    \/ \E s \in Settings :
         \/ \E new \in NewRates : EditRate(s, new) \/ PatchTenant(s, "rate", new)
         \/ \E new \in NewFees : EditFee(s, new) \/ PatchTenant(s, "fee", new)
         \/ SettingStep(s)
    \/ Crash

Spec == Init /\ [][Next]_vars

\* A request that has begun goes on, and the worker's timer keeps firing.
Fairness ==
    /\ \A e \in Editors : WF_vars(EditStep(e))
    /\ \A a \in Attaches : WF_vars(AttachStep(a))
    /\ \A w \in Ticks : WF_vars(TickStep(w))
    /\ \A s \in Settings : WF_vars(SettingStep(s))

FairSpec == Spec /\ Fairness

-----------------------------------------------------------------------------
(* Properties *)

AtRest ==
    /\ Editing = {}
    /\ \A a \in Attaches : attach[a].pc = "idle"
    /\ \A w \in Ticks : tick[w].pc = "idle"
    /\ \A s \in Settings : setting[s].pc = "idle"

\* When nothing is under way and no row waits, Stripe charges for the active
\* locations - in spite of failed pushes, lost answers, attaches that died half
\* way and overlapping ticks.  Only an edit that raced with another edit, with a
\* push or with an attach, that died, or an attach repeated over a subscription
\* that had moved on, may have left the two apart; the next edit on its own that
\* changes the count brings them together again.
CountIsBilled ==
    AtRest /\ attached /\ Waiting = {} /\ "count" \notin excused => sub.qty = ActiveCount

\* When nothing is under way, the tenant's rate and setup fee are those Stripe
\* charges: a dead attach followed by an edit of the terms and a retry does not
\* store a subscription with the old ones, as long as Stripe remembers the keys of
\* the first.  Only edits that overlap, that die between Stripe and the tenant row,
\* whose answer is lost, or that are sent to the general tenant PATCH leave them
\* apart; a rate edit on its own mends it.  And a fee an attach has charged before
\* it died stays charged when it is removed before the retry (stripe.ts:48).
TermsAreBilled ==
    AtRest /\ attached =>
        /\ "rate" \notin excused => sub.price = rate
        /\ "fee" \notin excused => keyed.fee = fee

\* Every change of the count reaches Stripe in the end.
BilledInTheEnd ==
    <>[](attached => Waiting = {} /\ ("count" \notin excused => sub.qty = ActiveCount))
=============================================================================
