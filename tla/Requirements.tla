----------------------------- MODULE Requirements -----------------------------
(***************************************************************************)
(* The requirement rules of a tenant and what a change of them does to one *)
(* approved vendor: setRequirementRule and setPrecedence                   *)
(* (src/lib/services/requirements.ts), the re-evaluation they do or do not *)
(* trigger (src/lib/requirements/re-eval.ts), and the verification run     *)
(* behind it (src/lib/verification/run.ts), against the admin's approvals. *)
(*                                                                         *)
(* Rules are appended, and every reader takes the newest row of a scope    *)
(* and key: "rule" holds that row's value.  A verification run is a        *)
(* transaction at READ COMMITTED: its writes appear at once, but each      *)
(* location's rules are read by a statement of its own.                    *)
(*                                                                         *)
(* The vendor's documents do not change here (DocumentPipeline).           *)
(***************************************************************************)
EXTENDS RuleEngine, FiniteSets

CONSTANTS
    Locations,     \* the vendor's locations
    Admins,        \* concurrent requests that change requirements
    Values,        \* the values in use
    Requests,      \* what an admin may ask for: a scope, a key and a value
    Tenants,       \* how tenants are configured when the vendor is reviewed
    Bundles,       \* what the vendor's stored extractions may say
    MaxChanges,    \* bound: rules set
    MaxUpsets      \* bound: policy changes, and requests that die half way

ASSUME RequirementsAssumption ==
    /\ IsFiniteSet(Locations)
    /\ {"org", "trade"} \cap Locations = {}
    /\ Values \subseteq Value /\ NoValue \notin Value
    /\ \A t \in Tenants :
         \* templates.ts: a number for the floor of a limit, a switch for every other
         /\ \A k \in Keys : t.floor[k] # NoValue =>
              IF k.kind = "limit" THEN t.floor[k].form = "number" ELSE t.floor[k] \in {True, False}
         /\ t.floor \in [Keys -> Values \cup {NoValue}]
         /\ t.rule \in [{"org", "trade"} \cup Locations -> [Keys -> Values \cup {NoValue}]]
    /\ \A b \in Bundles, k \in Keys : k.kind = "limit" => b.limit[k].amount \in Nat
    /\ Requests \subseteq [scope : {"org", "trade"} \cup Locations, key : Keys, value : Values]
    /\ MaxChanges \in Nat /\ MaxUpsets \in Nat

Scopes == {"org", "trade"} \cup Locations

VARIABLES
    floor,      \* requirement_settings.floor_json
    rule,       \* requirement_rules: the newest value by scope and key
    policy,     \* requirement_settings.precedence_policy
    bundle,     \* the vendor's stored extractions
    status,     \* vendor_locations.status
    deciding,   \* approve requests between their read and their write
    \* per request that changes a rule
    pc,
    left,       \* approved rows it has still to re-evaluate
    precedence, \* the policy its run has read ("strictest" between runs)
    unread,     \* locations whose rules its run has not read yet
    found,      \* outcomes its run has collected
    \* history
    excused,    \* locations approved, or disturbed, since the last rule was set
    changes, upsets

ruleVars == <<floor, rule, policy, bundle>>
runVars == <<left, precedence, unread, found>>
bounds == <<changes, upsets>>
vars == <<ruleVars, status, deciding, pc, runVars, excused, bounds>>

TypeOK ==
    /\ floor \in [Keys -> Values \cup {NoValue}]
    /\ rule \in [Scopes -> [Keys -> Values \cup {NoValue}]]
    /\ policy \in Policy
    /\ bundle \in Bundles
    /\ status \in [Locations -> {"under_review", "approved", "non_compliant"}]
    /\ deciding \subseteq Locations
    /\ pc \in [Admins -> {"idle", "list", "next", "read", "flip"}]
    /\ left \in [Admins -> Nat]
    /\ precedence \in [Admins -> Policy]
    /\ unread \in [Admins -> SUBSET Locations]
    /\ found \in [Admins -> SUBSET {"pass", "deficient", "uncertain"}]
    /\ excused \subseteq Locations
    /\ changes \in Nat /\ upsets \in Nat

\* Before the tenant has vendors, applyTemplate has set the floor and the org rules,
\* and the admin has set overrides.
Init ==
    /\ \E t \in Tenants : floor = t.floor /\ rule = t.rule
    /\ policy = "strictest"
    /\ bundle \in Bundles
    /\ status = [l \in Locations |-> "under_review"]
    /\ deciding = {}
    /\ pc = [a \in Admins |-> "idle"]
    /\ left = [a \in Admins |-> 0]
    /\ precedence = [a \in Admins |-> "strictest"]
    /\ unread = [a \in Admins |-> {}]
    /\ found = [a \in Admins |-> {}]
    /\ excused = {}
    /\ changes = 0 /\ upsets = 0

-----------------------------------------------------------------------------
(* The matrix of a location under a policy, as the database stands *)

Matrix(l, p) ==
    [k \in Keys |-> Resolve(rule["org"][k], rule["trade"][k], rule[l][k], floor[k], p)]

\* What a run that saw one state of the rules would recommend for the vendor.
Verdict == Recommend(UNION {Findings(Matrix(l, policy), bundle) : l \in Locations})

Fails(recommendation) == recommendation \in {"deficiencies", "uncertain"}

-----------------------------------------------------------------------------
(* setRequirementRule *)

AboveFloor(key, value) == floor[key] # NoValue => ~IsStricter(floor[key], value)

\* The request is validated against the floor, which nothing changes once the
\* tenant has vendors, and the new row is inserted.
SetRule(a, r) ==
    /\ pc[a] = "idle" /\ changes < MaxChanges
    /\ AboveFloor(r.key, r.value)
    /\ rule' = [rule EXCEPT ![r.scope][r.key] = r.value]
    /\ excused' = {}
    /\ pc' = [pc EXCEPT ![a] = "list"]
    /\ changes' = changes + 1
    /\ UNCHANGED <<floor, policy, bundle, status, deciding, runVars, upsets>>

Approved == {l \in Locations : status[l] = "approved"}

\* triggerRuleChangeReeval selects the approved rows.
\* The mutant leaves the work to a change that is already being worked off.
Affected_Coalesced ==
    IF \E a \in Admins : pc[a] \in {"next", "read", "flip"} THEN {} ELSE Approved
Affected == Approved

ListApproved(a) ==
    /\ pc[a] = "list"
    /\ left' = [left EXCEPT ![a] = Cardinality(Affected)]
    /\ pc' = [pc EXCEPT ![a] = "next"]
    /\ UNCHANGED <<ruleVars, status, deciding, precedence, unread, found, excused, bounds>>

\* runVerification, per row: the locations and the policy first.
\* The mutant forgets when the rows are used up.
StartRun_OneMore(a) ==
    /\ pc[a] = "next"
    /\ left' = [left EXCEPT ![a] = @ - 1]
    /\ precedence' = [precedence EXCEPT ![a] = policy]
    /\ unread' = [unread EXCEPT ![a] = Locations]
    /\ pc' = [pc EXCEPT ![a] = "read"]
    /\ UNCHANGED <<ruleVars, status, deciding, found, excused, bounds>>
StartRun(a) ==
    /\ pc[a] = "next" /\ left[a] > 0
    /\ left' = [left EXCEPT ![a] = @ - 1]
    /\ precedence' = [precedence EXCEPT ![a] = policy]
    /\ unread' = [unread EXCEPT ![a] = Locations]
    /\ pc' = [pc EXCEPT ![a] = "read"]
    /\ UNCHANGED <<ruleVars, status, deciding, found, excused, bounds>>

\* Then the rules of each location in turn, and the engine.
EvaluateLocation(a, l) ==
    /\ pc[a] = "read" /\ l \in unread[a]
    /\ unread' = [unread EXCEPT ![a] = @ \ {l}]
    /\ found' = [found EXCEPT ![a] = @ \cup Findings(Matrix(l, precedence[a]), bundle)]
    /\ pc' = [pc EXCEPT ![a] = IF unread'[a] = {} THEN "flip" ELSE "read"]
    /\ UNCHANGED <<ruleVars, status, deciding, left, precedence, excused, bounds>>

\* A vendor that does not pass is flagged, at every location it has.
Flip(a) ==
    /\ pc[a] = "flip"
    /\ status' = IF Fails(Recommend(found[a]))
                 THEN [l \in Locations |-> "non_compliant"] ELSE status
    /\ precedence' = [precedence EXCEPT ![a] = "strictest"]
    /\ found' = [found EXCEPT ![a] = {}]
    /\ pc' = [pc EXCEPT ![a] = "next"]
    /\ UNCHANGED <<ruleVars, deciding, left, unread, excused, bounds>>

EndChange(a) ==
    /\ pc[a] = "next" /\ left[a] = 0
    /\ pc' = [pc EXCEPT ![a] = "idle"]
    /\ UNCHANGED <<ruleVars, status, deciding, runVars, excused, bounds>>

\* The server stops, or a run throws: nothing resumes the re-evaluation.
AbortChange(a) ==
    /\ pc[a] # "idle" /\ upsets < MaxUpsets
    /\ pc' = [pc EXCEPT ![a] = "idle"]
    /\ left' = [left EXCEPT ![a] = 0]
    /\ precedence' = [precedence EXCEPT ![a] = "strictest"]
    /\ unread' = [unread EXCEPT ![a] = {}]
    /\ found' = [found EXCEPT ![a] = {}]
    /\ excused' = Locations
    /\ upsets' = upsets + 1
    /\ UNCHANGED <<ruleVars, status, deciding, changes>>

\* setPrecedence upserts the policy; it triggers no re-evaluation.
SetPrecedence ==
    /\ upsets < MaxUpsets
    /\ policy' \in Policy \ {policy}
    /\ excused' = Locations
    /\ upsets' = upsets + 1
    /\ UNCHANGED <<floor, rule, bundle, status, deciding, pc, runVars, changes>>

-----------------------------------------------------------------------------
(* The admin's approvals (applyDecision) *)

DecideRead(l) ==
    /\ status[l] = "under_review" /\ l \notin deciding
    /\ deciding' = deciding \cup {l}
    /\ UNCHANGED <<ruleVars, status, pc, runVars, excused, bounds>>

\* Nothing is read again: not the status, not what the last run recommended.
DecideWrite(l) ==
    /\ l \in deciding
    /\ deciding' = deciding \ {l}
    /\ status' = [status EXCEPT ![l] = "approved"]
    /\ excused' = excused \cup {l}
    /\ UNCHANGED <<ruleVars, pc, runVars, bounds>>

Reeval(a) ==
    \/ ListApproved(a) \/ StartRun(a) \/ Flip(a) \/ EndChange(a)
    \/ \E l \in Locations : EvaluateLocation(a, l)

Next ==
    \/ \E a \in Admins : Reeval(a) \/ AbortChange(a)
    \/ \E a \in Admins, r \in Requests : SetRule(a, r)
    \/ SetPrecedence
    \/ \E l \in Locations : DecideRead(l) \/ DecideWrite(l)

Spec == Init /\ [][Next]_vars

-----------------------------------------------------------------------------
(* Properties *)

\* re-eval.ts:4-6: when a rule change has been worked off, no vendor that was
\* approved before it stays approved without meeting the rules as they now stand,
\* whatever other changes overlapped.  Excused are only locations approved later,
\* and all of them when the policy changed or a request died.
ReevalCatches ==
    (\A a \in Admins : pc[a] = "idle") /\ Fails(Verdict) => Approved \subseteq excused

\* resolver.ts:11-13, 135: the floor is the absolute backstop.  Whatever rules and
\* policy the tenant sets, a vendor that has nothing against it at a key has
\* nothing against it when the floor itself is the requirement.  Excused is a limit
\* whose value in force is a grouped number, such as 1,000,000: the form and the
\* route take it, no floor is stricter than it, and the engine reads it as 1.
FloorIsKept ==
    \A l \in Locations, k \in Keys :
      LET matrix == Matrix(l, policy)
          excuse == k.kind = "limit" /\ matrix[k].form = "grouped"
      IN floor[k] # NoValue /\ CheckKey(matrix, bundle, k) \subseteq {"pass"} /\ ~excuse =>
           CheckKey([matrix EXCEPT ![k] = floor[k]], bundle, k) \subseteq {"pass"}

\* resolver.ts:40-44, engine.ts: making existing rules stricter never clears a
\* vendor, whatever overrides, policy and floor they meet and whichever checks
\* give way to another.
TighteningNeverClears ==
    [][(/\ rule' # rule /\ policy' = policy
        /\ \A s \in Scopes, k \in Keys :
             \/ rule'[s][k] = rule[s][k]
             \/ rule[s][k] # NoValue /\ IsStricter(rule'[s][k], rule[s][k]))
       => (Fails(Verdict) => Fails(Verdict'))]_vars
=============================================================================
