-------------------------- MODULE RequirementsProofs --------------------------
(***************************************************************************)
(* For every set of requirement keys, rules, locations, documents and      *)
(* overlapping rule changes: the platform floor cannot be undercut, and a  *)
(* rule change that is worked off leaves no earlier approval in place that *)
(* does not meet the rules.  The argument of the second: as long as an     *)
(* approved vendor fails, some request has still to list it, to run over   *)
(* it, to read a location that fails, or to act on a failure it has found. *)
(***************************************************************************)
EXTENDS Requirements, FiniteSetTheorems, TLAPS

\* A request that is going to find out that the vendor fails.
Catching(a) ==
    \/ pc[a] = "list"
    \/ pc[a] = "next" /\ left[a] > 0
    \/ pc[a] = "flip" /\ Fails(Recommend(found[a]))
    \/ /\ pc[a] = "read" /\ precedence[a] = policy
       /\ \/ Fails(Recommend(found[a]))
          \/ \E l \in unread[a] : Fails(Recommend(Findings(Matrix(l, policy), bundle)))

CatchInv ==
    Fails(Verdict) /\ ~(Approved \subseteq excused) => \E a \in Admins : Catching(a)

IInv == TypeOK /\ CatchInv

-----------------------------------------------------------------------------
(* The engine *)

LEMMA FailsWhen ==
  ASSUME NEW F
  PROVE  Fails(Recommend(F)) <=> "deficient" \in F \/ "uncertain" \in F
BY DEF Fails, Recommend

LEMMA FindingsType ==
  ASSUME NEW matrix, NEW b
  PROVE  Findings(matrix, b) \subseteq {"pass", "deficient", "uncertain"}
<1>1. \A c, low : OutcomeFrom(c, low) \in {"pass", "deficient", "uncertain"}
  BY DEF OutcomeFrom
<1>2. CrossChecks(b) \subseteq {"pass", "deficient", "uncertain"}
  BY <1>1 DEF CrossChecks
<1>3. ASSUME NEW k \in Keys
      PROVE  CheckKey(matrix, b, k) \subseteq {"pass", "deficient", "uncertain"}
  <2>1. CheckLimit(matrix, b, k) \subseteq {"pass", "deficient", "uncertain"}
    BY <1>1 DEF CheckLimit
  <2>2. CheckCoverage(matrix, b, k) \subseteq {"pass", "deficient", "uncertain"}
    BY DEF CheckCoverage
  <2>3. AdditionalInsured(b) \subseteq {"pass", "deficient", "uncertain"}
    BY <1>1 DEF AdditionalInsured
  <2>4. CheckEndorsement(matrix, b, k) \subseteq {"pass", "deficient", "uncertain"}
    BY <1>1, <2>3 DEF CheckEndorsement
  <2>5. CheckDoc(matrix, b, k) \subseteq {"pass", "deficient", "uncertain"}
    BY DEF CheckDoc
  <2>6. CheckHolder(b) \subseteq {"pass", "deficient", "uncertain"}
    BY <1>1 DEF CheckHolder
  <2>7. CheckEntity(b) \subseteq {"pass", "deficient", "uncertain"}
    BY <1>1 DEF CheckEntity
  <2>8. k.kind \in {"limit", "coverage", "endorsement", "doc", "holder", "entity"}
    BY KeysAssumption
  <2>9. QED
    BY <2>1, <2>2, <2>4, <2>5, <2>6, <2>7, <2>8 DEF CheckKey
<1>4. QED
  BY <1>2, <1>3 DEF Findings

\* The vendor fails if and only if it fails somewhere.
LEMMA FailsSomewhere ==
  Fails(Verdict) <=>
    \E l \in Locations : Fails(Recommend(Findings(Matrix(l, policy), bundle)))
<1> DEFINE F == UNION {Findings(Matrix(l, policy), bundle) : l \in Locations}
<1>1. Fails(Verdict) <=> "deficient" \in F \/ "uncertain" \in F
  BY FailsWhen DEF Verdict
<1>2. \A o : o \in F <=> \E l \in Locations : o \in Findings(Matrix(l, policy), bundle)
  OBVIOUS
<1>3. \A l \in Locations : Fails(Recommend(Findings(Matrix(l, policy), bundle))) <=>
         \/ "deficient" \in Findings(Matrix(l, policy), bundle)
         \/ "uncertain" \in Findings(Matrix(l, policy), bundle)
  BY FailsWhen
<1> HIDE DEF F
<1>4. QED
  BY <1>1, <1>2, <1>3

\* What a run has found stays found.
LEMMA FailsMore ==
  ASSUME NEW F, NEW G, Fails(Recommend(F)) \/ Fails(Recommend(G))
  PROVE  Fails(Recommend(F \cup G))
BY FailsWhen

-----------------------------------------------------------------------------
(* Types *)

LEMMA TypeInit == Init => TypeOK
<1> SUFFICES ASSUME Init PROVE TypeOK
  OBVIOUS
<1>1. PICK t \in Tenants : floor = t.floor /\ rule = t.rule
  BY DEF Init
<1>2. floor \in [Keys -> Values \cup {NoValue}]
  BY <1>1, RequirementsAssumption
<1>3. rule \in [Scopes -> [Keys -> Values \cup {NoValue}]]
  BY <1>1, RequirementsAssumption DEF Scopes
<1>4. QED
  BY <1>2, <1>3 DEF Init, TypeOK, Policy

LEMMA ApprovedCount == Cardinality(Approved) \in Nat
<1>1. IsFiniteSet(Approved)
  BY RequirementsAssumption, FS_Subset DEF Approved
<1>2. QED
  BY <1>1, FS_CardinalityType

LEMMA TypeStep == TypeOK /\ [Next]_vars => TypeOK'
<1> SUFFICES ASSUME TypeOK, [Next]_vars PROVE TypeOK'
  OBVIOUS
<1> USE DEF TypeOK, ruleVars, runVars, bounds
<1>1. ASSUME NEW a \in Admins, NEW r \in Requests, SetRule(a, r) PROVE TypeOK'
  <2>1. r.scope \in Scopes /\ r.key \in Keys /\ r.value \in Values
    BY RequirementsAssumption DEF Scopes
  <2>2. rule' \in [Scopes -> [Keys -> Values \cup {NoValue}]]
    BY <1>1, <2>1 DEF SetRule
  <2>3. QED
    BY <1>1, <2>2 DEF SetRule
<1>2. ASSUME NEW a \in Admins, ListApproved(a) PROVE TypeOK'
  BY <1>2, ApprovedCount DEF ListApproved, Affected
<1>3. ASSUME NEW a \in Admins, StartRun(a) PROVE TypeOK'
  BY <1>3 DEF StartRun
<1>4. ASSUME NEW a \in Admins, NEW l \in Locations, EvaluateLocation(a, l) PROVE TypeOK'
  <2>1. Findings(Matrix(l, precedence[a]), bundle) \subseteq {"pass", "deficient", "uncertain"}
    BY FindingsType
  <2>2. QED
    BY <1>4, <2>1 DEF EvaluateLocation
<1>5. ASSUME NEW a \in Admins, Flip(a) PROVE TypeOK'
  BY <1>5 DEF Flip, Policy
<1>6. ASSUME NEW a \in Admins, EndChange(a) PROVE TypeOK'
  BY <1>6 DEF EndChange
<1>7. ASSUME NEW a \in Admins, AbortChange(a) PROVE TypeOK'
  BY <1>7 DEF AbortChange, Policy
<1>8. CASE SetPrecedence
  BY <1>8 DEF SetPrecedence
<1>9. ASSUME NEW l \in Locations, DecideRead(l) PROVE TypeOK'
  BY <1>9 DEF DecideRead
<1>10. ASSUME NEW l \in Locations, DecideWrite(l) PROVE TypeOK'
  BY <1>10 DEF DecideWrite
<1>11. CASE UNCHANGED vars
  BY <1>11 DEF vars
<1>12. QED
  BY <1>1, <1>2, <1>3, <1>4, <1>5, <1>6, <1>7, <1>8, <1>9, <1>10, <1>11 DEF Next, Reeval

\* Every reachable state of the rules, the requests and their runs has its type
\* (services/requirements.ts, re-eval.ts, run.ts).
THEOREM TypeCorrect == Spec => []TypeOK
BY TypeInit, TypeStep, PTL DEF Spec

-----------------------------------------------------------------------------
(* The floor *)

FloorInv == \E t \in Tenants : floor = t.floor

LEMMA FloorStep == FloorInv /\ [Next]_vars => FloorInv'
<1> SUFFICES ASSUME [Next]_vars PROVE floor' = floor
  BY DEF FloorInv
<1>1. QED
  BY DEF Next, Reeval, SetRule, ListApproved, StartRun, EvaluateLocation, Flip, EndChange,
         AbortChange, SetPrecedence, DecideRead, DecideWrite, vars, ruleVars

\* The value of a key is the floor's, or one that the floor is not stricter than.
LEMMA ResolvedAgainstFloor ==
  ASSUME TypeOK, NEW l \in Locations, NEW k \in Keys, floor[k] # NoValue,
         Matrix(l, policy)[k] # floor[k]
  PROVE  /\ Matrix(l, policy)[k] \in Values
         /\ ~IsStricter(floor[k], Matrix(l, policy)[k])
<1> DEFINE value == Overridden(rule["org"][k], rule["trade"][k], rule[l][k], policy)
<1>1. Matrix(l, policy)[k] = Resolve(rule["org"][k], rule["trade"][k], rule[l][k], floor[k], policy)
  BY DEF Matrix
<1>2. {rule["org"][k], rule["trade"][k], rule[l][k]} \subseteq Values \cup {NoValue}
  BY DEF TypeOK, Scopes
<1>3. value \in Values \cup {NoValue}
  BY <1>2 DEF Overridden
<1>4. Matrix(l, policy)[k] = value /\ value # NoValue /\ ~IsStricter(floor[k], value)
  BY <1>1 DEF Resolve
<1>5. QED
  BY <1>3, <1>4

\* A limit that reaches the required value reaches a smaller floor.
LEMMA FloorOfLimit ==
  ASSUME TypeOK, FloorInv, NEW l \in Locations, NEW k \in Keys,
         k.kind = "limit", floor[k] # NoValue, Matrix(l, policy)[k] # floor[k],
         Matrix(l, policy)[k].form # "grouped",
         CheckLimit(Matrix(l, policy), bundle, k) \subseteq {"pass"}
  PROVE  CheckLimit([Matrix(l, policy) EXCEPT ![k] = floor[k]], bundle, k) \subseteq {"pass"}
<1> DEFINE M == Matrix(l, policy)
           N == [M EXCEPT ![k] = floor[k]]
           limit == bundle.limit[k]
<1>1. M[k] \in Values /\ ~IsStricter(floor[k], M[k])
  BY ResolvedAgainstFloor
<1>2. N[k] = floor[k] /\ \A j \in Keys : j # k => N[j] = M[j]
  BY DEF Matrix
<1>3. InMatrix(N, CoverageKey(k.of)) <=> InMatrix(M, CoverageKey(k.of))
  <2>1. CoverageKey(k.of) # k
    BY DEF CoverageKey
  <2>2. QED
    BY <1>2, <2>1 DEF InMatrix
<1>4. floor[k].form = "number" /\ floor[k] \in Value
  BY RequirementsAssumption DEF FloorInv, TypeOK
<1>5. M[k].form # "grouped" /\ M[k] \in Value
  BY <1>1, RequirementsAssumption
<1>6. limit.amount \in Nat
  BY RequirementsAssumption DEF TypeOK
<1>7. Reaches(limit.amount, M[k]) => Reaches(limit.amount, floor[k])
  BY <1>1, <1>4, <1>5, <1>6 DEF Reaches, IsStricter, Value
<1> HIDE DEF M, N
<1>8. CheckLimit(M, bundle, k) \subseteq {"pass"}
  BY DEF M
<1>9. CheckLimit(N, bundle, k) \subseteq {"pass"}
  BY <1>2, <1>3, <1>7, <1>8 DEF CheckLimit, OutcomeFrom
<1>10. QED
  BY <1>9 DEF M, N

\* A switch that the floor turns on is on.
LEMMA FloorOfSwitch ==
  ASSUME TypeOK, FloorInv, NEW l \in Locations, NEW k \in Keys,
         k.kind # "limit", floor[k] # NoValue, Matrix(l, policy)[k] # floor[k]
  PROVE  Off(floor[k]) \/ (~Off(floor[k]) /\ ~Off(Matrix(l, policy)[k]))
<1>1. Matrix(l, policy)[k] \in Value /\ ~IsStricter(floor[k], Matrix(l, policy)[k])
  BY ResolvedAgainstFloor, RequirementsAssumption
<1>2. floor[k] \in {True, False}
  BY RequirementsAssumption DEF FloorInv
<1>3. CASE floor[k] = False
  BY <1>3 DEF Off, False
<1>4. CASE floor[k] = True
  <2>1. Matrix(l, policy)[k].form = "true"
    BY <1>1, <1>4 DEF IsStricter, True
  <2>2. QED
    BY <1>4, <2>1 DEF Off, True, Number
<1>5. QED
  BY <1>2, <1>3, <1>4

LEMMA FloorImplied ==
  ASSUME TypeOK, FloorInv PROVE FloorIsKept
<1> SUFFICES ASSUME NEW l \in Locations, NEW k \in Keys, floor[k] # NoValue,
                    ~(k.kind = "limit" /\ Matrix(l, policy)[k].form = "grouped"),
                    CheckKey(Matrix(l, policy), bundle, k) \subseteq {"pass"}
             PROVE  CheckKey([Matrix(l, policy) EXCEPT ![k] = floor[k]], bundle, k) \subseteq {"pass"}
  BY DEF FloorIsKept
<1> DEFINE M == Matrix(l, policy)
           N == [M EXCEPT ![k] = floor[k]]
<1>1. CASE M[k] = floor[k]
  <2>1. N = M
    BY <1>1 DEF Matrix
  <2>2. QED
    BY <2>1
<1>2. CASE M[k] # floor[k] /\ k.kind = "limit"
  BY <1>2, FloorOfLimit DEF CheckKey
<1>3. CASE M[k] # floor[k] /\ k.kind # "limit"
  <2>1. N[k] = floor[k]
    BY DEF Matrix
  <2>2. Off(floor[k]) \/ (~Off(floor[k]) /\ ~Off(M[k]))
    BY <1>3, FloorOfSwitch
  <2>3. k.kind \in {"coverage", "endorsement", "doc", "holder", "entity"}
    BY <1>3, KeysAssumption
  <2>4. CheckKey(M, bundle, k) \subseteq {"pass"}
    OBVIOUS
  <2> SUFFICES CheckKey(N, bundle, k) \subseteq {"pass"}
    OBVIOUS
  <2> HIDE DEF M, N
  <2>5. CASE k.kind = "coverage"
    BY <2>1, <2>2, <2>4, <2>5 DEF CheckKey, CheckCoverage
  <2>6. CASE k.kind = "endorsement"
    BY <2>1, <2>2, <2>4, <2>6 DEF CheckKey, CheckEndorsement
  <2>7. CASE k.kind = "doc"
    BY <2>1, <2>2, <2>4, <2>7 DEF CheckKey, CheckDoc
  <2>8. CASE k.kind \in {"holder", "entity"}
    BY <2>4, <2>8 DEF CheckKey
  <2>9. QED
    BY <2>3, <2>5, <2>6, <2>7, <2>8
<1>4. QED
  BY <1>1, <1>2, <1>3

\* resolver.ts:11-13, 135: for any tenant, any values, overlapping changes and
\* documents, no rule, override or policy undercuts the platform floor, unless the
\* value in force is a limit written as a grouped number.
THEOREM FloorIsKeptHolds == Spec => []FloorIsKept
<1>1. Init => TypeOK /\ FloorInv
  BY TypeInit DEF Init, FloorInv
<1>2. TypeOK /\ FloorInv /\ [Next]_vars => (TypeOK /\ FloorInv)'
  BY TypeStep, FloorStep
<1>3. TypeOK /\ FloorInv => FloorIsKept
  BY FloorImplied
<1>4. QED
  BY <1>1, <1>2, <1>3, PTL DEF Spec

-----------------------------------------------------------------------------
(* Catching *)

\* A step that leaves the rules and a request alone leaves it catching.
LEMMA CatchingFrame ==
  ASSUME NEW b \in Admins, Catching(b), UNCHANGED ruleVars,
         pc'[b] = pc[b], left'[b] = left[b], precedence'[b] = precedence[b],
         unread'[b] = unread[b], found'[b] = found[b]
  PROVE  Catching(b)'
BY DEF Catching, Matrix, ruleVars

LEMMA VerdictFrame == UNCHANGED ruleVars => Verdict' = Verdict
BY DEF Verdict, Matrix, ruleVars

LEMMA CatchInit == Init => CatchInv
BY DEF Init, CatchInv, Approved

LEMMA CatchStep == TypeOK /\ CatchInv /\ [Next]_vars => CatchInv'
<1> SUFFICES ASSUME TypeOK, CatchInv, [Next]_vars, Fails(Verdict)', ~(Approved \subseteq excused)'
             PROVE  \E a \in Admins : Catching(a)'
  BY DEF CatchInv
<1> USE DEF TypeOK
<1>1. ASSUME NEW a \in Admins, NEW r \in Requests, SetRule(a, r) PROVE Catching(a)'
  <2>1. pc'[a] = "list"
    BY <1>1 DEF SetRule
  <2>2. QED
    BY <2>1 DEF Catching
<1>2. ASSUME NEW a \in Admins, ListApproved(a) PROVE Catching(a)'
  <2>1. Approved # {}
    BY <1>2 DEF ListApproved, Approved
  <2>2. IsFiniteSet(Approved)
    BY RequirementsAssumption, FS_Subset DEF Approved
  <2>3. Cardinality(Approved) \in Nat /\ Cardinality(Approved) # 0
    BY <2>1, <2>2, FS_EmptySet, FS_CardinalityType
  <2>4. pc'[a] = "next" /\ left'[a] > 0
    BY <1>2, <2>3 DEF ListApproved, Affected
  <2>5. QED
    BY <2>4 DEF Catching
<1>3. ASSUME NEW a \in Admins, StartRun(a) PROVE Catching(a)'
  <2>1. UNCHANGED ruleVars /\ pc'[a] = "read" /\ precedence'[a] = policy' /\ unread'[a] = Locations
    BY <1>3 DEF StartRun, ruleVars
  <2>2. Fails(Verdict)
    BY <2>1, VerdictFrame
  <2>3. \E l \in Locations : Fails(Recommend(Findings(Matrix(l, policy), bundle)))
    BY <2>2, FailsSomewhere
  <2>4. PICK l \in Locations : Fails(Recommend(Findings(Matrix(l, policy), bundle)))
    BY <2>3
  <2>5. floor' = floor /\ rule' = rule /\ policy' = policy /\ bundle' = bundle
    BY <2>1 DEF ruleVars
  <2>6. Fails(Recommend(Findings(Matrix(l, policy), bundle)))'
    BY <2>4, <2>5 DEF Matrix
  <2>7. l \in unread'[a] /\ pc'[a] = "read" /\ precedence'[a] = policy'
    BY <2>1
  <2>8. QED
    BY <2>6, <2>7 DEF Catching
\* The remaining steps need a request that was catching before.
<1>4. ASSUME UNCHANGED ruleVars, ~(Approved \subseteq excused)
      PROVE  \E b \in Admins : Catching(b)
  BY <1>4, VerdictFrame DEF CatchInv
<1>5. ASSUME NEW a \in Admins, NEW l \in Locations, EvaluateLocation(a, l)
      PROVE  \E b \in Admins : Catching(b)'
  <2>1. UNCHANGED ruleVars /\ ~(Approved \subseteq excused)
    BY <1>5 DEF EvaluateLocation, Approved, ruleVars
  <2>2. PICK b \in Admins : Catching(b)
    BY <1>4, <2>1
  <2>3. CASE b # a
    BY <1>5, <2>1, <2>2, <2>3, CatchingFrame DEF EvaluateLocation
  <2>4. CASE b = a
    <3> DEFINE F == Findings(Matrix(l, policy), bundle)
    <3>1. pc[a] = "read" /\ precedence[a] = policy
      BY <1>5, <2>2, <2>4 DEF EvaluateLocation, Catching
    <3>2. unread'[a] = unread[a] \ {l} /\ found'[a] = found[a] \cup F
      BY <1>5, <3>1 DEF EvaluateLocation
    <3>3. pc'[a] = IF unread'[a] = {} THEN "flip" ELSE "read"
      BY <1>5 DEF EvaluateLocation
    <3>4. precedence'[a] = policy'
      BY <1>5, <2>1, <3>1 DEF EvaluateLocation, ruleVars
    <3> HIDE DEF F
    <3>5. CASE Fails(Recommend(found[a])) \/ Fails(Recommend(F))
      <4>1. Fails(Recommend(found'[a]))
        BY <3>2, <3>5, FailsMore
      <4>2. QED
        BY <3>3, <3>4, <4>1 DEF Catching
    <3>6. CASE ~Fails(Recommend(found[a])) /\ ~Fails(Recommend(F))
      <4>1. PICK m \in unread[a] : Fails(Recommend(Findings(Matrix(m, policy), bundle)))
        BY <2>2, <2>4, <3>1, <3>6 DEF Catching
      <4>2. m \in unread'[a]
        BY <3>2, <3>6, <4>1 DEF F
      <4>3. Fails(Recommend(Findings(Matrix(m, policy), bundle)))'
        BY <2>1, <4>1 DEF Matrix, ruleVars
      <4>4. QED
        BY <3>3, <3>4, <4>2, <4>3 DEF Catching
    <3>7. QED
      BY <3>5, <3>6
  <2>5. QED
    BY <2>3, <2>4
<1>6. ASSUME NEW a \in Admins, Flip(a) PROVE \E b \in Admins : Catching(b)'
  <2>1. ~Fails(Recommend(found[a]))
    BY <1>6 DEF Flip, Approved
  <2>2. UNCHANGED ruleVars /\ ~(Approved \subseteq excused)
    BY <1>6, <2>1 DEF Flip, Approved, ruleVars
  <2>3. PICK b \in Admins : Catching(b)
    BY <1>4, <2>2
  <2>4. b # a
    BY <1>6, <2>1, <2>3 DEF Flip, Catching
  <2>5. QED
    BY <1>6, <2>2, <2>3, <2>4, CatchingFrame DEF Flip
<1>7. ASSUME NEW a \in Admins, EndChange(a) PROVE \E b \in Admins : Catching(b)'
  <2>1. UNCHANGED ruleVars /\ ~(Approved \subseteq excused)
    BY <1>7 DEF EndChange, Approved, ruleVars
  <2>2. PICK b \in Admins : Catching(b)
    BY <1>4, <2>1
  <2>3. b # a
    BY <1>7, <2>2 DEF EndChange, Catching
  <2>4. QED
    BY <1>7, <2>1, <2>2, <2>3, CatchingFrame DEF EndChange, runVars
<1>8. ASSUME NEW a \in Admins PROVE ~AbortChange(a)
  BY DEF AbortChange, Approved
<1>9. ASSUME NEW l \in Locations, DecideRead(l) \/ DecideWrite(l)
      PROVE  \E b \in Admins : Catching(b)'
  <2>1. UNCHANGED <<ruleVars, pc, runVars>>
    BY <1>9 DEF DecideRead, DecideWrite
  <2>2. ~(Approved \subseteq excused)
    BY <1>9 DEF DecideRead, DecideWrite, Approved
  <2>3. PICK b \in Admins : Catching(b)
    BY <1>4, <2>1, <2>2
  <2>4. QED
    BY <2>1, <2>3, CatchingFrame DEF runVars
<1>10. CASE UNCHANGED vars
  <2>1. UNCHANGED <<ruleVars, pc, runVars>> /\ ~(Approved \subseteq excused)
    BY <1>10 DEF vars, Approved
  <2>2. PICK b \in Admins : Catching(b)
    BY <1>4, <2>1
  <2>3. QED
    BY <2>1, <2>2, CatchingFrame DEF runVars
<1>11. CASE SetPrecedence
  BY <1>11 DEF SetPrecedence, Approved
<1>12. QED
  BY <1>1, <1>2, <1>3, <1>5, <1>6, <1>7, <1>8, <1>9, <1>10, <1>11 DEF Next, Reeval

\* re-eval.ts:4-6: for any overlapping rule changes, approvals and locations, a rule
\* change that is worked off leaves no earlier approval that fails the rules.
THEOREM ReevalCatchesHolds == Spec => []ReevalCatches
<1>1. Init => IInv
  BY TypeInit, CatchInit DEF IInv
<1>2. IInv /\ [Next]_vars => IInv'
  BY TypeStep, CatchStep DEF IInv
<1>3. IInv => ReevalCatches
  BY DEF IInv, CatchInv, Catching, ReevalCatches
<1>4. QED
  BY <1>1, <1>2, <1>3, PTL DEF Spec

-----------------------------------------------------------------------------
(* Tightening *)

\* A value that no check can tell from a stricter one.
NoLooser(new, old) ==
    \/ new = old \/ IsStricter(new, old)
    \/ new.form = "true" /\ old.form = "true"

\* What a rule may become when it is tightened.
Tightens(new, old) == new = old \/ (old \in Value /\ new \in Value /\ IsStricter(new, old))

LEMMA NoLooserTransitive ==
  ASSUME NEW a \in Value, NEW b \in Value, NEW c \in Value, NoLooser(a, b), NoLooser(b, c)
  PROVE  NoLooser(a, c)
BY DEF NoLooser, IsStricter, Value

LEMMA OverriddenTightens ==
  ASSUME NoValue \notin Value, NEW p,
         NEW org \in Value \cup {NoValue}, NEW org2, Tightens(org2, org),
         NEW trade \in Value \cup {NoValue}, NEW trade2, Tightens(trade2, trade),
         NEW loc \in Value \cup {NoValue}, NEW loc2, Tightens(loc2, loc)
  PROVE  NoLooser(Overridden(org2, trade2, loc2, p), Overridden(org, trade, loc, p))
<1>1. CASE trade = NoValue \/ loc = NoValue
  BY <1>1 DEF Overridden, NoLooser, Tightens
<1>2. CASE trade # NoValue /\ loc # NoValue
  <2>1. {trade, loc, trade2, loc2} \subseteq Value
    BY <1>2 DEF Tightens
  <2>2. NoLooser(trade2, trade) /\ NoLooser(loc2, loc)
    BY DEF Tightens, NoLooser
  <2>3. CASE p = "trade"
    BY <1>2, <2>1, <2>2, <2>3 DEF Overridden
  <2>4. CASE p # "trade" /\ p # "strictest"
    BY <1>2, <2>1, <2>2, <2>4 DEF Overridden
  <2>5. CASE p = "strictest"
    <3> DEFINE Stricter(t, l) == IF IsStricter(t, l) THEN t ELSE l
    <3>1. /\ Overridden(org, trade, loc, p) = Stricter(trade, loc)
          /\ Overridden(org2, trade2, loc2, p) = Stricter(trade2, loc2)
      BY <1>2, <2>1, <2>5 DEF Overridden
    <3>2. CASE ~IsStricter(trade, loc)
      <4>1. IsStricter(trade2, loc2) => NoLooser(trade2, loc)
        BY <2>1, <2>2, NoLooserTransitive DEF NoLooser
      <4>2. QED
        BY <2>2, <3>1, <3>2, <4>1
    <3>3. CASE IsStricter(trade, loc)
      <4>1. ~IsStricter(trade2, loc2) => NoLooser(loc2, trade)
        BY <2>1, <3>3 DEF Tightens, NoLooser, IsStricter, Value
      <4>2. QED
        BY <2>2, <3>1, <3>3, <4>1
    <3>4. QED
      BY <3>2, <3>3
  <2>6. QED
    BY <2>3, <2>4, <2>5
<1>3. QED
  BY <1>1, <1>2

LEMMA ResolveTightens ==
  ASSUME NoValue \notin Value, NEW p, NEW fl \in Value \cup {NoValue},
         NEW org \in Value \cup {NoValue}, NEW org2, Tightens(org2, org),
         NEW trade \in Value \cup {NoValue}, NEW trade2, Tightens(trade2, trade),
         NEW loc \in Value \cup {NoValue}, NEW loc2, Tightens(loc2, loc)
  PROVE  LET old == Resolve(org, trade, loc, fl, p)
             new == Resolve(org2, trade2, loc2, fl, p)
         IN /\ old \in Value \cup {NoValue} /\ new \in Value \cup {NoValue}
            /\ NoLooser(new, old)
            /\ new = NoValue <=> old = NoValue
<1> DEFINE old == Overridden(org, trade, loc, p)
           new == Overridden(org2, trade2, loc2, p)
<1>1. NoLooser(new, old)
  BY OverriddenTightens
<1>2. /\ old \in Value \cup {NoValue} /\ new \in Value \cup {NoValue}
      /\ new = NoValue <=> old = NoValue
  BY DEF Tightens, Overridden
<1> HIDE DEF old, new
<1>3. old # NoValue /\ fl # NoValue /\ IsStricter(fl, new) => NoLooser(fl, old)
  BY <1>1, <1>2 DEF NoLooser, IsStricter, Value
<1>4. old # NoValue /\ fl # NoValue /\ IsStricter(fl, old) /\ ~IsStricter(fl, new)
        => NoLooser(new, fl)
  BY <1>1, <1>2 DEF NoLooser, IsStricter, Value
<1>5. QED
  BY <1>1, <1>2, <1>3, <1>4 DEF Resolve, old, new, NoLooser

\* A requirement that found something against the vendor still does.
LEMMA CheckKeyTightens ==
  ASSUME NEW M, NEW N, NEW b, NEW k \in Keys, k.kind = "limit" => b.limit[k].amount \in Nat,
         M[k] \in Value, N[k] \in Value, NoLooser(N[k], M[k]),
         \A j \in Keys : N[j] = NoValue <=> M[j] = NoValue,
         Fails(Recommend(CheckKey(M, b, k)))
  PROVE  Fails(Recommend(CheckKey(N, b, k)))
<1>1. Off(N[k]) => Off(M[k])
  BY DEF Off, NoLooser, IsStricter, Number, Value
<1>2. k.kind \in {"limit", "coverage", "endorsement", "doc", "holder", "entity"}
  BY KeysAssumption
<1>3. CASE k.kind = "limit"
  <2> DEFINE amount == b.limit[k].amount
  <2>1. Reaches(amount, N[k]) => Reaches(amount, M[k])
    BY <1>3 DEF Reaches, NoLooser, IsStricter, Value
  <2>2. InMatrix(N, CoverageKey(k.of)) <=> InMatrix(M, CoverageKey(k.of))
    BY DEF InMatrix
  <2>3. Fails(Recommend(CheckLimit(M, b, k)))
    BY <1>3 DEF CheckKey
  <2>4. Fails(Recommend(CheckLimit(N, b, k)))
    BY <2>1, <2>2, <2>3, FailsWhen DEF CheckLimit, OutcomeFrom
  <2>5. QED
    BY <1>3, <2>4 DEF CheckKey
<1>4. CASE k.kind = "coverage"
  BY <1>1, <1>4, FailsWhen DEF CheckKey, CheckCoverage
<1>5. CASE k.kind = "endorsement"
  BY <1>1, <1>5, FailsWhen DEF CheckKey, CheckEndorsement
<1>6. CASE k.kind = "doc"
  BY <1>1, <1>6, FailsWhen DEF CheckKey, CheckDoc
<1>7. CASE k.kind \in {"holder", "entity"}
  BY <1>7 DEF CheckKey
<1>8. QED
  BY <1>2, <1>3, <1>4, <1>5, <1>6, <1>7

LEMMA FindingsTighten ==
  ASSUME NEW M, NEW N, NEW b, \A k \in Keys : k.kind = "limit" => b.limit[k].amount \in Nat,
         \A k \in Keys : /\ {M[k], N[k]} \subseteq Value \cup {NoValue} /\ NoLooser(N[k], M[k])
                         /\ N[k] = NoValue <=> M[k] = NoValue,
         Fails(Recommend(Findings(M, b)))
  PROVE  Fails(Recommend(Findings(N, b)))
<1>1. PICK o \in {"deficient", "uncertain"} : o \in Findings(M, b)
  BY FailsWhen
<1>2. CASE o \in CrossChecks(b)
  <2>1. o \in Findings(N, b)
    BY <1>2 DEF Findings
  <2>2. QED
    BY <1>1, <2>1, FailsWhen
<1>3. CASE o \notin CrossChecks(b)
  <2>1. PICK k \in Keys : M[k] # NoValue /\ o \in CheckKey(M, b, k)
    BY <1>1, <1>3 DEF Findings
  <2>2. Fails(Recommend(CheckKey(M, b, k)))
    BY <1>1, <2>1, FailsWhen
  <2>3. {M[k], N[k]} \subseteq Value /\ N[k] # NoValue
    BY <2>1
  <2>4. Fails(Recommend(CheckKey(N, b, k)))
    BY <2>2, <2>3, CheckKeyTightens
  <2>5. CheckKey(N, b, k) \subseteq Findings(N, b)
    BY <2>3 DEF Findings
  <2>6. QED
    BY <2>4, <2>5, FailsWhen
<1>4. QED
  BY <1>2, <1>3

LEMMA TighteningStep ==
  ASSUME TypeOK, [Next]_vars, rule' # rule, policy' = policy,
         \A s \in Scopes, k \in Keys :
           \/ rule'[s][k] = rule[s][k]
           \/ rule[s][k] # NoValue /\ IsStricter(rule'[s][k], rule[s][k]),
         Fails(Verdict)
  PROVE  Fails(Verdict')
<1>1. PICK a \in Admins, r \in Requests : SetRule(a, r)
  BY DEF Next, Reeval, ListApproved, StartRun, EvaluateLocation, Flip, EndChange,
         AbortChange, SetPrecedence, DecideRead, DecideWrite, vars, ruleVars
<1>2. floor' = floor /\ bundle' = bundle
  BY <1>1 DEF SetRule
<1>3. \A s \in Scopes, k \in Keys : Tightens(rule'[s][k], rule[s][k])
  <2>1. r.scope \in Scopes /\ r.key \in Keys /\ r.value \in Value
    BY RequirementsAssumption DEF Scopes
  <2>2. rule' = [rule EXCEPT ![r.scope][r.key] = r.value]
    BY <1>1 DEF SetRule
  <2>3. SUFFICES ASSUME NEW s \in Scopes, NEW k \in Keys, rule'[s][k] # rule[s][k]
                 PROVE  Tightens(rule'[s][k], rule[s][k])
    BY DEF Tightens
  <2>4. rule'[s][k] = r.value
    BY <2>1, <2>2, <2>3 DEF TypeOK
  <2>5. rule[s][k] \in Value
    BY <2>3, RequirementsAssumption DEF TypeOK
  <2>6. QED
    BY <2>1, <2>3, <2>4, <2>5 DEF Tightens
<1>4. PICK l \in Locations : Fails(Recommend(Findings(Matrix(l, policy), bundle)))
  BY FailsSomewhere
<1> DEFINE M == Matrix(l, policy)
           N == Matrix(l, policy)'
<1>5. ASSUME NEW k \in Keys
      PROVE  /\ {M[k], N[k]} \subseteq Value \cup {NoValue} /\ NoLooser(N[k], M[k])
             /\ N[k] = NoValue <=> M[k] = NoValue
  <2>1. \A s \in Scopes : rule[s][k] \in Value \cup {NoValue}
    BY RequirementsAssumption DEF TypeOK
  <2>2. floor[k] \in Value \cup {NoValue} /\ NoValue \notin Value
    BY RequirementsAssumption DEF TypeOK
  <2>3. {"org", "trade", l} \subseteq Scopes
    BY DEF Scopes
  <2>4. /\ M[k] = Resolve(rule["org"][k], rule["trade"][k], rule[l][k], floor[k], policy)
        /\ N[k] = Resolve(rule'["org"][k], rule'["trade"][k], rule'[l][k], floor[k], policy)
    BY <1>2 DEF Matrix
  <2> HIDE DEF M, N
  <2>5. QED
    BY <1>3, <2>1, <2>2, <2>3, <2>4, ResolveTightens
<1>6. \A k \in Keys : k.kind = "limit" => bundle.limit[k].amount \in Nat
  BY RequirementsAssumption DEF TypeOK
<1>7. Fails(Recommend(Findings(N, bundle)))
  <2> HIDE DEF N
  <2>1. QED
    BY <1>4, <1>5, <1>6, FindingsTighten
<1>8. Fails(Verdict')
  BY <1>2, <1>7, FailsWhen DEF Verdict
<1>9. QED
  BY <1>8

\* resolver.ts:40-44, engine.ts: for any rules, overrides, policy, floor and documents,
\* a rule set to a stricter value never clears a vendor that failed.
THEOREM TighteningNeverClearsHolds == Spec => TighteningNeverClears
<1>1. TypeOK /\ [Next]_vars =>
        [(/\ rule' # rule /\ policy' = policy
          /\ \A s \in Scopes, k \in Keys :
               \/ rule'[s][k] = rule[s][k]
               \/ rule[s][k] # NoValue /\ IsStricter(rule'[s][k], rule[s][k]))
         => (Fails(Verdict) => Fails(Verdict'))]_vars
  BY TighteningStep
<1>2. QED
  BY <1>1, TypeCorrect, PTL DEF Spec, TighteningNeverClears
=============================================================================
