------------------------------ MODULE RuleEngine ------------------------------
(***************************************************************************)
(* The pure part of requirement checking: which value of a requirement     *)
(* applies to a vendor at a location (src/lib/requirements/resolver.ts),   *)
(* and what the rules engine makes of the vendor's extracted documents     *)
(* (src/lib/verification/engine.ts).                                       *)
(*                                                                         *)
(* A value is a string in the code.  What the code tells apart is whether  *)
(* Number() accepts it, what parseFloat() reads at its head, and whether   *)
(* it is 'true' or 'false': "number" is 1000000, "grouped" is 1,000,000,   *)
(* which Number() rejects and parseFloat() reads as 1, and likewise any    *)
(* other text that only begins with a number.                              *)
(*                                                                         *)
(* A bundle is what the engine tells apart in the stored extractions: per  *)
(* coverage the best limit over its policies, not each policy, and of two  *)
(* names how they compare, not the names.                                  *)
(***************************************************************************)
EXTENDS Naturals

CONSTANTS
    Keys,     \* the requirement keys in use
    NoValue   \* a key without a rule, or without a floor

ASSUME KeysAssumption ==
    Keys \subseteq [kind : {"limit", "coverage", "endorsement", "doc", "holder", "entity"},
                   of : STRING, name : STRING]

Value == [form : {"number", "grouped", "true", "false"}, amount : Nat]
Number(n) == [form |-> "number", amount |-> n]
Grouped(n) == [form |-> "grouped", amount |-> n]
True == [form |-> "true", amount |-> 0]
False == [form |-> "false", amount |-> 0]

LimitKey(type, name) == [kind |-> "limit", of |-> type, name |-> name]
CoverageKey(type) == [kind |-> "coverage", of |-> type, name |-> "required"]
EndorsementKey(name) == [kind |-> "endorsement", of |-> "coi", name |-> name]
DocKey(type) == [kind |-> "doc", of |-> type, name |-> "required"]
HolderKey == [kind |-> "holder", of |-> "coi", name |-> "certificate_holder"]
EntityKey == [kind |-> "entity", of |-> "w9", name |-> "entity_type"]

Policy == {"strictest", "location", "trade"}

\* The mutant forgets the switches.
IsStricter_NumbersOnly(a, b) ==
    a.form = "number" /\ b.form = "number" /\ a.amount > b.amount
\* Both numbers: the larger.  Otherwise only 'true' is stricter than what is not 'true'.
IsStricter(a, b) ==
    IF a.form = "number" /\ b.form = "number"
    THEN a.amount > b.amount
    ELSE a.form = "true" /\ b.form # "true"

-----------------------------------------------------------------------------
(* The resolver: one key *)

\* An override replaces the org base; the policy settles two overrides, with the
\* location as the tie breaker of 'strictest'.
Overridden(org, trade, location, policy) ==
    IF trade = NoValue /\ location = NoValue THEN org
    ELSE IF location = NoValue THEN trade
    ELSE IF trade = NoValue THEN location
    ELSE IF policy = "trade" THEN trade
    ELSE IF policy = "strictest" /\ IsStricter(trade, location) THEN trade
    ELSE location

\* The floor replaces what it is stricter than.
Resolve(org, trade, location, floor, policy) ==
    LET value == Overridden(org, trade, location, policy) IN
    IF floor # NoValue /\ (value = NoValue \/ IsStricter(floor, value))
    THEN floor ELSE value

-----------------------------------------------------------------------------
(* The engine: what one requirement of a matrix finds in a bundle *)

OutcomeFrom(comparison, lowBand) ==
    IF comparison = "missing" THEN "deficient"
    ELSE IF comparison = "indeterminate" \/ lowBand THEN "uncertain"
    ELSE IF comparison = "meets" THEN "pass" ELSE "deficient"

HasCOI(bundle) == "coi" \in bundle.docs

\* 'false' and '0' switch a requirement off.
Off(value) == value.form = "false" \/ value = Number(0)

\* limit >= parseFloat(required); no number is >= NaN.
\* The mutant compares the other way round.
Reaches_Reversed(limit, required) ==
    required.form \in {"number", "grouped"} /\ limit <= required.amount
Reaches(limit, required) ==
    required.form \in {"number", "grouped"} /\ limit >= required.amount

InMatrix(matrix, key) == key \in Keys /\ matrix[key] # NoValue

\* A missing coverage is left to coverage_required, when the matrix has it.
CheckLimit(matrix, bundle, key) ==
    LET limit == bundle.limit[key] IN
    IF ~HasCOI(bundle) THEN {"deficient"}
    ELSE IF key.of \notin bundle.covered
    THEN IF InMatrix(matrix, CoverageKey(key.of)) THEN {} ELSE {"deficient"}
    ELSE IF ~limit.read THEN {"uncertain"}
    ELSE {OutcomeFrom(IF Reaches(limit.amount, matrix[key]) THEN "meets" ELSE "fails", limit.low)}

\* Missing workers' compensation may be exempt: a human decides.
CheckCoverage(matrix, bundle, key) ==
    IF Off(matrix[key]) THEN {}
    ELSE IF HasCOI(bundle) /\ key.of \in bundle.covered THEN {"pass"}
    ELSE IF HasCOI(bundle) /\ key.of = "workers_comp" /\ bundle.exempt THEN {"uncertain"}
    ELSE {"deficient"}

\* The additional insured must stand on the liability policies the vendor has.
AdditionalInsured(bundle) ==
    LET liable == {"general_liability", "automobile_liability"} \cap bundle.covered
        lacking == {t \in liable : bundle.insured[t].says # "true"}
        low == \E t \in liable : bundle.insured[t].low
        comparison == IF lacking = {} THEN "meets"
                      ELSE IF \E t \in lacking : bundle.insured[t].says = "false" THEN "fails"
                      ELSE "indeterminate"
    IN {OutcomeFrom(comparison, low)}

CheckEndorsement(matrix, bundle, key) ==
    IF Off(matrix[key]) THEN {}
    ELSE IF ~HasCOI(bundle) THEN {"deficient"}
    ELSE IF key.name = "additional_insured" THEN AdditionalInsured(bundle)
    ELSE IF bundle.covered = {} THEN {"deficient"}
    ELSE LET endorsed == bundle.endorsed[key.name] IN
         {OutcomeFrom(IF endorsed.says = "true" THEN "meets" ELSE "fails", endorsed.low)}

CheckDoc(matrix, bundle, key) ==
    IF Off(matrix[key]) THEN {} ELSE IF key.of \in bundle.docs THEN {"pass"} ELSE {"deficient"}

CheckHolder(bundle) ==
    IF HasCOI(bundle) THEN {OutcomeFrom(bundle.holder.says, bundle.holder.low)} ELSE {"deficient"}

CheckEntity(bundle) ==
    IF "w9" \in bundle.docs THEN {OutcomeFrom(bundle.entity.says, bundle.entity.low)} ELSE {"deficient"}

CheckKey(matrix, bundle, key) ==
    CASE key.kind = "limit" -> CheckLimit(matrix, bundle, key)
      [] key.kind = "coverage" -> CheckCoverage(matrix, bundle, key)
      [] key.kind = "endorsement" -> CheckEndorsement(matrix, bundle, key)
      [] key.kind = "doc" -> CheckDoc(matrix, bundle, key)
      [] key.kind = "holder" -> CheckHolder(bundle)
      [] key.kind = "entity" -> CheckEntity(bundle)

\* The names on two documents, whenever both are there.
CrossChecks(bundle) ==
    LET both(a, b, match) ==
          IF {a, b} \subseteq bundle.docs THEN {OutcomeFrom(match.says, match.low)} ELSE {}
    IN both("coi", "w9", bundle.named) \cup both("ach", "w9", bundle.payee)

Findings(matrix, bundle) ==
    CrossChecks(bundle) \cup
    UNION {CheckKey(matrix, bundle, key) : key \in {k \in Keys : matrix[k] # NoValue}}

\* rollUp
Recommend(findings) ==
    IF "deficient" \in findings THEN "deficiencies"
    ELSE IF "uncertain" \in findings THEN "uncertain" ELSE "approve"
=============================================================================
