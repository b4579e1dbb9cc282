--------------------------- MODULE MCRequirements ---------------------------
(* A self-storage tenant with small limits, and requirements of every kind. *)
EXTENDS Requirements, TLC

CONSTANTS l1, l2, a1, a2

Occurrence == LimitKey("general_liability", "each_occurrence")
WorkersComp == CoverageKey("workers_comp")
Additional == EndorsementKey("additional_insured")
Waiver == EndorsementKey("waiver_of_subrogation")
W9 == DocKey("w9")

MCKeys == {Occurrence, WorkersComp, Additional, Waiver, W9, HolderKey, EntityKey}
\* Grouped: what the engine reads of 1,000,000 is below every limit in use.
MCValues == {Number(1), Number(2), Grouped(0), True, False}

Nothing == [k \in MCKeys |-> NoValue]
Only(key, value) == [Nothing EXCEPT ![key] = value]

\* The floor is below the defaults, as in templates.ts; workers' compensation is
\* required, but not for the vendor's trade, and the limit has two overrides.
Standard ==
    [floor |-> [Only(Occurrence, Number(1)) EXCEPT ![Additional] = True, ![W9] = True],
     rule  |-> [s \in {"org", "trade", l1, l2} |->
                  CASE s = "org" -> [[k \in MCKeys |-> True] EXCEPT ![Occurrence] = Number(2),
                                                                     ![Waiver] = False]
                    [] s = "trade" -> [Nothing EXCEPT ![Occurrence] = Number(1), ![WorkersComp] = False]
                    [] OTHER -> Only(Occurrence, Number(1))]]
MCTenants == {Standard}

Ask(scopes, key, values) == [scope : scopes, key : {key}, value : values]
\* Numbers for the limit, grouped ones among them, switches for the rest.
MCRequests ==
    Ask({"trade", l1, l2}, Occurrence, {Number(1), Number(2), Grouped(0)}) \cup
    Ask({l1, l2}, WorkersComp, {True, False}) \cup
    Ask({"trade"}, Waiver, {True}) \cup Ask({"org"}, Additional, {False})

Says(s, isLow) == [says |-> s, low |-> isLow]
\* A vendor with its W-9 and a certificate for some coverages.
Insured(amount, covered, exempt) ==
    [docs |-> {"coi", "w9"}, covered |-> covered, exempt |-> exempt,
     limit |-> [k \in {Occurrence} |-> [read |-> TRUE, amount |-> amount, low |-> FALSE]],
     insured |-> [t \in {"general_liability", "automobile_liability"} |-> Says("true", FALSE)],
     endorsed |-> [e \in {"waiver_of_subrogation"} |-> Says("false", FALSE)],
     holder |-> Says("meets", FALSE), entity |-> Says("meets", FALSE),
     named |-> Says("meets", FALSE), payee |-> Says("meets", FALSE)]

\* A good certificate; a low limit, and a claim of exemption from workers'
\* compensation; a limit below the floor; a certificate that a human has to read.
MCBundles ==
    {Insured(2, {"general_liability", "workers_comp"}, FALSE),
     Insured(1, {"general_liability"}, TRUE),
     Insured(0, {"general_liability", "workers_comp"}, FALSE),
     [Insured(2, {"general_liability"}, FALSE) EXCEPT
        !.insured = [t \in {"general_liability", "automobile_liability"} |-> Says("unread", TRUE)]]}

Symmetry == Permutations(Admins) \cup Permutations(Locations)
=============================================================================
