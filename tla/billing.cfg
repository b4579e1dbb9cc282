CONSTANTS
    l1 = l1
    l2 = l2
    l3 = l3
    e1 = e1
    e2 = e2
    w1 = w1
    w2 = w2
    a1 = a1
    a2 = a2
    s1 = s1
    s2 = s2
    r1 = r1
    r2 = r2
    f1 = f1
    f2 = f2
    None = None
    Lost = Lost
    Locations = {l1, l2}
    Provisioned = {l1}
    Editors = {e1, e2}
    Ticks = {w1}
    Attaches = {a1}
    Settings = {s1, s2}
    NewRates = {r2}
    NewFees = {f2, None}
    Quoted <- MCQuoted
    MaxEdits = 2
    MaxAttaches = 2
    MaxFaults = 2
SPECIFICATION FairSpec
INVARIANTS TypeOK CountIsBilled TermsAreBilled
PROPERTIES BilledInTheEnd
CHECK_DEADLOCK FALSE
