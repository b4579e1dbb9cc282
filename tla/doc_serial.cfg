CONSTANTS
    c1 = c1
    c2 = c2
    c3 = c3
    j1 = j1
    j2 = j2
    p1 = p1
    p2 = p2
    NoDoc = NoDoc
    NoJob = NoJob
    Docs = {c1, c2, c3}
    Jobs = {j1, j2}
    Passes = {p1}
    WestOfUTC = TRUE
    Reminded = {c1, c2, c3}
    SameInstant = FALSE
    MaxArrival = 1
    MaxLapses = 1
    MaxFlags = 1
    MaxFailures = 0
    MaxCrashes = 0
SPECIFICATION Spec
SYMMETRY Symmetry
INVARIANTS ExpiredIsBounced SurvivorsFlankASkip CurrentHasDayZero
