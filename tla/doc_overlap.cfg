CONSTANTS
    c1 = c1
    c2 = c2
    c3 = c3
    j1 = j1
    j2 = j2
    p1 = p1
    p2 = p2
    NoDoc = NoDoc
    NoJob = NoJob
    Docs = {c1, c2}
    Jobs = {j1, j2}
    Passes = {p1, p2}
    WestOfUTC = FALSE
    Reminded = {}
    SameInstant = TRUE
    MaxArrival = 1
    MaxLapses = 1
    MaxFlags = 0
    MaxFailures = 1
    MaxCrashes = 1
SPECIFICATION Spec
SYMMETRY Symmetry
INVARIANTS SupersededByNewer
