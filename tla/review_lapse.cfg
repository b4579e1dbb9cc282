CONSTANTS
    c1 = c1
    c2 = c2
    j1 = j1
    j2 = j2
    p1 = p1
    l1 = l1
    l2 = l2
    NoDoc = NoDoc
    NoJob = NoJob
    Docs = {c1, c2}
    Jobs = {j1}
    Passes = {p1}
    Locations = {l1, l2}
    Invitations = {{l1}, {l1, l2}}
    WestOfUTC = TRUE
    Reminded = {c1}
    SameInstant = FALSE
    MaxArrival = 0
    MaxLapses = 2
    MaxFlags = 0
    MaxFailures = 1
    MaxCrashes = 1
    AdminWaits = TRUE
    MaxRequests = 1
    MaxAdded = 1
    MaxChanges = 0
SPECIFICATION ReviewFairSpec
INVARIANTS NeverLeftWithout
PROPERTIES JobsFinish LapseExpires ExpiresAfterLapse
