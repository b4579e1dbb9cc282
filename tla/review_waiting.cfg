CONSTANTS
    c1 = c1
    c2 = c2
    j1 = j1
    j2 = j2
    p1 = p1
    l1 = l1
    l2 = l2
    NoDoc = NoDoc
    NoJob = NoJob
    Docs = {c1, c2}
    Jobs = {j1, j2}
    Passes = {p1}
    Locations = {l1, l2}
    Invitations <- MCInvitations
    WestOfUTC = TRUE
    Reminded = {c1, c2}
    SameInstant = FALSE
    MaxArrival = 1
    MaxLapses = 1
    MaxFlags = 1
    MaxFailures = 0
    MaxCrashes = 0
    AdminWaits = TRUE
    MaxRequests = 3
    MaxAdded = 0
    MaxChanges = 1
SPECIFICATION ReviewSpec
SYMMETRY ReviewSymmetry
INVARIANTS ReviewTypeOK ApprovedIsCovered UnderReviewIsVetted
