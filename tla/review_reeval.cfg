CONSTANTS
    c1 = c1
    c2 = c2
    j1 = j1
    j2 = j2
    p1 = p1
    l1 = l1
    l2 = l2
    NoDoc = NoDoc
    NoJob = NoJob
    Docs = {c1}
    Jobs = {j1}
    Passes = {p1}
    Locations = {l1, l2}
    Invitations <- MCInvitations
    WestOfUTC = TRUE
    Reminded = {c1}
    SameInstant = FALSE
    MaxArrival = 0
    MaxLapses = 0
    MaxFlags = 0
    MaxFailures = 0
    MaxCrashes = 0
    AdminWaits = TRUE
    MaxRequests = 1
    MaxAdded = 0
    MaxChanges = 1
SPECIFICATION ReviewSpec
SYMMETRY ReviewSymmetry
PROPERTIES NonCompliantWasApproved
