CONSTANTS
    v1 = v1
    v2 = v2
    a = a
    b = b
    r1 = r1
    r2 = r2
    NoEmail = NoEmail
    l1 = l1
    l2 = l2
    Locations = {l1, l2}
    Sites <- MCSites
    Vendors = {v1, v2}
    Emails = {a}
    Requests = {r1, r2}
    MaxInvites = 3
    MaxEvents = 3
SPECIFICATION FairSpec
INVARIANTS TypeOK NewestLinkWins VendorHasWorkingLink
CHECK_DEADLOCK FALSE
PROPERTIES InvitedIsReviewed
