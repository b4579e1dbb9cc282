CONSTANTS
    c1 = c1
    c2 = c2
    a = a
    b = b
    d1 = d1
    d2 = d2
    NoEmail = NoEmail
    Calls = {c1, c2}
    Emails = {a, b}
    First = a
    Deliveries = {d1, d2}
    MaxPerEmail = 1
    MaxPerIp = 2
    MaxLinks = 3
    MaxCalls = 3
    MaxFaults = 1
SPECIFICATION FairSpec
INVARIANTS TypeOK GuessesBounded LiveLinksPostdatePassword ActivatedAdminIsInvited
PROPERTIES LastAdminStays PaidActivates
CHECK_DEADLOCK FALSE
