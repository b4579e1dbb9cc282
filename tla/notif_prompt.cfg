CONSTANTS
    r1 = r1
    r2 = r2
    d1 = d1
    p1 = p1
    p2 = p2
    NoRow = NoRow
    Rows = {r1, r2}
    DigestRows = {}
    ChaseRows = {r2}
    ScheduledFor <- MCScheduledFor
    Passes = {p1, p2}
    Stale = 2
    PassLimit = 1
    Horizon = 1
    MaxCrashes = 1
SPECIFICATION Spec
INVARIANTS TypeOK ExclusiveHold DuplicateOnlyAfterLoss OneEmailPerException
PROPERTIES NoChaseClaimedAfterRenewal ImplementsOutbox
