CONSTANTS
    r1 = r1
    r2 = r2
    d1 = d1
    p1 = p1
    p2 = p2
    NoRow = NoRow
    Rows = {d1}
    DigestRows = {d1}
    ChaseRows = {}
    ScheduledFor <- MCScheduledFor
    Passes = {p1, p2}
    Stale = 2
    PassLimit = 3
    Horizon = 1
    MaxCrashes = 1
SPECIFICATION FairSpec
PROPERTIES EveryRowSettles
