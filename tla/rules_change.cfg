CONSTANTS
    NoValue = NoValue
    l1 = l1
    l2 = l2
    a1 = a1
    a2 = a2
    Keys <- MCKeys
    Values <- MCValues
    Requests <- MCRequests
    Tenants <- MCTenants
    Bundles <- MCBundles
    Locations = {l1, l2}
    Admins = {a1, a2}
    MaxChanges = 2
    MaxUpsets = 1
SPECIFICATION Spec
SYMMETRY Symmetry
INVARIANTS TypeOK ReevalCatches FloorIsKept
PROPERTIES TighteningNeverClears
CHECK_DEADLOCK FALSE
