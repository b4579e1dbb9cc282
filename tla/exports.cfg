CONSTANTS
    p1 = p1
    p2 = p2
    Passes = {p1, p2}
    MaxExports = 2
    MaxFaults = 1
SPECIFICATION FairSpec
INVARIANTS TypeOK ToldIsReady SensitiveIsLogged
PROPERTIES ExportsFinish
