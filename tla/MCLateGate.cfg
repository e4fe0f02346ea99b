CONSTANTS
    p1 = p1
    p2 = p2
    s1 = s1
    s2 = s2
    r1 = r1
    k1 = k1
    k2 = k2
    la = la
    lb = lb
    Null = Null
    Dates <- MCDates
    Points <- MCPoints
    Stations <- MCStations
    Relations <- MCRelations
    Copies <- MCCopies
    Partitioned <- MCPartitioned
    Loaders = {la}
    InitDims <- MostDims
    JobsOf <- GateJobs
    Faults = {}
    MaxCommands = 1
SPECIFICATION Spec
INVARIANTS TruncatedNeverLands
CHECK_DEADLOCK FALSE
