\* Two requests at a time on one route with three versions; liveness, so no symmetry.
CONSTANTS
    r1 = r1
    r2 = r2
    hA = hA
    hB = hB
    p1 = p1
    c1 = c1
    c2 = c2
    RouteIds = {r1}
    Hosts = {hA}
    Profiles = {}
    Handlers = {c1, c2}
    MaxVersion = 3
    MaxRevision = 0
    NoConfig = NoConfig
    NoHost = NoHost
    Nobody = Nobody
    NoHandler = NoHandler
    NoRoute = NoRoute
SPECIFICATION FairSpec
CHECK_DEADLOCK FALSE
INVARIANTS
    HealthGate
PROPERTIES
    ToggleIsExact
    RollbackIsExact
    Answered
    HistoryAppendOnly
