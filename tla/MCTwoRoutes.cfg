\* Two requests at a time on two routes that want one hostname.
CONSTANTS
    r1 = r1
    r2 = r2
    hA = hA
    hB = hB
    p1 = p1
    c1 = c1
    c2 = c2
    RouteIds = {r1, r2}
    Hosts = {hA}
    Profiles = {}
    Handlers = {c1, c2}
    MaxVersion = 2
    MaxRevision = 0
    NoConfig = NoConfig
    NoHost = NoHost
    Nobody = Nobody
    NoHandler = NoHandler
    NoRoute = NoRoute
SYMMETRY Symmetry
SPECIFICATION Spec
CHECK_DEADLOCK FALSE
INVARIANTS
    LiveMatchesStore
PROPERTIES
    ServesTable
