\* Are the profiles of every served route materialized?
CONSTANTS
    r1 = r1
    r2 = r2
    hA = hA
    hB = hB
    p1 = p1
    c1 = c1
    c2 = c2
    RouteIds = {r1}
    Hosts = {hA}
    Profiles = {p1}
    Handlers = {c1}
    MaxVersion = 3
    MaxRevision = 1
    NoConfig = NoConfig
    NoHost = NoHost
    Nobody = Nobody
    NoHandler = NoHandler
    NoRoute = NoRoute
SYMMETRY Symmetry
SPECIFICATION Spec
CHECK_DEADLOCK FALSE
INVARIANTS
    ServedIsMaterialized
