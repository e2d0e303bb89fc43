\* Two requests at a time while a profile is edited and a hostname moves.
CONSTANTS
    r1 = r1
    r2 = r2
    hA = hA
    hB = hB
    p1 = p1
    c1 = c1
    c2 = c2
    RouteIds = {r1}
    Hosts = {hA, hB}
    Profiles = {p1}
    Handlers = {c1, c2}
    MaxVersion = 2
    MaxRevision = 2
    NoConfig = NoConfig
    NoHost = NoHost
    Nobody = Nobody
    NoHandler = NoHandler
    NoRoute = NoRoute
SYMMETRY Symmetry
SPECIFICATION Spec
CHECK_DEADLOCK FALSE
INVARIANTS
    ControlInv
PROPERTIES
    PublishesCandidate
