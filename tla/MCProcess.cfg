\* Start, stop, tunnels and the NetBird cache over two connections.
CONSTANTS
    x = x
    y = y
    Conns = {x, y}
    MaxRemote = 2
SPECIFICATION FairSpec
CHECK_DEADLOCK FALSE
INVARIANTS
    ActiveWebSocketsExact
    GraceRespected
PROPERTIES
    StopEnds
    PeersCatchUp
