\* Whether the local player ends up where the server has it.
SPECIFICATION FairSpec
CONSTANTS
    c1 = c1
    c2 = c2
    Clients <- MCClients
    Nobody = Nobody
    NumSlots = 2
    Modes = {TRUE}
    MapWidth = 1
    MapHeight = 1
    MaxMoves = 1
    MaxBundles = 1
\* The server can stop for good (NoRoomToSpawn).
CHECK_DEADLOCK FALSE
PROPERTY LocalFollowsServer
