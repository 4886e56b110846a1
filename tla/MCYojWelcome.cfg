\* Whether the loop over the slots handles every new client.
SPECIFICATION Spec
CONSTANTS
    c1 = c1
    c2 = c2
    Clients <- MCClients
    Nobody = Nobody
    NumSlots = 2
    Modes = {TRUE}
    MapWidth = 2
    MapHeight = 1
    MaxMoves = 0
    MaxBundles = 1
\* The server can stop for good (NoRoomToSpawn).
CHECK_DEADLOCK FALSE
INVARIANT EveryClientHandled
