\* Both channels, with fairness: what must happen in the end on the reliable one,
\* and what is left when packets are lost.
SPECIFICATION FairSpec
CONSTANTS
    c1 = c1
    c2 = c2
    Clients <- MCClients
    Nobody = Nobody
    NumSlots = 2
    Modes = {TRUE, FALSE}
    MapWidth = 1
    MapHeight = 1
    MaxMoves = 1
    MaxBundles = 1
\* The server can stop for good (NoRoomToSpawn).
CHECK_DEADLOCK FALSE
INVARIANT MovesFromSpawn
PROPERTIES
    EventuallyInSync
    EventuallyPlays
