\* The reliable channel: the safety of the game over ordered messages.
SPECIFICATION Spec
CONSTANTS
    c1 = c1
    c2 = c2
    Clients <- MCClients
    Nobody = Nobody
    NumSlots = 2
    Modes = {TRUE}
    MapWidth = 2
    MapHeight = 1
    MaxMoves = 2
    MaxBundles = 1
SYMMETRY MCSymmetry
INVARIANTS
    TypeOK
    MovesFromSpawn
    NeverNull
    OwnersAreWelcomed
    RightTagIsFollowed
