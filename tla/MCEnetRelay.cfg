\* Positions relayed over connections that come and go.
SPECIFICATION Spec
CONSTANTS
    c1 = c1
    c2 = c2
    Clients <- MCClients
    MaxPeers = 2
    MaxConns = 3
    MaxTicks = 3
    MapWidth = 2
    MapHeight = 1
SYMMETRY MCSymmetry
\* Past the bound on ticks nothing is left to do.
CHECK_DEADLOCK FALSE
INVARIANTS
    TypeOK
    HeardInSync
    HoldersInOrder
PROPERTY OnlyFirstsAreCorrections
