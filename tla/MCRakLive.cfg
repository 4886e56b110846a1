\* RELIABLE_ORDERED with fairness: what must happen in the end, on a map with one
\* spawn cell and four cells in all, where clients and the server run out of room.
SPECIFICATION FairSpec
CONSTANTS
  c1 = c1
  c2 = c2
  Clients <- MCClients
  MapWidth = 1
  MapHeight = 1
  NumPlayers = 2
  Modes = {TRUE}
  MaxMoves = 2
  MaxPositions = 1
INVARIANT HangNeedsPhantom
PROPERTIES EventuallyPlays EventuallyInSync
CHECK_DEADLOCK FALSE
