\* The safety of the game, with two ordered channels and with packets that are
\* lost and overtake each other.
SPECIFICATION Spec
CONSTANTS
  c1 = c1
  c2 = c2
  Clients <- MCClients
  MapWidth = 2
  MapHeight = 1
  NumPlayers = 2
  Modes = {TRUE, FALSE}
  MaxMoves = 2
  MaxPositions = 1
SYMMETRY MCSymmetry
INVARIANTS TypeOK WhenReliable NeverRejected NeverPutRight CrashOnlyAfterLoss RemoteEntries
\* The server can stop for good (NoRoomToSpawn, the null pointer).
CHECK_DEADLOCK FALSE
