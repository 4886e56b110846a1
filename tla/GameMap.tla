------------------------------ MODULE GameMap ------------------------------
(***************************************************************************)
(* The board of the benchmark game, the same in its three versions: where  *)
(* players spawn, where they walk and how far.  Coordinates                *)
(* are 16 bits wide in the code and at most MapWidth and MapHeight, which  *)
(* are 16 bits wide themselves.                                            *)
(***************************************************************************)
EXTENDS Integers

CONSTANTS
    MapWidth,       \* -w
    MapHeight       \* -h

\* A map without a column or a row is a division by zero at the first spawn.
ASSUME MapAssumption == MapWidth \in Nat \ {0} /\ MapHeight \in Nat \ {0}

\* Every position a client can walk to: PerformLocalMove lets it stand on the
\* far edges, x = MapWidth and y = MapHeight.
Cell == [x : 0..MapWidth, y : 0..MapHeight]
\* Where a player can spawn.
SpawnCell == [x : 0..(MapWidth - 1), y : 0..(MapHeight - 1)]
Origin == [x |-> 0, y |-> 0]

\* At most one space apart along each axis, the test of the server and of
\* the correction counter.
Near(p, q) ==
    /\ p.x - q.x \in -1..1
    /\ p.y - q.y \in -1..1

\* Mutants of PossibleMoves: one comparison with the far edge too wide, and the
\* four tests chained with else.
PossibleMovesPastEdge(p) ==
    {q \in [x : 0..(MapWidth + 1), y : 0..MapHeight] :
        \/ q.x = p.x /\ q.y - p.y \in {-1, 1}
        \/ q.y = p.y /\ q.x - p.x \in {-1, 1}}
PossibleMovesElse(p) ==
    {q \in Cell : q.x = p.x /\ q.y = IF p.y > 0 THEN p.y - 1 ELSE p.y + 1}

\* The four moves PerformLocalMove lists, one space along one axis.
PossibleMoves(p) ==
    {q \in Cell : \/ q.x = p.x /\ q.y - p.y \in {-1, 1}
                  \/ q.y = p.y /\ q.x - p.x \in {-1, 1}}
=============================================================================
