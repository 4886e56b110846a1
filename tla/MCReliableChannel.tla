------------------------- MODULE MCReliableChannel -------------------------
(* Messages of one kind and blocks of two fragments.                       *)
EXTENDS ReliableChannel
CONSTANTS m1, b1
MCValues == {m1, b1}
MCFragments == [v \in MCValues |-> IF v = b1 THEN 2 ELSE 0]
=============================================================================
