------------------------- MODULE MCReliableEndpoint -------------------------
(* One side sends packets in two parts, the other packets in one.          *)
EXTENDS ReliableEndpoint
MCSizes == [e \in Side |-> IF e = Client THEN {2} ELSE {1}]
MCLifetime == [e \in Side |-> IF e = Client THEN 2 ELSE 1]
=============================================================================
