---------------------------- MODULE MCEnetGame ----------------------------
(* Instances of EnetGame for TLC.                                          *)
EXTENDS EnetGame, TLC

CONSTANTS c1, c2
MCClients == {c1, c2}
MCSymmetry == Permutations(MCClients)
=============================================================================
