----------------------------- MODULE MCYojGame -----------------------------
(* Instances of YojGame for TLC.                                           *)
EXTENDS YojGame, TLC

CONSTANTS c1, c2
MCClients == {c1, c2}
MCSymmetry == Permutations(MCClients)
=============================================================================
