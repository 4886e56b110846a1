----------------------------- MODULE MCRakGame -----------------------------
(* Two clients on a map of a few cells.                                    *)
EXTENDS RakGame, TLC
CONSTANTS c1, c2
MCClients == {c1, c2}
MCSymmetry == Permutations(MCClients)
=============================================================================
