------------------------ MODULE MCNetcodeConnection ------------------------
(* Instances of NetcodeConnection for TLC.                                 *)
EXTENDS NetcodeConnection
CONSTANTS c1, c2
MCClients == {c1, c2}
\* One client has a second server to try.
MCNumServers == [c \in Clients |-> IF c = c1 THEN 2 ELSE 1]
MCNumSlots == <<2, 1>>
MCMaxTokens == [c \in Clients |-> 1]
MCMaxLate == [p \in Process |-> 1]
=============================================================================
