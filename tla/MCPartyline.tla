---------------------------- MODULE MCPartyline ----------------------------
(* One operator, somebody else, two addresses and two sessions. *)
EXTENDS Partyline

CONSTANTS Op, Ann, Here, There, W1, W2

MCNicks == {Op}
MCHandles == {Op, Ann}
MCAllowed == {Op}
MCPeers == {Here, There}
MCLoopback == {Here}
MCWords == {W1, W2}
MCSpontaneous == {1}
=============================================================================
