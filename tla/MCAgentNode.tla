---------------------------- MODULE MCAgentNode ----------------------------
(* Small instances of AgentNode for TLC. *)
EXTENDS AgentNode, TLC

CONSTANTS p1, p2

AdminPeers == {p1, p2}   \* two clients, interchangeable for the admin
ClientPeers == {p1}      \* a client hears of the admin alone

PeerSymmetry == Permutations(Peers)

=============================================================================
