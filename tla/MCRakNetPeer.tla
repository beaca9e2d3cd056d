---------------------------- MODULE MCRakNetPeer ----------------------------
(* Small instances of RakNetPeer: the server and one client.               *)
EXTENDS RakNetPeer

CONSTANTS server, c1

OneClient == {c1}
NoKind == {}
Reply2 == {"OpenConnectionReply2"}
=============================================================================
