---------------------------- MODULE MCPeerSession ----------------------------
(* Two clients; as many nonces as can be in use at once, and one more.     *)
EXTENDS PeerSession

MCNonces == 1 .. 8
=============================================================================
