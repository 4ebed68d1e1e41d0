---------------------------- MODULE MCPeerDaemon ----------------------------
(* Two daemons that may dial each other twice in all, in one direction or  *)
(* in both, and exchange one message besides the handshakes.               *)
EXTENDS PeerDaemon
MCDaemons == {"Alice", "Bob"}
=============================================================================
