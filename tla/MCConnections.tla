--------------------------- MODULE MCConnections ---------------------------
(***************************************************************************)
(* One device and two peers.                                               *)
(***************************************************************************)
EXTENDS Connections
CONSTANTS p1, p2
MCPeer == {p1, p2}
=============================================================================
