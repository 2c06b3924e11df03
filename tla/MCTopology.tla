----------------------------- MODULE MCTopology -----------------------------
(***************************************************************************)
(* Two peers and a list for one.  A tick is 7.5 s: heartbeats and cleanups *)
(* come every 2 ticks and a peer is stale after 6.  One lost heartbeat and *)
(* a delay of one tick are as much as that timeout can bear.               *)
(***************************************************************************)
EXTENDS Topology
CONSTANTS p1, p2
MCPeer == {p1, p2}
=============================================================================
