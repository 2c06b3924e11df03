------------------------------ MODULE MCGossip ------------------------------
(***************************************************************************)
(* Two meshes.                                                             *)
(*  - Flood: a triangle a, b, c and a device d behind c.  A message of a   *)
(*    may come to c by way of b first, and still has to reach d.           *)
(*  - Evict: a ring a, b, c that also lets a write to c, so that a copy    *)
(*    comes twice and can run in a circle past devices that forget it.     *)
(* A link is one way: a device writes to the devices it connected to.      *)
(***************************************************************************)
EXTENDS Gossip

CONSTANTS a, b, c, d, m1, m2

MCMsg == {m1, m2}
MCOrigin == (m1 :> a) @@ (m2 :> b)

FloodNode == {a, b, c, d}
FloodLinks == {l \in FloodNode \X FloodNode : l[1] # l[2] /\ (d \in {l[1], l[2]} => c \in {l[1], l[2]})}
FloodLarge == {m2}

EvictNode == {a, b, c}
EvictLinks == {<<a, b>>, <<b, c>>, <<c, a>>, <<a, c>>}
EvictLarge == {}
=============================================================================
