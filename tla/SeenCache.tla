----------------------------- MODULE SeenCache -----------------------------
(***************************************************************************)
(* The bounded FIFO of ids that NonceManager, GossipProtocol and the       *)
(* transaction slice each keep: a Set or an array, oldest first, cut to    *)
(* its newest `cap' members after an insertion.                            *)
(***************************************************************************)
EXTENDS Naturals, Sequences, SequencesExt

Newest(s, cap) == IF Len(s) > cap THEN SubSeq(s, Len(s) - cap + 1, Len(s)) ELSE s

\* Set.add keeps the place of a member that is already there.
Add(s, id, cap) == Newest(IF id \in ToSet(s) THEN s ELSE Append(s, id), cap)
=============================================================================
