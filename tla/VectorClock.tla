---------------------------- MODULE VectorClock ----------------------------
(***************************************************************************)
(* services/ledger/VectorClock.ts.  A clock maps every node to a counter;  *)
(* a key that is missing in the code's object reads as 0 (`clock[k] || 0`) *)
(* so a total function on Node stands for it.                              *)
(***************************************************************************)
EXTENDS Naturals

CONSTANT Node

Clocks == [Node -> Nat]

\* new VectorClock(nodeId): the own entry is written as 0, the others are absent.
ZeroClock == [m \in Node |-> 0]

Increment(c, n) == [c EXCEPT ![n] = @ + 1]

\* Mutant: the element-wise minimum.
MergeMin(local, remote) ==
    [m \in Node |-> IF local[m] <= remote[m] THEN local[m] ELSE remote[m]]

\* Element-wise maximum; receiving counts as no event of the receiver.
Merge(local, remote) ==
    [m \in Node |-> IF local[m] >= remote[m] THEN local[m] ELSE remote[m]]

AreEqual(a, b) == \A m \in Node : a[m] = b[m]

HappenedBefore(a, b) ==
    /\ \A m \in Node : a[m] <= b[m]
    /\ \E m \in Node : a[m] < b[m]

AreConcurrent(a, b) ==
    /\ ~HappenedBefore(a, b)
    /\ ~HappenedBefore(b, a)
    /\ ~AreEqual(a, b)
=============================================================================
