---------------------------- MODULE MCSettlement ----------------------------
(***************************************************************************)
(* One device with two good debits and a hopeless one, in any order.       *)
(***************************************************************************)
EXTENDS Settlement
CONSTANTS d1, d2, bad, w1, w2
MCDebit == {d1, d2, bad}
MCBad == {bad}
MCWorker == {w1, w2}
=============================================================================
