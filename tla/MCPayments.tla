----------------------------- MODULE MCPayments -----------------------------
(***************************************************************************)
(* Two meshes.                                                             *)
(*  - Race: a pays b twice from a balance that covers only one payment, b  *)
(*    can pay a back once it was paid; no device restarts or forgets; the  *)
(*    chain answers a with a nonce ahead of or behind its own.             *)
(*  - Relay: a pays b, b pays c, and each relays the payment it is not     *)
(*    part of.  In the runs of it either every cache holds one id, so that *)
(*    ids are forgotten, or b can restart.                                 *)
(***************************************************************************)
EXTENDS Payments

CONSTANTS a, b, c, t1, t2, t3

RaceNode == {a, b}
RaceTxId == {t1, t2, t3}
RaceOrder == (t1 :> [from |-> a, to |-> b, amount |-> 2])
          @@ (t2 :> [from |-> a, to |-> b, amount |-> 1])
          @@ (t3 :> [from |-> b, to |-> a, amount |-> 1])
RaceInitial == (a :> 2) @@ (b :> 0)
RaceRestarts == (a :> 0) @@ (b :> 0)
RaceChain == (a :> {0, 1}) @@ (b :> {})

RelayNode == {a, b, c}
RelayTxId == {t1, t2}
RelayOrder == (t1 :> [from |-> a, to |-> b, amount |-> 1])
           @@ (t2 :> [from |-> b, to |-> c, amount |-> 1])
RelayInitial == (a :> 1) @@ (b :> 0) @@ (c :> 0)
RestartRestarts == (a :> 0) @@ (b :> 1) @@ (c :> 0)
ForgetRestarts == [n \in RelayNode |-> 0]
RelayChain == (a :> {}) @@ (b :> {}) @@ (c :> {})
=============================================================================
