------------------------------- MODULE Payout -------------------------------
(***************************************************************************)
(* What the owner of a ledger may rely on of the settlement of its debits, *)
(* whatever the calls, timers, the backend and the chain do meanwhile.     *)
(***************************************************************************)
EXTENDS Naturals

CONSTANT Debit

VARIABLES
    owed,    \* the debits in the ledger
    settled, \* those that are marked
    paid,    \* the payments that went to Algorand for each
    lost     \* the attempts that were given up although a payment may come of them

vars == <<owed, settled, paid, lost>>

Init ==
    /\ owed = {} /\ settled = {}
    /\ paid = [d \in Debit |-> 0] /\ lost = [d \in Debit |-> 0]

Owe(d) ==
    /\ d \notin owed
    /\ owed' = owed \cup {d}
    /\ UNCHANGED <<settled, paid, lost>>

\* What is owed is paid once, and once more for each attempt that was lost before.
Pay(d) ==
    /\ d \in owed /\ paid[d] <= lost[d]
    /\ paid' = [paid EXCEPT ![d] = @ + 1]
    /\ UNCHANGED <<owed, settled, lost>>

\* Nothing is attempted that is settled.
Lose(d) ==
    /\ d \in owed \ settled
    /\ lost' = [lost EXCEPT ![d] = @ + 1]
    /\ UNCHANGED <<owed, settled, paid>>

Settle(d) ==
    /\ d \in owed \ settled /\ paid[d] > 0
    /\ settled' = settled \cup {d}
    /\ UNCHANGED <<owed, paid, lost>>

Next == \E d \in Debit : Owe(d) \/ Pay(d) \/ Lose(d) \/ Settle(d)

Spec == Init /\ [][Next]_vars
=============================================================================
