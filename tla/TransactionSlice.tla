-------------------------- MODULE TransactionSlice --------------------------
(***************************************************************************)
(* store/transactionSlice.ts: four lists of transaction records (newest    *)
(* first) and the ids seen by addTransaction, a FIFO cache of the last     *)
(* `cap' of them.  A record is reduced to its id and status.               *)
(***************************************************************************)
EXTENDS SeenCache

Status == {"SIGNED", "GOSSIPED", "VERIFIED", "RECEIPTED", "SETTLED"}
Records(TxId) == [id : TxId, status : Status]
Lists == {"pending", "verified", "settled"}
Stores(TxId) == [lists : [Lists -> Seq(Records(TxId))], seenTxIds : Seq(TxId)]

\* INITIAL_TRANSACTION_STATE.  No code gives a transaction the status FAILED or
\* CREATED, so the fourth list stays empty and is left out.
EmptyStore == [lists |-> [k \in Lists |-> <<>>], seenTxIds |-> <<>>]

\* The list a reducer files a status under.
ListFor(status) ==
    CASE status \in {"VERIFIED", "RECEIPTED"} -> "verified"
      [] status = "SETTLED" -> "settled"
      [] OTHER -> "pending"

Unshift(store, tx) == [store EXCEPT !.lists[ListFor(tx.status)] = <<tx>> \o @]

AddTransaction(store, tx, cap) ==
    IF tx.id \in ToSet(store.seenTxIds) THEN store
    ELSE [Unshift(store, tx) EXCEPT
             !.seenTxIds = Add(@, tx.id, cap)]

Holds(s, id) == \E i \in DOMAIN s : s[i].id = id

FirstIndex(s, id) ==
    CHOOSE i \in DOMAIN s : s[i].id = id /\ \A j \in 1 .. i - 1 : s[j].id # id

\* The lists are searched in this order and the first hit wins.
IsIn(store, k, id) ==
    /\ Holds(store.lists[k], id)
    /\ k \in {"verified", "settled"} => ~Holds(store.lists["pending"], id)
    /\ k = "settled" => ~Holds(store.lists["verified"], id)

Known(store, id) == \E k \in Lists : Holds(store.lists[k], id)

Where(store, id) == CHOOSE k \in Lists : IsIn(store, k, id)

\* updateTransactionStatus: take the record out and file it under its new status.
UpdateTransactionStatus(store, id, status) ==
    IF ~Known(store, id) THEN store
    ELSE LET k == Where(store, id)
             rest == RemoveAt(store.lists[k], FirstIndex(store.lists[k], id))
         IN  Unshift([store EXCEPT !.lists[k] = rest], [id |-> id, status |-> status])

\* Mutant: the status name of ARCHITECTURE.md:239.
ConfirmReceipt(store, id) ==
    IF ~Known(store, id) THEN store
    ELSE [store EXCEPT !.lists[Where(store, id)][1].status = "CONFIRMED"]

\* attachReceipt: the record gets the status RECEIPTED and stays where it is.
AttachReceipt(store, id) ==
    IF ~Known(store, id) THEN store
    ELSE LET k == Where(store, id)
         IN  [store EXCEPT
                 !.lists[k][FirstIndex(store.lists[k], id)].status = "RECEIPTED"]
=============================================================================
