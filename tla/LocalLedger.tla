---------------------------- MODULE LocalLedger ----------------------------
(***************************************************************************)
(* services/ledger/LocalLedger.ts over store/ledgerSlice.ts, for one token.*)
(* A ledger is the slice's state: the balance, the entries (newest first)  *)
(* and the ids that wait for settlement.  The service and the reducers run *)
(* without an await, so each method is one operator on the whole state.    *)
(* Amounts are counted in the smallest unit the slice keeps (toFixed(6)).  *)
(***************************************************************************)
EXTENDS Naturals, Sequences, SequencesExt

EntryType == {"CREDIT", "DEBIT"}
Entries(TxId) == [txId : TxId, type : EntryType, amount : Nat, settled : BOOLEAN]
Ledgers(TxId) == [balance : Nat, entries : Seq(Entries(TxId)), pending : SUBSET TxId]

EmptyLedger == [balance |-> 0, entries |-> <<>>, pending |-> {}]

Entry(id, type, amount) ==
    [txId |-> id, type |-> type, amount |-> amount, settled |-> FALSE]

HasTransaction(l, id) == \E i \in DOMAIN l.entries : l.entries[i].txId = id

HasEntry(l, id, type) ==
    \E i \in DOMAIN l.entries : l.entries[i].txId = id /\ l.entries[i].type = type

HasEnoughBalance(l, amount) == l.balance >= amount

CreditBalance(l, amount) == [l EXCEPT !.balance = @ + amount]

\* Mutant: the debit is recorded and the balance left alone.
BalanceUntouched(l, amount) == l

\* subtractBigDecimal clamps at zero.
DebitBalance(l, amount) ==
    [l EXCEPT !.balance = IF @ >= amount THEN @ - amount ELSE 0]

\* Silently does nothing when the id is already there.
AddLedgerEntry(l, e) ==
    IF HasTransaction(l, e.txId) THEN l
    ELSE [l EXCEPT !.entries = <<e>> \o @, !.pending = @ \cup {e.txId}]

\* LocalLedger.credit: the balance moves whether or not the entry is new.
Credit(l, id, amount) ==
    AddLedgerEntry(CreditBalance(l, amount), Entry(id, "CREDIT", amount))

\* LocalLedger.debit; HasEnoughBalance(l, amount) is also what it returns.
Debit(l, id, amount) ==
    IF HasEnoughBalance(l, amount)
    THEN AddLedgerEntry(DebitBalance(l, amount), Entry(id, "DEBIT", amount))
    ELSE l

\* Array.find marks the first entry with the id, the newest one.
IsFirst(l, i, id) ==
    /\ l.entries[i].txId = id
    /\ \A j \in 1 .. i - 1 : l.entries[j].txId # id

MarkedEntries(l, id) ==
    [i \in DOMAIN l.entries |-> IF IsFirst(l, i, id)
                                THEN [l.entries[i] EXCEPT !.settled = TRUE]
                                ELSE l.entries[i]]

MarkSettled(l, id) ==
    [l EXCEPT !.entries = MarkedEntries(l, id), !.pending = @ \ {id}]

\* getUnsettled: the entries of either type.
Unsettled(l) == SelectSeq(l.entries, LAMBDA e : ~e.settled)
=============================================================================
