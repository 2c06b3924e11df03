--------------------------- MODULE PaymentsProofs ---------------------------
(***************************************************************************)
(* Theorems of Payments for every set of devices, every list of orders and *)
(* every cache size.  The first two sections say what the reducers of the  *)
(* two slices return, for every ledger and store.                          *)
(***************************************************************************)
EXTENDS Payments, DataProofs

-----------------------------------------------------------------------------
(* ledgerSlice.ts *)

\* addLedgerEntry keeps a ledger a ledger.
LEMMA AddLedgerEntryType ==
    ASSUME NEW Id, NEW l \in Ledgers(Id), NEW e \in Entries(Id)
    PROVE  AddLedgerEntry(l, e) \in Ledgers(Id)
<1>1. <<e>> \in Seq(Entries(Id))
  OBVIOUS
<1>2. <<e>> \o l.entries \in Seq(Entries(Id))
  BY <1>1, ConcatProperties DEF Ledgers
<1>3. e.txId \in Id
  BY DEF Entries
<1> QED
  BY <1>2, <1>3 DEF AddLedgerEntry, Ledgers

\* credit and debit keep a ledger a ledger; in particular no balance is negative.
LEMMA CreditDebitType ==
    ASSUME NEW Id, NEW l \in Ledgers(Id), NEW id \in Id, NEW amount \in Nat
    PROVE  /\ Credit(l, id, amount) \in Ledgers(Id)
           /\ Debit(l, id, amount) \in Ledgers(Id)
<1>1. /\ Entry(id, "CREDIT", amount) \in Entries(Id)
      /\ Entry(id, "DEBIT", amount) \in Entries(Id)
  BY DEF Entry, Entries, EntryType
<1>2. /\ CreditBalance(l, amount) \in Ledgers(Id)
      /\ DebitBalance(l, amount) \in Ledgers(Id)
  BY DEF CreditBalance, DebitBalance, Ledgers
<1> QED
  BY <1>1, <1>2, AddLedgerEntryType DEF Credit, Debit

\* markSettled changes no more than one settled flag.
LEMMA MarkSettledEntries ==
    ASSUME NEW Id, NEW l \in Ledgers(Id), NEW id
    PROVE  /\ MarkSettled(l, id) \in Ledgers(Id)
           /\ DOMAIN MarkSettled(l, id).entries = DOMAIN l.entries
           /\ \A i \in DOMAIN l.entries :
                 /\ MarkSettled(l, id).entries[i].txId = l.entries[i].txId
                 /\ MarkSettled(l, id).entries[i].type = l.entries[i].type
                 /\ MarkSettled(l, id).entries[i].amount = l.entries[i].amount
<1> DEFINE s == l.entries
           m == MarkedEntries(l, id)
<1>1. s \in Seq(Entries(Id)) /\ DOMAIN s = 1 .. Len(s) /\ Len(s) \in Nat
  BY LenProperties DEF Ledgers
<1>2. \A i \in 1 .. Len(s) : s[i] \in Entries(Id)
  BY <1>1, ElementOfSeq
<1>3. \A i \in 1 .. Len(s) : /\ m[i] \in Entries(Id)
                             /\ m[i].txId = s[i].txId
                             /\ m[i].type = s[i].type
                             /\ m[i].amount = s[i].amount
  BY <1>1, <1>2 DEF Entries, MarkedEntries
<1>4. m \in [1 .. Len(s) -> Entries(Id)]
  BY <1>1, <1>3 DEF MarkedEntries
<1>5. m \in Seq(Entries(Id))
  BY <1>1, <1>4, SeqDef
<1>6. /\ MarkSettled(l, id) \in Ledgers(Id)
      /\ MarkSettled(l, id).entries = m
  BY <1>5 DEF MarkSettled, Ledgers
<1>7. DOMAIN m = DOMAIN s
  BY DEF MarkedEntries
<1> HIDE DEF m
<1> QED
  BY <1>1, <1>3, <1>6, <1>7

\* Adding an entry loses none, and adds it unless its id is taken.
LEMMA AddLedgerEntryHistory ==
    ASSUME NEW Id, NEW l \in Ledgers(Id), NEW e \in Entries(Id), NEW id, NEW type
    PROVE  HasEntry(AddLedgerEntry(l, e), id, type)
              <=> \/ HasEntry(l, id, type)
                  \/ /\ id = e.txId /\ type = e.type
                     /\ ~HasTransaction(l, e.txId)
<1>1. CASE HasTransaction(l, e.txId)
  BY <1>1 DEF AddLedgerEntry
<1>2. CASE ~HasTransaction(l, e.txId)
  <2> DEFINE s == l.entries
             t == <<e>> \o s
  <2>1. s \in Seq(Entries(Id)) /\ <<e>> \in Seq(Entries(Id))
    BY DEF Ledgers
  <2>2. Len(s) \in Nat /\ DOMAIN s = 1 .. Len(s)
    BY <2>1, LenProperties
  <2>3. /\ t \in Seq(Entries(Id))
        /\ Len(t) = 1 + Len(s)
        /\ t[1] = e
        /\ \A i \in 1 .. Len(s) : t[i + 1] = s[i]
    BY <2>1, <2>2, ConcatProperties
  <2>4. DOMAIN t = 1 .. 1 + Len(s)
    BY <2>3, LenProperties
  <2>5. AddLedgerEntry(l, e).entries = t
    BY <1>2 DEF AddLedgerEntry, Ledgers
  <2> HIDE DEF t
  <2>6. HasEntry(l, id, type) => HasEntry(AddLedgerEntry(l, e), id, type)
    BY <2>2, <2>3, <2>4, <2>5 DEF HasEntry
  <2>7. id = e.txId /\ type = e.type => HasEntry(AddLedgerEntry(l, e), id, type)
    BY <2>2, <2>3, <2>4, <2>5 DEF HasEntry
  <2>8. ASSUME NEW i \in DOMAIN t, t[i].txId = id, t[i].type = type, i # 1
        PROVE  HasEntry(l, id, type)
    <3>1. i - 1 \in 1 .. Len(s) /\ t[(i - 1) + 1] = s[i - 1]
      BY <2>2, <2>3, <2>4, <2>8
    <3>2. s[i - 1] = t[i]
      BY <3>1, <2>2, <2>4
    <3> QED
      BY <3>1, <3>2, <2>2, <2>8 DEF HasEntry
  <2> QED
    BY <1>2, <2>3, <2>5, <2>6, <2>7, <2>8 DEF HasEntry
<1> QED
  BY <1>1, <1>2

\* What credit and debit write into the history.
LEMMA CreditDebitHistory ==
    ASSUME NEW Id, NEW l \in Ledgers(Id), NEW x \in Id, NEW amount \in Nat,
           NEW id, NEW type
    PROVE  /\ HasEntry(Credit(l, x, amount), id, type)
                 <=> \/ HasEntry(l, id, type)
                     \/ id = x /\ type = "CREDIT" /\ ~HasTransaction(l, x)
           /\ HasEntry(Debit(l, x, amount), id, type)
                 <=> \/ HasEntry(l, id, type)
                     \/ /\ id = x /\ type = "DEBIT" /\ ~HasTransaction(l, x)
                        /\ HasEnoughBalance(l, amount)
<1>1. /\ Entry(x, "CREDIT", amount) \in Entries(Id)
      /\ Entry(x, "DEBIT", amount) \in Entries(Id)
  BY DEF Entry, Entries, EntryType
<1>2. /\ CreditBalance(l, amount) \in Ledgers(Id)
      /\ DebitBalance(l, amount) \in Ledgers(Id)
      /\ CreditBalance(l, amount).entries = l.entries
      /\ DebitBalance(l, amount).entries = l.entries
  BY DEF CreditBalance, DebitBalance, Ledgers
<1>3. /\ HasEntry(CreditBalance(l, amount), id, type) <=> HasEntry(l, id, type)
      /\ HasEntry(DebitBalance(l, amount), id, type) <=> HasEntry(l, id, type)
      /\ HasTransaction(CreditBalance(l, amount), x) <=> HasTransaction(l, x)
      /\ HasTransaction(DebitBalance(l, amount), x) <=> HasTransaction(l, x)
  BY <1>2 DEF HasEntry, HasTransaction
<1>4. /\ Entry(x, "CREDIT", amount).txId = x /\ Entry(x, "CREDIT", amount).type = "CREDIT"
      /\ Entry(x, "DEBIT", amount).txId = x /\ Entry(x, "DEBIT", amount).type = "DEBIT"
  BY DEF Entry
<1>5. HasEntry(Credit(l, x, amount), id, type)
         <=> \/ HasEntry(l, id, type)
             \/ id = x /\ type = "CREDIT" /\ ~HasTransaction(l, x)
  BY <1>1, <1>2, <1>3, <1>4, AddLedgerEntryHistory DEF Credit
<1>6. HasEntry(Debit(l, x, amount), id, type)
         <=> \/ HasEntry(l, id, type)
             \/ /\ id = x /\ type = "DEBIT" /\ ~HasTransaction(l, x)
                /\ HasEnoughBalance(l, amount)
  BY <1>1, <1>2, <1>3, <1>4, AddLedgerEntryHistory DEF Debit
<1> QED
  BY <1>5, <1>6

\* markSettled leaves the history as it is.
LEMMA MarkSettledHistory ==
    ASSUME NEW Id, NEW l \in Ledgers(Id), NEW x, NEW id, NEW type
    PROVE  HasEntry(MarkSettled(l, x), id, type) <=> HasEntry(l, id, type)
BY MarkSettledEntries DEF HasEntry

\* An id is in the history if it is there as a credit or as a debit.
LEMMA HasTransactionHistory ==
    ASSUME NEW Id, NEW l \in Ledgers(Id), NEW id
    PROVE  HasTransaction(l, id) <=> \E type \in EntryType : HasEntry(l, id, type)
<1>1. l.entries \in Seq(Entries(Id))
  BY DEF Ledgers
<1>2. \A i \in DOMAIN l.entries : l.entries[i] \in Entries(Id)
  BY <1>1, LenProperties, ElementOfSeq
<1>3. \A i \in DOMAIN l.entries : l.entries[i].type \in EntryType
  BY <1>2 DEF Entries
<1> QED
  BY <1>3 DEF HasTransaction, HasEntry

\* The amounts of one kind, entry by entry.
Amounts(l, type) ==
    [i \in DOMAIN l.entries |->
        IF l.entries[i].type = type THEN l.entries[i].amount ELSE 0]

\* What the history says was credited, or debited, is the sum of those amounts.
LEMMA SumOfAmounts ==
    ASSUME NEW l, NEW type
    PROVE  SumOf(l, type) = SumOver(Amounts(l, type), DOMAIN l.entries)
<1> DEFINE S == DOMAIN l.entries
           f == Amounts(l, type)
           A(it) == [s \in SUBSET S |->
                       IF s = {} THEN 0
                       ELSE LET x == CHOOSE x \in s : TRUE
                            IN  (IF l.entries[x].type = type THEN l.entries[x].amount
                                 ELSE 0) + it[s \ {x}]]
           B(it) == [s \in SUBSET S |-> Part(f, s, it)]
<1>1. SumOf(l, type) = (CHOOSE it : it = A(it))[S]
  BY DEF SumOf, MapThenSumSet, MapThenFoldSet
<1>2. SumOver(f, S) = (CHOOSE it : it = B(it))[S]
  BY DEF SumOver, Partial
<1>3. \A it : A(it) = B(it)
  <2> TAKE it
  <2>1. \A s \in SUBSET S : s # {} => (CHOOSE x \in s : TRUE) \in S
    OBVIOUS
  <2> QED
    BY <2>1 DEF Part, Amounts
<1> HIDE DEF A, B
<1>4. (CHOOSE it : it = A(it)) = (CHOOSE it : it = B(it))
  BY <1>3
<1> QED
  BY <1>1, <1>2, <1>4

\* The entries of a ledger and their amounts.
LEMMA AmountsType ==
    ASSUME NEW Id, NEW l \in Ledgers(Id), NEW type
    PROVE  /\ Len(l.entries) \in Nat /\ DOMAIN l.entries = 1 .. Len(l.entries)
           /\ IsFiniteSet(DOMAIN l.entries)
           /\ \A i \in DOMAIN l.entries :
                 l.entries[i] \in Entries(Id) /\ Amounts(l, type)[i] \in Nat
           /\ SumOf(l, type) \in Nat
<1>1. l.entries \in Seq(Entries(Id))
  BY DEF Ledgers
<1>2. Len(l.entries) \in Nat /\ DOMAIN l.entries = 1 .. Len(l.entries)
  BY <1>1, LenProperties
<1>3. IsFiniteSet(DOMAIN l.entries)
  BY <1>2, FS_Interval
<1>4. \A i \in DOMAIN l.entries : l.entries[i] \in Entries(Id)
  BY <1>1, <1>2, ElementOfSeq
<1>5. \A i \in DOMAIN l.entries : Amounts(l, type)[i] \in Nat
  BY <1>4 DEF Amounts, Entries
<1>6. SumOver(Amounts(l, type), DOMAIN l.entries) \in Nat
  BY <1>3, <1>5, SumType
<1> QED
  BY <1>2, <1>3, <1>4, <1>5, <1>6, SumOfAmounts

\* A new entry adds its amount to the sum of its kind.
LEMMA AddLedgerEntrySum ==
    ASSUME NEW Id, NEW l \in Ledgers(Id), NEW e \in Entries(Id), NEW type,
           ~HasTransaction(l, e.txId)
    PROVE  SumOf(AddLedgerEntry(l, e), type)
              = (IF e.type = type THEN e.amount ELSE 0) + SumOf(l, type)
<1> DEFINE s == l.entries
           t == <<e>> \o s
           f == Amounts(l, type)
           g == Amounts(AddLedgerEntry(l, e), type)
<1>1. s \in Seq(Entries(Id)) /\ <<e>> \in Seq(Entries(Id))
  BY DEF Ledgers
<1>2. Len(s) \in Nat /\ DOMAIN s = 1 .. Len(s)
  BY <1>1, LenProperties
<1>3. /\ t \in Seq(Entries(Id))
      /\ Len(t) = 1 + Len(s)
      /\ t[1] = e
      /\ \A i \in 1 .. Len(s) : t[i + 1] = s[i]
  BY <1>1, <1>2, ConcatProperties
<1>4. DOMAIN t = 1 .. Len(s) + 1
  BY <1>2, <1>3, LenProperties
<1>5. AddLedgerEntry(l, e).entries = t
  BY DEF AddLedgerEntry, Ledgers
<1> HIDE DEF t
<1>6. g[1] = (IF e.type = type THEN e.amount ELSE 0) /\ g[1] \in Nat
  BY <1>2, <1>3, <1>4, <1>5 DEF Amounts, Entries
<1>7. \A i \in 1 .. Len(s) : f[i] \in Nat /\ g[i + 1] = f[i]
  <2> SUFFICES ASSUME NEW i \in 1 .. Len(s) PROVE f[i] \in Nat /\ g[i + 1] = f[i]
    OBVIOUS
  <2>1. f[i] \in Nat
    BY <1>2, AmountsType
  <2>2. i \in DOMAIN s /\ i + 1 \in DOMAIN t /\ t[i + 1] = s[i]
    BY <1>2, <1>3, <1>4
  <2>3. g[i + 1] = f[i]
    BY <1>5, <2>2 DEF Amounts
  <2> QED
    BY <2>1, <2>3
<1> HIDE DEF f, g
<1>8. SumOver(g, 1 .. Len(s) + 1) = g[1] + SumOver(f, 1 .. Len(s))
  BY <1>2, <1>6, <1>7, SumShift
<1>9. /\ SumOf(AddLedgerEntry(l, e), type) = SumOver(g, 1 .. Len(s) + 1)
      /\ SumOf(l, type) = SumOver(f, 1 .. Len(s))
  BY <1>2, <1>4, <1>5, SumOfAmounts DEF f, g
<1> QED
  BY <1>6, <1>8, <1>9

\* Two ledgers with the same entries, but for their flags, have the same sums.
LEMMA SumOfSame ==
    ASSUME NEW Id, NEW l \in Ledgers(Id), NEW m, NEW type,
           DOMAIN m.entries = DOMAIN l.entries,
           \A i \in DOMAIN l.entries : /\ m.entries[i].type = l.entries[i].type
                                       /\ m.entries[i].amount = l.entries[i].amount
    PROVE  SumOf(m, type) = SumOf(l, type)
<1>1. \A i \in DOMAIN l.entries : Amounts(m, type)[i] = Amounts(l, type)[i]
  BY DEF Amounts
<1>2. IsFiniteSet(DOMAIN l.entries)
  BY AmountsType
<1>3. SumOver(Amounts(m, type), DOMAIN l.entries) = SumOver(Amounts(l, type), DOMAIN l.entries)
  BY <1>1, <1>2, SumSame
<1> QED
  BY <1>3, SumOfAmounts

\* What credit and debit do to the books: the balance moves by as much as the sum of
\* the credits, or of the debits, provided the id is new.
LEMMA CreditDebitBooks ==
    ASSUME NEW Id, NEW l \in Ledgers(Id), NEW x \in Id, NEW amount \in Nat,
           ~HasTransaction(l, x)
    PROVE  /\ Credit(l, x, amount).balance = l.balance + amount
           /\ SumOf(Credit(l, x, amount), "CREDIT") = amount + SumOf(l, "CREDIT")
           /\ SumOf(Credit(l, x, amount), "DEBIT") = SumOf(l, "DEBIT")
           /\ HasEnoughBalance(l, amount) =>
                 /\ Debit(l, x, amount).balance + amount = l.balance
                 /\ SumOf(Debit(l, x, amount), "CREDIT") = SumOf(l, "CREDIT")
                 /\ SumOf(Debit(l, x, amount), "DEBIT") = amount + SumOf(l, "DEBIT")
<1> DEFINE c == CreditBalance(l, amount)
           d == DebitBalance(l, amount)
           ce == Entry(x, "CREDIT", amount)
           de == Entry(x, "DEBIT", amount)
<1>1. /\ c \in Ledgers(Id) /\ c.entries = l.entries /\ c.balance = l.balance + amount
      /\ d \in Ledgers(Id) /\ d.entries = l.entries
      /\ HasEnoughBalance(l, amount) => d.balance + amount = l.balance
  <2>1. /\ c \in Ledgers(Id) /\ c.entries = l.entries /\ c.balance = l.balance + amount
        /\ d \in Ledgers(Id) /\ d.entries = l.entries
    BY DEF CreditBalance, DebitBalance, Ledgers
  <2>2. l.balance \in Nat
    BY DEF Ledgers
  <2>3. d.balance = IF l.balance >= amount THEN l.balance - amount ELSE 0
    BY DEF DebitBalance, Ledgers
  <2> QED
    BY <2>1, <2>2, <2>3 DEF HasEnoughBalance
<1>2. /\ ce \in Entries(Id) /\ ce.txId = x /\ ce.type = "CREDIT" /\ ce.amount = amount
      /\ de \in Entries(Id) /\ de.txId = x /\ de.type = "DEBIT" /\ de.amount = amount
  BY DEF Entry, Entries, EntryType
<1>3. /\ Credit(l, x, amount) = AddLedgerEntry(c, ce)
      /\ HasEnoughBalance(l, amount) => Debit(l, x, amount) = AddLedgerEntry(d, de)
  BY DEF Credit, Debit
<1> HIDE DEF c, d, ce, de
<1>4. ~HasTransaction(c, x) /\ ~HasTransaction(d, x)
  BY <1>1 DEF HasTransaction
<1>5. \A type : SumOf(c, type) = SumOf(l, type) /\ SumOf(d, type) = SumOf(l, type)
  BY <1>1, SumOfSame
<1>6. AddLedgerEntry(c, ce).balance = c.balance /\ AddLedgerEntry(d, de).balance = d.balance
  BY <1>1 DEF AddLedgerEntry, Ledgers
<1>7. /\ SumOf(AddLedgerEntry(c, ce), "CREDIT") = amount + SumOf(c, "CREDIT")
      /\ SumOf(AddLedgerEntry(c, ce), "DEBIT") = 0 + SumOf(c, "DEBIT")
      /\ SumOf(AddLedgerEntry(d, de), "CREDIT") = 0 + SumOf(d, "CREDIT")
      /\ SumOf(AddLedgerEntry(d, de), "DEBIT") = amount + SumOf(d, "DEBIT")
  BY <1>1, <1>2, <1>4, AddLedgerEntrySum
<1>8. SumOf(l, "CREDIT") \in Nat /\ SumOf(l, "DEBIT") \in Nat
  BY AmountsType
<1> QED
  BY <1>1, <1>3, <1>5, <1>6, <1>7, <1>8

\* Settling an entry leaves the books as they are.
LEMMA MarkSettledBooks ==
    ASSUME NEW Id, NEW l \in Ledgers(Id), NEW x, NEW type
    PROVE  /\ MarkSettled(l, x).balance = l.balance
           /\ SumOf(MarkSettled(l, x), type) = SumOf(l, type)
<1>1. MarkSettled(l, x).balance = l.balance
  BY DEF MarkSettled, Ledgers
<1>2. SumOf(MarkSettled(l, x), type) = SumOf(l, type)
  BY MarkSettledEntries, SumOfSame
<1> QED
  BY <1>1, <1>2
-----------------------------------------------------------------------------
(* transactionSlice.ts *)

\* Splicing a record out of a list leaves a list.
LEMMA RemoveAtType ==
    ASSUME NEW S, NEW s \in Seq(S), NEW i \in DOMAIN s
    PROVE  RemoveAt(s, i) \in Seq(S)
<1>1. i \in 1 .. Len(s) /\ Len(s) \in Nat
  BY LenProperties
<1>2. \A j \in 1 .. Len(s) : s[j] \in S
  BY ElementOfSeq
<1>3. SubSeq(s, 1, i - 1) \in Seq(S)
  BY <1>1, <1>2, SubSeqProperties
<1>4. SubSeq(s, i + 1, Len(s)) \in Seq(S)
  BY <1>1, <1>2, SubSeqProperties
<1> QED
  BY <1>3, <1>4, ConcatProperties DEF RemoveAt

\* Filing a record keeps a store a store.
LEMMA UnshiftType ==
    ASSUME NEW Id, NEW st \in Stores(Id), NEW tx \in Records(Id)
    PROVE  Unshift(st, tx) \in Stores(Id)
<1>1. ListFor(tx.status) \in Lists
  BY DEF ListFor, Lists
<1>2. <<tx>> \in Seq(Records(Id))
  OBVIOUS
<1>3. <<tx>> \o st.lists[ListFor(tx.status)] \in Seq(Records(Id))
  BY <1>1, <1>2, ConcatProperties DEF Stores
<1> QED
  BY <1>1, <1>3 DEF Unshift, Stores

\* addTransaction keeps a store a store.
LEMMA AddTransactionType ==
    ASSUME NEW Id, NEW st \in Stores(Id), NEW tx \in Records(Id), NEW cap \in Nat
    PROVE  AddTransaction(st, tx, cap) \in Stores(Id)
<1>1. tx.id \in Id
  BY DEF Records
<1>2. Unshift(st, tx) \in Stores(Id)
  BY UnshiftType
<1>3. Add(Unshift(st, tx).seenTxIds, tx.id, cap) \in Seq(Id)
  BY <1>1, <1>2, AddType DEF Stores
<1> QED
  BY <1>2, <1>3 DEF AddTransaction, Stores

\* What Array.findIndex answers is an index of the id, if there is one at all.
LEMMA FirstIndexType ==
    ASSUME NEW S, NEW s \in Seq(S), NEW id, Holds(s, id)
    PROVE  FirstIndex(s, id) \in DOMAIN s /\ s[FirstIndex(s, id)].id = id
<1> DEFINE T == {i \in DOMAIN s : s[i].id = id}
<1>1. DOMAIN s = 1 .. Len(s) /\ Len(s) \in Nat
  BY LenProperties
<1>2. T \subseteq Nat /\ T # {}
  BY <1>1 DEF Holds
<1>3. PICK i \in T : \A j \in T : i <= j
  <2> HIDE DEF T
  <2> QED
    BY <1>2, LeastMember
<1>4. ASSUME NEW j \in 1 .. i - 1, s[j].id = id
      PROVE  FALSE
  <2>1. j \in T /\ j < i
    BY <1>1, <1>4
  <2> QED
    BY <1>1, <1>3, <2>1
<1> QED
  BY <1>3, <1>4 DEF FirstIndex

\* A known record is found in one of the lists.
LEMMA WhereType ==
    ASSUME NEW st, NEW id, Known(st, id)
    PROVE  Where(st, id) \in Lists /\ Holds(st.lists[Where(st, id)], id)
<1>1. \E k \in Lists : IsIn(st, k, id)
  BY DEF Known, IsIn, Lists
<1> QED
  BY <1>1 DEF Where, IsIn

\* updateTransactionStatus keeps a store a store.
LEMMA UpdateTransactionStatusType ==
    ASSUME NEW Id, NEW st \in Stores(Id), NEW id \in Id, NEW status \in Status
    PROVE  UpdateTransactionStatus(st, id, status) \in Stores(Id)
<1>1. CASE ~Known(st, id)
  BY <1>1 DEF UpdateTransactionStatus
<1>2. CASE Known(st, id)
  <2> DEFINE k == Where(st, id)
             rest == RemoveAt(st.lists[k], FirstIndex(st.lists[k], id))
             removed == [st EXCEPT !.lists[k] = rest]
             tx == [id |-> id, status |-> status]
  <2>1. k \in Lists /\ Holds(st.lists[k], id)
    BY <1>2, WhereType
  <2>2. st.lists[k] \in Seq(Records(Id))
    BY <2>1 DEF Stores
  <2>3. rest \in Seq(Records(Id))
    BY <2>1, <2>2, FirstIndexType, RemoveAtType
  <2>4. removed \in Stores(Id)
    BY <2>1, <2>3 DEF Stores
  <2>5. tx \in Records(Id)
    BY DEF Records
  <2> HIDE DEF rest, removed, tx
  <2>6. Unshift(removed, tx) \in Stores(Id)
    BY <2>4, <2>5, UnshiftType
  <2> QED
    BY <1>2, <2>6 DEF UpdateTransactionStatus, rest, removed, tx
<1> QED
  BY <1>1, <1>2

\* attachReceipt keeps a store a store.
LEMMA AttachReceiptType ==
    ASSUME NEW Id, NEW st \in Stores(Id), NEW id \in Id
    PROVE  AttachReceipt(st, id) \in Stores(Id)
<1>1. CASE ~Known(st, id)
  BY <1>1 DEF AttachReceipt
<1>2. CASE Known(st, id)
  <2> DEFINE k == Where(st, id)
             i == FirstIndex(st.lists[k], id)
             tx == [st.lists[k][i] EXCEPT !.status = "RECEIPTED"]
             list == [st.lists[k] EXCEPT ![i] = tx]
  <2>1. k \in Lists /\ Holds(st.lists[k], id)
    BY <1>2, WhereType
  <2>2. st.lists[k] \in Seq(Records(Id))
    BY <2>1 DEF Stores
  <2>3. i \in 1 .. Len(st.lists[k])
    BY <2>1, <2>2, FirstIndexType, LenProperties
  <2>. st.lists[k][i] \in Records(Id)
    BY <2>2, <2>3, ElementOfSeq
  <2>4. tx \in Records(Id)
    BY DEF Records, Status
  <2>5. list \in Seq(Records(Id))
    BY <2>2, <2>3, <2>4, ExceptSeq
  <2>6. AttachReceipt(st, id) = [st EXCEPT !.lists[k] = list]
    BY <1>2, <2>1, <2>2, <2>3 DEF AttachReceipt, Stores
  <2> QED
    BY <2>1, <2>5, <2>6 DEF Stores
<1> QED
  BY <1>1, <1>2

\* The records of a store.
Filed(st) == UNION {ToSet(st.lists[k]) : k \in Lists}

\* Splicing a record out of a list adds none to it.
LEMMA RemoveAtMembers ==
    ASSUME NEW S, NEW s \in Seq(S), NEW i \in DOMAIN s
    PROVE  ToSet(RemoveAt(s, i)) \subseteq ToSet(s)
<1>1. s \in Seq(ToSet(s))
  <2>1. DOMAIN s = 1 .. Len(s) /\ Len(s) \in Nat
    BY LenProperties
  <2>2. \A j \in 1 .. Len(s) : s[j] \in ToSet(s)
    BY <2>1 DEF ToSet
  <2>3. s = [j \in 1 .. Len(s) |-> s[j]]
    BY LenProperties
  <2> QED
    BY <2>1, <2>2, <2>3
<1> DEFINE r == RemoveAt(s, i)
<1>2. r \in Seq(ToSet(s))
  BY <1>1, RemoveAtType
<1>3. DOMAIN r = 1 .. Len(r) /\ \A j \in 1 .. Len(r) : r[j] \in ToSet(s)
  BY <1>2, LenProperties, ElementOfSeq
<1> QED
  BY <1>3 DEF ToSet

\* Putting an element in front adds that one.
LEMMA ConsMembers ==
    ASSUME NEW S, NEW s \in Seq(S), NEW e \in S
    PROVE  ToSet(<<e>> \o s) \subseteq ToSet(s) \cup {e}
<1> DEFINE t == <<e>> \o s
<1>1. <<e>> \in Seq(S) /\ Len(s) \in Nat /\ DOMAIN s = 1 .. Len(s)
  BY LenProperties
<1>2. /\ t \in Seq(S) /\ Len(t) = 1 + Len(s) /\ t[1] = e
      /\ \A i \in 1 .. Len(s) : t[i + 1] = s[i]
  BY <1>1, ConcatProperties
<1>3. DOMAIN t = 1 .. 1 + Len(s)
  BY <1>2, LenProperties
<1> HIDE DEF t
<1>4. ASSUME NEW i \in DOMAIN t, i # 1 PROVE t[i] \in ToSet(s)
  <2>1. i - 1 \in 1 .. Len(s) /\ t[(i - 1) + 1] = s[i - 1]
    BY <1>1, <1>2, <1>3, <1>4
  <2>2. s[i - 1] = t[i]
    BY <1>1, <1>3, <2>1
  <2> QED
    BY <1>1, <2>1, <2>2 DEF ToSet
<1>5. ToSet(t) \subseteq ToSet(s) \cup {e}
  BY <1>2, <1>4 DEF ToSet
<1> QED
  BY <1>5 DEF t

\* Filing a record adds that one.
LEMMA UnshiftFiled ==
    ASSUME NEW Id, NEW st \in Stores(Id), NEW tx \in Records(Id)
    PROVE  Filed(Unshift(st, tx)) \subseteq Filed(st) \cup {tx}
<1> DEFINE l == ListFor(tx.status)
           list == <<tx>> \o st.lists[l]
<1>1. l \in Lists /\ \A k \in Lists : st.lists[k] \in Seq(Records(Id))
  BY DEF ListFor, Lists, Stores
<1>2. \A k \in Lists : Unshift(st, tx).lists[k] = IF k = l THEN list ELSE st.lists[k]
  BY DEF Unshift, Stores
<1>3. ToSet(list) \subseteq ToSet(st.lists[l]) \cup {tx}
  BY <1>1, ConsMembers
<1> QED
  BY <1>1, <1>2, <1>3 DEF Filed

LEMMA AddTransactionFiled ==
    ASSUME NEW Id, NEW st \in Stores(Id), NEW tx \in Records(Id), NEW cap \in Nat
    PROVE  Filed(AddTransaction(st, tx, cap)) \subseteq Filed(st) \cup {tx}
<1>1. \/ AddTransaction(st, tx, cap) = st
      \/ AddTransaction(st, tx, cap).lists = Unshift(st, tx).lists
  BY DEF AddTransaction, Unshift, Stores
<1> QED
  BY <1>1, UnshiftFiled DEF Filed

LEMMA UpdateTransactionStatusFiled ==
    ASSUME NEW Id, NEW st \in Stores(Id), NEW id \in Id, NEW status \in Status
    PROVE  Filed(UpdateTransactionStatus(st, id, status))
              \subseteq Filed(st) \cup {[id |-> id, status |-> status]}
<1>1. CASE ~Known(st, id)
  BY <1>1 DEF UpdateTransactionStatus
<1>2. CASE Known(st, id)
  <2> DEFINE k == Where(st, id)
             rest == RemoveAt(st.lists[k], FirstIndex(st.lists[k], id))
             removed == [st EXCEPT !.lists[k] = rest]
             tx == [id |-> id, status |-> status]
  <2>1. k \in Lists /\ Holds(st.lists[k], id)
    BY <1>2, WhereType
  <2>2. st.lists[k] \in Seq(Records(Id))
    BY <2>1 DEF Stores
  <2>3. rest \in Seq(Records(Id)) /\ ToSet(rest) \subseteq ToSet(st.lists[k])
    BY <2>1, <2>2, FirstIndexType, RemoveAtType, RemoveAtMembers
  <2>4. removed \in Stores(Id)
    BY <2>1, <2>3 DEF Stores
  <2>5. \A m \in Lists : removed.lists[m] = IF m = k THEN rest ELSE st.lists[m]
    BY <2>1 DEF Stores
  <2>6. Filed(removed) \subseteq Filed(st)
    BY <2>1, <2>3, <2>5 DEF Filed
  <2>7. tx \in Records(Id)
    BY DEF Records
  <2> HIDE DEF rest, removed, tx
  <2>8. Filed(Unshift(removed, tx)) \subseteq Filed(removed) \cup {tx}
    BY <2>4, <2>7, UnshiftFiled
  <2> QED
    BY <1>2, <2>6, <2>8 DEF UpdateTransactionStatus, rest, removed, tx
<1> QED
  BY <1>1, <1>2

LEMMA AttachReceiptFiled ==
    ASSUME NEW Id, NEW st \in Stores(Id), NEW id \in Id
    PROVE  Filed(AttachReceipt(st, id))
              \subseteq Filed(st) \cup {[id |-> id, status |-> "RECEIPTED"]}
<1>1. CASE ~Known(st, id)
  BY <1>1 DEF AttachReceipt
<1>2. CASE Known(st, id)
  <2> DEFINE k == Where(st, id)
             i == FirstIndex(st.lists[k], id)
             tx == [id |-> id, status |-> "RECEIPTED"]
             list == [st.lists[k] EXCEPT ![i] = tx]
  <2>1. k \in Lists /\ Holds(st.lists[k], id)
    BY <1>2, WhereType
  <2>2. st.lists[k] \in Seq(Records(Id))
    BY <2>1 DEF Stores
  <2>3. i \in 1 .. Len(st.lists[k]) /\ st.lists[k][i].id = id
    BY <2>1, <2>2, FirstIndexType, LenProperties
  <2>4. st.lists[k][i] \in Records(Id)
    BY <2>2, <2>3, ElementOfSeq
  <2>5. [st.lists[k][i] EXCEPT !.status = "RECEIPTED"] = tx
    BY <2>3, <2>4 DEF Records
  <2>6. AttachReceipt(st, id) = [st EXCEPT !.lists[k] = list]
    BY <1>2, <2>1, <2>2, <2>3, <2>5 DEF AttachReceipt, Stores
  <2>7. \A m \in Lists : AttachReceipt(st, id).lists[m] = IF m = k THEN list ELSE st.lists[m]
    BY <2>1, <2>6 DEF Stores
  <2>8. ToSet(list) \subseteq ToSet(st.lists[k]) \cup {tx}
    BY <2>2, <2>3 DEF ToSet
  <2> HIDE DEF k, list, tx
  <2>9. Filed(AttachReceipt(st, id)) \subseteq Filed(st) \cup {tx}
    BY <2>1, <2>7, <2>8 DEF Filed
  <2> QED
    BY <2>9 DEF tx
<1> QED
  BY <1>1, <1>2
-----------------------------------------------------------------------------
(* What the calls are given *)

\* The arguments of a send are a device, a device and an amount.
LEMMA OrderType ==
    \A id \in TxId : From(id) \in Node /\ To(id) \in Node /\ Amount(id) \in Nat
BY OrderAssumption DEF From, To, Amount

\* Ticking and merging keep a clock a clock.
LEMMA ClockType ==
    ASSUME NEW c \in Clocks, NEW d \in Clocks, NEW n \in Node
    PROVE  Increment(c, n) \in Clocks /\ Merge(c, d) \in Clocks
BY DEF Clocks, Increment, Merge

\* A cache holds ids.
LEMMA MembersType ==
    ASSUME NEW s \in Seq(TxId)
    PROVE  ToSet(s) \subseteq TxId
<1>1. DOMAIN s = 1 .. Len(s)
  BY LenProperties
<1>2. \A i \in 1 .. Len(s) : s[i] \in TxId
  BY ElementOfSeq
<1> QED
  BY <1>1, <1>2 DEF ToSet

\* markSeen keeps the cache a sequence of ids, with a new id in it.
LEMMA MarkSeenType ==
    ASSUME TypeOK, NEW n \in Node, NEW id \in TxId
    PROVE  /\ MarkSeen(n, id) \in Seq(TxId)
           /\ ~IsDuplicate(n, id) => id \in ToSet(MarkSeen(n, id))
<1>1. seen[n] \in Seq(TxId) /\ MaxSeen \in Nat \ {0}
  BY BoundsAssumption DEF TypeOK
<1> QED
  BY <1>1, AddType, AddHolds DEF MarkSeen, IsDuplicate
-----------------------------------------------------------------------------
(* Types *)

\* The initial state is typed.
LEMMA InitType == Init => TypeOK
<1> SUFFICES ASSUME Init PROVE TypeOK
  OBVIOUS
<1>1. ZeroClock \in Clocks
  BY DEF ZeroClock, Clocks
<1>2. ASSUME NEW b \in Nat PROVE [EmptyLedger EXCEPT !.balance = b] \in Ledgers(TxId)
  <2>1. <<>> \in Seq(Entries(TxId))
    BY EmptySeq
  <2>2. EmptyLedger \in Ledgers(TxId)
    BY <2>1 DEF EmptyLedger, Ledgers
  <2> QED
    BY <2>2 DEF Ledgers
<1>3. EmptyStore \in Stores(TxId)
  BY DEF EmptyStore, Stores
<1>4. NoIntent \in Intents
  BY <1>1 DEF NoIntent, Intents
<1> QED
  BY <1>1, <1>2, <1>3, <1>4, InitialAssumption DEF Init, TypeOK, CallStates

\* Every step keeps the types.
LEMMA NextType == TypeOK /\ [Next]_vars => TypeOK'
<1> SUFFICES ASSUME TypeOK, [Next]_vars PROVE TypeOK'
  OBVIOUS
<1> USE OrderType, BoundsAssumption
<1>1. ASSUME NEW id \in TxId, CreateTransferIntent(id) PROVE TypeOK'
  <2>1. NextNonce(From(id)) \in Nat
    BY DEF TypeOK, NextNonce
  <2>2. Increment(clock[From(id)], From(id)) \in Clocks
    BY ClockType DEF TypeOK
  <2> QED
    BY <1>1, <2>1, <2>2 DEF CreateTransferIntent, TypeOK, CallStates, Intents,
       receiveVars
<1>2. ASSUME NEW id \in TxId, RejectInsufficient(id) PROVE TypeOK'
  <2>1. NextNonce(From(id)) \in Nat
    BY DEF TypeOK, NextNonce
  <2> QED
    BY <1>2, <2>1 DEF RejectInsufficient, TypeOK, CallStates, receiveVars, historyVars
<1>3. ASSUME NEW id \in TxId, SigningFails(id) PROVE TypeOK'
  BY <1>3 DEF SigningFails, TypeOK, CallStates, nonceVars, receiveVars, historyVars
<1>4. ASSUME NEW id \in TxId, NEW sigOk \in BOOLEAN, FinishSigning(id, sigOk)
      PROVE TypeOK'
  <2>1. Debit(ledger[From(id)], id, Amount(id)) \in Ledgers(TxId)
    BY CreditDebitType DEF TypeOK
  <2>2. [id |-> id, status |-> "SIGNED"] \in Records(TxId)
    BY DEF Records, Status
  <2>3. AddTransaction(store[From(id)], [id |-> id, status |-> "SIGNED"], MaxSeenTx)
            \in Stores(TxId)
    BY <2>2, AddTransactionType DEF TypeOK
  <2>4. ledger' \in [Node -> Ledgers(TxId)] /\ store' \in [Node -> Stores(TxId)]
    BY <1>4, <2>1, <2>3 DEF FinishSigning, TypeOK
  <2>5. intent' \in [TxId -> Intents]
    <3>1. intent \in [TxId -> Intents] /\ intent[id] \in Intents
      BY DEF TypeOK
    <3>2. [intent[id] EXCEPT !.sigOk = sigOk] \in Intents
      BY <3>1 DEF Intents
    <3>3. intent' = [intent EXCEPT ![id] = [intent[id] EXCEPT !.sigOk = sigOk]]
      BY <1>4, <3>1 DEF FinishSigning
    <3> QED
      BY <3>1, <3>2, <3>3
  <2>6. call' \in [TxId -> CallStates] /\ refused' \in SUBSET TxId
    BY <1>4 DEF FinishSigning, TypeOK, CallStates
  <2>7. UNCHANGED <<nonces, seen, clock, published, receipts, verifying, receipting,
                    epoch, born, credits, everCredited, forgotten, opening, known,
                    causes>>
    BY <1>4 DEF FinishSigning, nonceVars, receiveVars
  <2> QED
    BY <2>4, <2>5, <2>6, <2>7 DEF TypeOK
<1>5. ASSUME NEW id \in TxId, Publish(id) PROVE TypeOK'
  BY <1>5 DEF Publish, TypeOK, CallStates, nonceVars, receiveVars, historyVars
<1>6. ASSUME NEW id \in TxId, PublishReturns(id) PROVE TypeOK'
  <2>1. UpdateTransactionStatus(store[From(id)], id, "GOSSIPED") \in Stores(TxId)
    BY UpdateTransactionStatusType DEF TypeOK, Status
  <2> QED
    BY <1>6, <2>1 DEF PublishReturns, TypeOK, CallStates, nonceVars, receiveVars,
       historyVars
<1>7. ASSUME NEW n \in Node, NEW id \in TxId, ReceiveIntent(n, id) PROVE TypeOK'
  <2>1. MarkSeen(n, id) \in Seq(TxId)
    BY MarkSeenType
  <2>2. ClockVerified(n, id) \in Clocks
    BY ClockType DEF ClockVerified, TypeOK, Intents
  <2>3. ToSet(seen[n]) \subseteq TxId
    <3>1. seen[n] \in Seq(TxId)
      BY DEF TypeOK
    <3> QED
      BY <3>1, MembersType
  <2>4. /\ seen' \in [Node -> Seq(TxId)]
        /\ clock' \in [Node -> Clocks]
        /\ forgotten' \in [Node -> SUBSET TxId]
    BY <1>7, <2>1, <2>2, <2>3 DEF ReceiveIntent, TypeOK
  <2>5. /\ verifying' \in [Node -> SUBSET TxId]
        /\ known' \in [Node -> SUBSET TxId]
    <3>1. /\ verifying \in [Node -> SUBSET TxId]
          /\ known \in [Node -> SUBSET TxId]
          /\ causes[id] \subseteq TxId
      BY DEF TypeOK
    <3>2. CASE intent[id].sigOk
      <4>1. /\ verifying' = [verifying EXCEPT ![n] = @ \cup {id}]
            /\ known' = [known EXCEPT ![n] = @ \cup {id} \cup causes[id]]
        BY <1>7, <3>2 DEF ReceiveIntent
      <4> QED
        BY <3>1, <4>1
    <3>3. CASE ~intent[id].sigOk
      BY <1>7, <3>1, <3>3 DEF ReceiveIntent
    <3> QED
      BY <3>2, <3>3
  <2> QED
    BY <1>7, <2>4, <2>5 DEF ReceiveIntent, TypeOK, callVars
<1>8. ASSUME NEW n \in Node, NEW id \in TxId, CreditIntent(n, id) PROVE TypeOK'
  <2>1. Credit(ledger[n], id, Amount(id)) \in Ledgers(TxId)
    BY CreditDebitType DEF TypeOK
  <2>2. [id |-> id, status |-> "VERIFIED"] \in Records(TxId)
    BY DEF Records, Status
  <2>3. AddTransaction(store[n], [id |-> id, status |-> "VERIFIED"], MaxSeenTx)
            \in Stores(TxId)
    BY <2>2, AddTransactionType DEF TypeOK
  <2>4. credits' \in [Node -> [TxId -> Nat]]
    <3>1. credits \in [Node -> [TxId -> Nat]]
      BY DEF TypeOK
    <3>2. credits' = [credits EXCEPT ![n] = [credits[n] EXCEPT ![id] = @ + 1]]
      BY <1>8, <3>1 DEF CreditIntent
    <3>3. [credits[n] EXCEPT ![id] = @ + 1] \in [TxId -> Nat]
      BY <3>1
    <3> QED
      BY <3>1, <3>2, <3>3
  <2>5. ledger' \in [Node -> Ledgers(TxId)] /\ store' \in [Node -> Stores(TxId)]
    BY <1>8, <2>1, <2>3 DEF CreditIntent, TypeOK
  <2>6. /\ verifying' \in [Node -> SUBSET TxId]
        /\ receipting' \in [Node -> SUBSET TxId]
        /\ everCredited' \in SUBSET TxId
    <3>1. /\ verifying \in [Node -> SUBSET TxId] /\ receipting \in [Node -> SUBSET TxId]
          /\ everCredited \in SUBSET TxId
      BY DEF TypeOK
    <3> QED
      BY <1>8, <3>1 DEF CreditIntent
  <2>7. UNCHANGED <<nonces, seen, clock, call, intent, published, receipts, epoch, born,
                    refused, forgotten, opening, known, causes>>
    BY <1>8 DEF CreditIntent, nonceVars, callVars
  <2> QED
    BY <2>4, <2>5, <2>6, <2>7 DEF TypeOK
<1>9. ASSUME NEW n \in Node, NEW id \in TxId, StoreForRelay(n, id) PROVE TypeOK'
  <2>1. [id |-> id, status |-> "GOSSIPED"] \in Records(TxId)
    BY DEF Records, Status
  <2>2. AddTransaction(store[n], [id |-> id, status |-> "GOSSIPED"], MaxSeenTx)
            \in Stores(TxId)
    BY <2>1, AddTransactionType DEF TypeOK
  <2> QED
    BY <1>9, <2>2 DEF StoreForRelay, TypeOK, nonceVars, callVars, historyVars
<1>10. ASSUME NEW n \in Node, NEW id \in TxId, PublishReceipt(n, id) PROVE TypeOK'
  BY <1>10 DEF PublishReceipt, TypeOK, nonceVars, callVars, historyVars
<1>11. ASSUME NEW n \in Node, NEW id \in TxId, ReceiveReceipt(n, id) PROVE TypeOK'
  <2>1. AttachReceipt(store[n], id) \in Stores(TxId)
    BY AttachReceiptType DEF TypeOK
  <2> QED
    BY <1>11, <2>1 DEF ReceiveReceipt, TypeOK, nonceVars, callVars, receiveVars,
       historyVars
<1>12. ASSUME NEW n \in Node, NEW id \in TxId, SettleDebit(n, id) PROVE TypeOK'
  <2>1. MarkSettled(ledger[n], id) \in Ledgers(TxId)
    BY MarkSettledEntries DEF TypeOK
  <2>2. UpdateTransactionStatus(store[n], id, "SETTLED") \in Stores(TxId)
    BY UpdateTransactionStatusType DEF TypeOK, Status
  <2> QED
    BY <1>12, <2>1, <2>2 DEF SettleDebit, TypeOK, nonceVars, callVars, receiveVars,
       historyVars
<1>13. ASSUME NEW n \in Node, Restart(n) PROVE TypeOK'
  <2>1. ZeroClock \in Clocks /\ EmptyStore \in Stores(TxId)
    BY DEF ZeroClock, Clocks, EmptyStore, Stores
  <2>2. EmptyLedger \in Ledgers(TxId)
    BY DEF EmptyLedger, Ledgers
  <2>3. /\ seen' \in [Node -> Seq(TxId)]
        /\ clock' \in [Node -> Clocks]
        /\ ledger' \in [Node -> Ledgers(TxId)]
        /\ store' \in [Node -> Stores(TxId)]
    BY <1>13, <2>1, <2>2 DEF Restart, TypeOK
  <2>4. call' \in [TxId -> CallStates]
    BY <1>13 DEF Restart, TypeOK, CallStates
  <2>5. credits' \in [Node -> [TxId -> Nat]]
    BY <1>13 DEF Restart, TypeOK
  <2> QED
    BY <1>13, <2>3, <2>4, <2>5 DEF Restart, TypeOK
<1>14. ASSUME NEW n \in Node, NEW c \in ChainNonces[n], SyncFromChain(n, c)
       PROVE TypeOK'
  <2>1. EffectiveNonce(n, c) \in Nat
    BY <1>14 DEF EffectiveNonce, TypeOK
  <2> QED
    BY <1>14, <2>1 DEF SyncFromChain, TypeOK, callVars, receiveVars, historyVars
<1>15. CASE UNCHANGED vars
  BY <1>15 DEF TypeOK, vars, nonceVars, callVars, receiveVars, historyVars
<1> QED
  BY <1>1, <1>2, <1>3, <1>4, <1>5, <1>6, <1>7, <1>8, <1>9, <1>10, <1>11, <1>12,
     <1>13, <1>14, <1>15 DEF Next

\* Every state of every device is well typed; with it, no balance is ever negative.
THEOREM TypeCorrect == Spec => []TypeOK
BY InitType, NextType, PTL DEF Spec
-----------------------------------------------------------------------------
(* The seen cache *)

\* An id whose handler passed the dedup check is in the cache until it is forgotten.
SeenGuards ==
    \A n \in Node, id \in TxId :
        credits[n][id] > 0 \/ id \in verifying[n]
            => id \in ToSet(seen[n]) \/ id \in forgotten[n]

\* A step keeps the cache's guard, and the count it guards.
LEMMA CreditNext ==
    ASSUME TypeOK, SeenGuards, CreditedAtMostOnce, [Next]_vars
    PROVE  SeenGuards' /\ CreditedAtMostOnce'
<1>1. ASSUME UNCHANGED <<seen, forgotten, credits, verifying>>
      PROVE  SeenGuards' /\ CreditedAtMostOnce'
  BY <1>1 DEF SeenGuards, CreditedAtMostOnce
<1>2. ASSUME NEW n \in Node, NEW id \in TxId, ReceiveIntent(n, id)
      PROVE  SeenGuards' /\ CreditedAtMostOnce'
  <2>1. /\ verifying \in [Node -> SUBSET TxId] /\ seen \in [Node -> Seq(TxId)]
        /\ forgotten \in [Node -> SUBSET TxId]
        /\ credits \in [Node -> [TxId -> Nat]]
    BY DEF TypeOK
  <2>2. /\ ~IsDuplicate(n, id)
        /\ seen' = [seen EXCEPT ![n] = MarkSeen(n, id)]
        /\ forgotten' = [forgotten EXCEPT
               ![n] = @ \cup (ToSet(seen[n]) \ ToSet(MarkSeen(n, id)))]
        /\ credits' = credits
    BY <1>2 DEF ReceiveIntent
  <2>3. /\ \A m \in Node : m # n => verifying'[m] = verifying[m]
        /\ verifying'[n] \subseteq verifying[n] \cup {id}
    BY <1>2, <2>1 DEF ReceiveIntent
  <2>4. id \in ToSet(MarkSeen(n, id))
    BY <2>2, MarkSeenType
  <2>5. id \notin ToSet(seen[n])
    BY <2>2 DEF IsDuplicate
  <2>6. /\ \A m \in Node : m # n => seen'[m] = seen[m] /\ forgotten'[m] = forgotten[m]
        /\ seen'[n] = MarkSeen(n, id)
        /\ forgotten'[n] = forgotten[n] \cup (ToSet(seen[n]) \ ToSet(MarkSeen(n, id)))
    BY <2>1, <2>2
  <2>7. SeenGuards'
    <3> SUFFICES ASSUME NEW m \in Node, NEW x \in TxId,
                        credits[m][x] > 0 \/ x \in verifying'[m]
                 PROVE  x \in ToSet(seen'[m]) \/ x \in forgotten'[m]
      BY <2>2 DEF SeenGuards
    <3>1. CASE m # n
      BY <2>3, <2>6, <3>1 DEF SeenGuards
    <3>2. CASE m = n /\ x = id
      BY <2>4, <2>6, <3>2
    <3>3. CASE m = n /\ x # id
      <4>1. x \in ToSet(seen[n]) \/ x \in forgotten[n]
        BY <2>3, <3>3 DEF SeenGuards
      <4> QED
        BY <2>6, <3>3, <4>1
    <3> QED
      BY <3>1, <3>2, <3>3
  <2>8. CreditedAtMostOnce'
    <3> SUFFICES ASSUME NEW m \in Node, NEW x \in TxId, x \notin forgotten'[m]
                 PROVE  credits[m][x] + (IF x \in verifying'[m] THEN 1 ELSE 0) <= 1
      BY <2>2 DEF CreditedAtMostOnce
    <3>1. x \notin forgotten[m]
      BY <2>6
    <3>2. credits[m][x] + (IF x \in verifying[m] THEN 1 ELSE 0) <= 1
      BY <3>1 DEF CreditedAtMostOnce
    <3>3. CASE m = n /\ x = id
      <4>1. ~(credits[m][x] > 0)
        BY <2>5, <3>1, <3>3 DEF SeenGuards
      <4> QED
        BY <2>1, <4>1
    <3>4. CASE ~(m = n /\ x = id)
      <4>1. x \in verifying'[m] => x \in verifying[m]
        BY <2>3, <3>4
      <4> QED
        BY <2>1, <3>2, <4>1
    <3> QED
      BY <3>3, <3>4
  <2> QED
    BY <2>7, <2>8
<1>3. ASSUME NEW n \in Node, NEW id \in TxId, CreditIntent(n, id)
      PROVE  SeenGuards' /\ CreditedAtMostOnce'
  <2>1. /\ verifying \in [Node -> SUBSET TxId]
        /\ credits \in [Node -> [TxId -> Nat]]
    BY DEF TypeOK
  <2>2. /\ id \in verifying[n]
        /\ verifying' = [verifying EXCEPT ![n] = @ \ {id}]
        /\ seen' = seen /\ forgotten' = forgotten
    BY <1>3 DEF CreditIntent, nonceVars
  <2>3. credits' = [credits EXCEPT ![n] = [credits[n] EXCEPT ![id] = @ + 1]]
    BY <1>3, <2>1 DEF CreditIntent
  <2>4. \A m \in Node, x \in TxId :
            credits'[m][x] = IF m = n /\ x = id THEN credits[m][x] + 1 ELSE credits[m][x]
    BY <2>1, <2>3
  <2>5. \A m \in Node, x \in TxId :
            x \in verifying'[m] <=> x \in verifying[m] /\ ~(m = n /\ x = id)
    BY <2>1, <2>2
  <2>6. SeenGuards'
    BY <2>2, <2>4, <2>5 DEF SeenGuards
  <2>7. CreditedAtMostOnce'
    BY <2>1, <2>2, <2>4, <2>5 DEF CreditedAtMostOnce
  <2> QED
    BY <2>6, <2>7
<1>4. ASSUME NEW n \in Node, NEW id \in TxId, StoreForRelay(n, id)
      PROVE  SeenGuards' /\ CreditedAtMostOnce'
  <2>1. /\ verifying \in [Node -> SUBSET TxId]
        /\ credits \in [Node -> [TxId -> Nat]]
    BY DEF TypeOK
  <2>2. /\ verifying' = [verifying EXCEPT ![n] = @ \ {id}]
        /\ UNCHANGED <<seen, forgotten, credits>>
    BY <1>4 DEF StoreForRelay, nonceVars, historyVars
  <2>3. \A m \in Node : verifying'[m] \subseteq verifying[m]
    BY <2>1, <2>2
  <2> QED
    BY <2>1, <2>2, <2>3 DEF SeenGuards, CreditedAtMostOnce
<1>5. ASSUME NEW n \in Node, Restart(n)
      PROVE  SeenGuards' /\ CreditedAtMostOnce'
  <2>1. /\ verifying \in [Node -> SUBSET TxId] /\ seen \in [Node -> Seq(TxId)]
        /\ forgotten \in [Node -> SUBSET TxId]
        /\ credits \in [Node -> [TxId -> Nat]]
    BY DEF TypeOK
  <2>2. /\ \A m \in Node : m # n => /\ verifying'[m] = verifying[m]
                                     /\ seen'[m] = seen[m]
                                     /\ forgotten'[m] = forgotten[m]
                                     /\ credits'[m] = credits[m]
        /\ verifying'[n] = {}
        /\ \A x \in TxId : credits'[n][x] = 0
    BY <1>5, <2>1 DEF Restart
  <2> QED
    BY <2>2 DEF SeenGuards, CreditedAtMostOnce
<1> QED
  BY <1>1, <1>2, <1>3, <1>4, <1>5
  DEF Next, vars, nonceVars, callVars, receiveVars, historyVars, CreateTransferIntent,
      RejectInsufficient, SigningFails, FinishSigning, Publish, PublishReturns,
      PublishReceipt, ReceiveReceipt, SettleDebit, SyncFromChain

\* At the start nothing is in the cache and nothing was credited.
LEMMA SeenInit == Init => SeenGuards /\ CreditedAtMostOnce
BY DEF Init, SeenGuards, CreditedAtMostOnce

\* However the mesh repeats and delays intents and however the handlers interleave, a
\* device credits an id at most once before it forgets it or restarts.
THEOREM CreditedOnce == Spec => []CreditedAtMostOnce
<1>1. TypeOK /\ SeenGuards /\ CreditedAtMostOnce /\ [Next]_vars
         => SeenGuards' /\ CreditedAtMostOnce'
  BY CreditNext
<1> QED
  BY <1>1, SeenInit, TypeCorrect, PTL DEF Spec
-----------------------------------------------------------------------------
(* A credit answers to a debit *)

\* The sender's debit is in its history, or was refused, or is gone with a restart.
Debited(id) ==
    \/ HasEntry(ledger[From(id)], id, "DEBIT")
    \/ id \in refused
    \/ born[id] # epoch[From(id)]

\* Where a call to send stands tells what it has written and published.
SendFlow ==
    \A id \in TxId :
        /\ born[id] <= epoch[From(id)]
        /\ call[id] \in {"idle", "signing"} =>
              \A type \in EntryType : ~HasEntry(ledger[From(id)], id, type)
        /\ call[id] \in {"signed", "publishing", "sent"} => Debited(id)
        /\ call[id] = "lost" => born[id] # epoch[From(id)]
        /\ id \in published => call[id] \in {"publishing", "sent", "lost"}

\* Only what was published is verified, and only that is credited.
ReceiveFlow ==
    \A n \in Node, id \in TxId :
        id \in verifying[n] \/ HasEntry(ledger[n], id, "CREDIT") => id \in published

\* Steps that leave the ledgers, the calls, the epochs and the mesh as they are.
LEMMA SendUnchanged ==
    ASSUME SendFlow, UNCHANGED <<ledger, call, born, epoch, refused, published>>
    PROVE  SendFlow'
<1>1. ASSUME NEW id \in TxId PROVE Debited(id)' <=> Debited(id)
  BY DEF Debited, From, HasEntry
<1>2. ASSUME NEW id \in TxId, NEW type
      PROVE  HasEntry(ledger[From(id)], id, type)' <=> HasEntry(ledger[From(id)], id, type)
  BY DEF From, HasEntry
<1> QED
  BY <1>1, <1>2 DEF SendFlow, From

LEMMA FlowUnchanged ==
    ASSUME SendFlow, ReceiveFlow,
           UNCHANGED <<ledger, call, born, epoch, refused, published>>,
           \A n \in Node : verifying'[n] \subseteq verifying[n]
    PROVE  SendFlow' /\ ReceiveFlow'
<1>1. SendFlow'
  BY SendUnchanged
<1>2. ReceiveFlow'
  BY DEF ReceiveFlow, HasEntry
<1> QED
  BY <1>1, <1>2

\* Steps that move only calls, each along the order of the code.
LEMMA FlowCall ==
    ASSUME TypeOK, SendFlow, ReceiveFlow, NEW id \in TxId,
           UNCHANGED <<ledger, epoch, refused, verifying>>,
           NEW c, call' = [call EXCEPT ![id] = c],
           published' = published \/ published' = published \cup {id},
           born' = born \/ born' = [born EXCEPT ![id] = epoch[From(id)]],
           \/ call[id] = "idle" /\ c \in {"signing", "rejected"} /\ published' = published
           \/ call[id] = "signing" /\ c = "rejected" /\ UNCHANGED <<born, published>>
           \/ /\ call[id] = "signed" /\ c = "publishing" /\ born' = born
           \/ /\ call[id] = "publishing" /\ c = "sent" /\ UNCHANGED <<born, published>>
    PROVE  SendFlow' /\ ReceiveFlow'
<1>1. \A x \in TxId : From(x) \in Node /\ (From(x))' = From(x)
  BY OrderType DEF From
<1>2. /\ call \in [TxId -> CallStates] /\ born \in [TxId -> Nat]
      /\ epoch \in [Node -> Nat] /\ published \subseteq TxId
  BY DEF TypeOK
<1>3. SendFlow'
  <2> SUFFICES ASSUME NEW x \in TxId
               PROVE  /\ born'[x] <= epoch[From(x)]
                      /\ call'[x] \in {"idle", "signing"} =>
                            \A type \in EntryType : ~HasEntry(ledger[From(x)], x, type)
                      /\ call'[x] \in {"signed", "publishing", "sent"} =>
                            \/ HasEntry(ledger[From(x)], x, "DEBIT")
                            \/ x \in refused
                            \/ born'[x] # epoch[From(x)]
                      /\ call'[x] = "lost" => born'[x] # epoch[From(x)]
                      /\ x \in published' => call'[x] \in {"publishing", "sent", "lost"}
    BY <1>1 DEF SendFlow, Debited, HasEntry
  <2>1. CASE x = id
    BY <1>1, <1>2, <2>1 DEF SendFlow, Debited
  <2>2. CASE x # id
    <3>1. /\ call'[x] = call[x] /\ born'[x] = born[x]
          /\ x \in published' <=> x \in published
      BY <1>2, <2>2
    <3> QED
      BY <3>1 DEF SendFlow, Debited
  <2> QED
    BY <2>1, <2>2
<1>4. ReceiveFlow'
  BY DEF ReceiveFlow, HasEntry
<1> QED
  BY <1>3, <1>4

\* Every step keeps the flow of a payment.
LEMMA FlowNext ==
    ASSUME TypeOK, SendFlow, ReceiveFlow, [Next]_vars
    PROVE  SendFlow' /\ ReceiveFlow'
<1> USE OrderType
<1>1. ASSUME NEW id \in TxId, CreateTransferIntent(id) PROVE SendFlow' /\ ReceiveFlow'
  BY <1>1, FlowCall DEF CreateTransferIntent, receiveVars
<1>2. ASSUME NEW id \in TxId, RejectInsufficient(id) PROVE SendFlow' /\ ReceiveFlow'
  BY <1>2, FlowCall DEF RejectInsufficient, receiveVars, historyVars
<1>3. ASSUME NEW id \in TxId, SigningFails(id) PROVE SendFlow' /\ ReceiveFlow'
  BY <1>3, FlowCall DEF SigningFails, receiveVars, historyVars
<1>4. ASSUME NEW id \in TxId, NEW sigOk \in BOOLEAN, FinishSigning(id, sigOk)
      PROVE SendFlow' /\ ReceiveFlow'
  <2> DEFINE n == From(id)
  <2>1. /\ ledger \in [Node -> Ledgers(TxId)] /\ call \in [TxId -> CallStates]
        /\ n \in Node /\ Amount(id) \in Nat
    BY DEF TypeOK
  <2>2. /\ call[id] = "signing"
        /\ ledger' = [ledger EXCEPT ![n] = Debit(@, id, Amount(id))]
        /\ refused' = IF HasEnoughBalance(ledger[n], Amount(id))
                      THEN refused ELSE refused \cup {id}
        /\ call' = [call EXCEPT ![id] = "signed"]
        /\ UNCHANGED <<published, born, epoch, verifying>>
    BY <1>4 DEF FinishSigning, receiveVars
  <2>3. \A x, type : HasEntry(Debit(ledger[n], id, Amount(id)), x, type)
            <=> \/ HasEntry(ledger[n], x, type)
                \/ /\ x = id /\ type = "DEBIT" /\ ~HasTransaction(ledger[n], id)
                   /\ HasEnoughBalance(ledger[n], Amount(id))
    BY <2>1, CreditDebitHistory
  <2>4. ~HasTransaction(ledger[n], id)
    BY <2>1, <2>2, HasTransactionHistory DEF SendFlow
  <2>5. \A m \in Node : \A x, type : HasEntry(ledger'[m], x, type)
            <=> \/ HasEntry(ledger[m], x, type)
                \/ /\ m = n /\ x = id /\ type = "DEBIT"
                   /\ HasEnoughBalance(ledger[n], Amount(id))
    BY <2>1, <2>2, <2>3, <2>4
  <2>6. SendFlow'
    <3> SUFFICES ASSUME NEW x \in TxId
                 PROVE  /\ born[x] <= epoch[From(x)]
                        /\ call'[x] \in {"idle", "signing"} =>
                             \A type \in EntryType : ~HasEntry(ledger'[From(x)], x, type)
                        /\ call'[x] \in {"signed", "publishing", "sent"} =>
                              \/ HasEntry(ledger'[From(x)], x, "DEBIT")
                              \/ x \in refused'
                              \/ born[x] # epoch[From(x)]
                        /\ call'[x] = "lost" => born[x] # epoch[From(x)]
                        /\ x \in published => call'[x] \in {"publishing", "sent", "lost"}
      BY <2>2 DEF SendFlow, Debited, From, HasEntry
    <3>1. CASE x = id
      BY <2>1, <2>2, <2>5, <3>1 DEF SendFlow
    <3>2. CASE x # id
      BY <2>1, <2>2, <2>5, <3>2 DEF SendFlow, Debited
    <3> QED
      BY <3>1, <3>2
  <2>7. ReceiveFlow'
    <3>1. \A m \in Node, x \in TxId :
            HasEntry(ledger'[m], x, "CREDIT") <=> HasEntry(ledger[m], x, "CREDIT")
      BY <2>5
    <3> QED
      BY <2>2, <3>1 DEF ReceiveFlow, HasEntry
  <2> QED
    BY <2>6, <2>7
<1>5. ASSUME NEW id \in TxId, Publish(id) PROVE SendFlow' /\ ReceiveFlow'
  BY <1>5, FlowCall DEF Publish, receiveVars, historyVars
<1>6. ASSUME NEW id \in TxId, PublishReturns(id) PROVE SendFlow' /\ ReceiveFlow'
  BY <1>6, FlowCall DEF PublishReturns, receiveVars, historyVars
<1>7. ASSUME NEW n \in Node, NEW id \in TxId, ReceiveIntent(n, id)
      PROVE SendFlow' /\ ReceiveFlow'
  <2>1. verifying \in [Node -> SUBSET TxId]
    BY DEF TypeOK
  <2>2. \A m \in Node : verifying'[m] \subseteq verifying[m] \cup {id}
    BY <1>7, <2>1 DEF ReceiveIntent
  <2>3. /\ id \in published
        /\ UNCHANGED <<ledger, call, born, epoch, refused, published>>
    BY <1>7 DEF ReceiveIntent, IntentArrives, callVars
  <2>4. SendFlow'
    BY <2>3, SendUnchanged
  <2>5. ReceiveFlow'
    BY <2>2, <2>3 DEF ReceiveFlow, HasEntry
  <2> QED
    BY <2>4, <2>5
<1>8. ASSUME NEW n \in Node, NEW id \in TxId, CreditIntent(n, id)
      PROVE SendFlow' /\ ReceiveFlow'
  <2>1. /\ ledger \in [Node -> Ledgers(TxId)] /\ verifying \in [Node -> SUBSET TxId]
        /\ Amount(id) \in Nat
    BY DEF TypeOK
  <2>2. /\ id \in verifying[n]
        /\ ledger' = [ledger EXCEPT ![n] = Credit(@, id, Amount(id))]
        /\ verifying' = [verifying EXCEPT ![n] = @ \ {id}]
        /\ UNCHANGED <<published, call, born, epoch, refused>>
    BY <1>8 DEF CreditIntent, callVars
  <2>3. id \in published
    BY <2>2 DEF ReceiveFlow
  <2>4. \A m \in Node : \A x, type :
          /\ HasEntry(ledger[m], x, type) => HasEntry(ledger'[m], x, type)
          /\ HasEntry(ledger'[m], x, type) =>
                HasEntry(ledger[m], x, type) \/ (x = id /\ type = "CREDIT")
    BY <2>1, <2>2, CreditDebitHistory
  <2>5. SendFlow'
    <3> SUFFICES ASSUME NEW x \in TxId
                 PROVE  /\ born[x] <= epoch[From(x)]
                        /\ call[x] \in {"idle", "signing"} =>
                             \A type \in EntryType : ~HasEntry(ledger'[From(x)], x, type)
                        /\ call[x] \in {"signed", "publishing", "sent"} =>
                              \/ HasEntry(ledger'[From(x)], x, "DEBIT")
                              \/ x \in refused
                              \/ born[x] # epoch[From(x)]
                        /\ call[x] = "lost" => born[x] # epoch[From(x)]
                        /\ x \in published => call[x] \in {"publishing", "sent", "lost"}
      BY <2>2 DEF SendFlow, Debited, From, HasEntry
    <3> QED
      BY <2>3, <2>4 DEF SendFlow, Debited
  <2>6. ReceiveFlow'
    <3>1. \A m \in Node : verifying'[m] \subseteq verifying[m]
      BY <2>1, <2>2
    <3>2. \A m \in Node, x \in TxId :
            HasEntry(ledger'[m], x, "CREDIT") => HasEntry(ledger[m], x, "CREDIT") \/ x = id
      BY <2>4
    <3> QED
      BY <2>2, <2>3, <3>1, <3>2 DEF ReceiveFlow, HasEntry
  <2> QED
    BY <2>5, <2>6
<1>9. ASSUME NEW n \in Node, NEW id \in TxId, StoreForRelay(n, id)
      PROVE SendFlow' /\ ReceiveFlow'
  <2>1. \A m \in Node : verifying'[m] \subseteq verifying[m]
    BY <1>9 DEF StoreForRelay, TypeOK
  <2> QED
    BY <1>9, <2>1, FlowUnchanged DEF StoreForRelay, callVars, historyVars
<1>10. ASSUME NEW n \in Node, NEW id \in TxId, PublishReceipt(n, id)
       PROVE SendFlow' /\ ReceiveFlow'
  BY <1>10, FlowUnchanged DEF PublishReceipt, callVars, historyVars
<1>11. ASSUME NEW n \in Node, NEW id \in TxId, ReceiveReceipt(n, id)
       PROVE SendFlow' /\ ReceiveFlow'
  BY <1>11, FlowUnchanged DEF ReceiveReceipt, callVars, receiveVars, historyVars
<1>12. ASSUME NEW n \in Node, NEW id \in TxId, SettleDebit(n, id)
       PROVE SendFlow' /\ ReceiveFlow'
  <2>1. /\ ledger \in [Node -> Ledgers(TxId)]
        /\ ledger' = [ledger EXCEPT ![n] = MarkSettled(@, id)]
        /\ UNCHANGED <<published, call, born, epoch, refused, verifying>>
    BY <1>12 DEF SettleDebit, TypeOK, callVars, receiveVars, historyVars
  <2>2. \A m \in Node : \A x, type :
          HasEntry(ledger'[m], x, type) <=> HasEntry(ledger[m], x, type)
    BY <2>1, MarkSettledHistory
  <2>3. SendFlow'
    <3> SUFFICES ASSUME NEW x \in TxId
                 PROVE  /\ born[x] <= epoch[From(x)]
                        /\ call[x] \in {"idle", "signing"} =>
                             \A type \in EntryType : ~HasEntry(ledger'[From(x)], x, type)
                        /\ call[x] \in {"signed", "publishing", "sent"} =>
                              \/ HasEntry(ledger'[From(x)], x, "DEBIT")
                              \/ x \in refused
                              \/ born[x] # epoch[From(x)]
                        /\ call[x] = "lost" => born[x] # epoch[From(x)]
                        /\ x \in published => call[x] \in {"publishing", "sent", "lost"}
      BY <2>1 DEF SendFlow, Debited, From, HasEntry
    <3> QED
      BY <2>2 DEF SendFlow, Debited
  <2>4. ReceiveFlow'
    <3> SUFFICES ASSUME NEW m \in Node, NEW x \in TxId,
                        x \in verifying[m] \/ HasEntry(ledger'[m], x, "CREDIT")
                 PROVE  x \in published
      BY <2>1 DEF ReceiveFlow, HasEntry
    <3> QED
      BY <2>2 DEF ReceiveFlow
  <2> QED
    BY <2>3, <2>4
<1>13. ASSUME NEW n \in Node, Restart(n) PROVE SendFlow' /\ ReceiveFlow'
  <2>1. /\ ledger \in [Node -> Ledgers(TxId)] /\ epoch \in [Node -> Nat]
        /\ verifying \in [Node -> SUBSET TxId] /\ call \in [TxId -> CallStates]
        /\ born \in [TxId -> Nat]
    BY DEF TypeOK
  <2>2. /\ ledger' = [ledger EXCEPT ![n] = EmptyLedger]
        /\ epoch' = [epoch EXCEPT ![n] = @ + 1]
        /\ call' = [id \in TxId |->
               IF From(id) = n /\ call[id] \in {"signing", "signed", "publishing"}
               THEN "lost" ELSE call[id]]
        /\ verifying' = [verifying EXCEPT ![n] = {}]
        /\ UNCHANGED <<published, born, refused>>
    BY <1>13 DEF Restart
  <2>3. \A x, type : ~HasEntry(EmptyLedger, x, type)
    BY DEF HasEntry, EmptyLedger
  <2>4. \A m \in Node : \A x, type :
          HasEntry(ledger'[m], x, type) => m # n /\ HasEntry(ledger[m], x, type)
    BY <2>1, <2>2, <2>3
  <2>5. \A m \in Node : m # n => ledger'[m] = ledger[m] /\ epoch'[m] = epoch[m]
    BY <2>1, <2>2
  <2>6. SendFlow'
    <3> SUFFICES ASSUME NEW x \in TxId
                 PROVE  /\ born[x] <= epoch'[From(x)]
                        /\ call'[x] \in {"idle", "signing"} =>
                             \A type \in EntryType : ~HasEntry(ledger'[From(x)], x, type)
                        /\ call'[x] \in {"signed", "publishing", "sent"} =>
                              \/ HasEntry(ledger'[From(x)], x, "DEBIT")
                              \/ x \in refused
                              \/ born[x] # epoch'[From(x)]
                        /\ call'[x] = "lost" => born[x] # epoch'[From(x)]
                        /\ x \in published => call'[x] \in {"publishing", "sent", "lost"}
      BY <2>2 DEF SendFlow, Debited, From, HasEntry
    <3>1. CASE From(x) = n
      <4>1. epoch'[From(x)] = epoch[From(x)] + 1 /\ born[x] <= epoch[From(x)]
        BY <2>1, <2>2, <3>1 DEF SendFlow
      <4>2. born[x] <= epoch'[From(x)] /\ born[x] # epoch'[From(x)]
        BY <2>1, <4>1
      <4>3. \A type \in EntryType : ~HasEntry(ledger'[From(x)], x, type)
        BY <2>4, <3>1
      <4>4. x \in published => call'[x] \in {"publishing", "sent", "lost"}
        BY <2>2 DEF SendFlow
      <4> QED
        BY <4>2, <4>3, <4>4
    <3>2. CASE From(x) # n
      BY <2>2, <2>5, <3>2 DEF SendFlow, Debited
    <3> QED
      BY <3>1, <3>2
  <2>7. ReceiveFlow'
    <3> SUFFICES ASSUME NEW m \in Node, NEW x \in TxId,
                        x \in verifying'[m] \/ HasEntry(ledger'[m], x, "CREDIT")
                 PROVE  x \in published
      BY <2>2 DEF ReceiveFlow, HasEntry
    <3>1. verifying'[m] \subseteq verifying[m]
      BY <2>1, <2>2
    <3> QED
      BY <2>4, <3>1 DEF ReceiveFlow
  <2> QED
    BY <2>6, <2>7
<1>14. ASSUME NEW n \in Node, NEW c \in ChainNonces[n], SyncFromChain(n, c)
       PROVE SendFlow' /\ ReceiveFlow'
  BY <1>14, FlowUnchanged DEF SyncFromChain, callVars, receiveVars, historyVars
<1>15. CASE UNCHANGED vars
  BY <1>15, FlowUnchanged DEF vars, callVars, receiveVars, historyVars
<1> QED
  BY <1>1, <1>2, <1>3, <1>4, <1>5, <1>6, <1>7, <1>8, <1>9, <1>10, <1>11, <1>12,
     <1>13, <1>14, <1>15 DEF Next

\* At the start no call is made and no history has an entry.
LEMMA FlowInit == Init => SendFlow /\ ReceiveFlow
<1> SUFFICES ASSUME Init PROVE SendFlow /\ ReceiveFlow
  OBVIOUS
<1>1. \A n \in Node : ledger[n].entries = <<>>
  BY DEF Init, EmptyLedger
<1>2. \A n \in Node : \A x, type : ~HasEntry(ledger[n], x, type)
  BY <1>1 DEF HasEntry
<1>3. /\ \A id \in TxId : call[id] = "idle" /\ born[id] = 0
      /\ \A n \in Node : verifying[n] = {} /\ epoch[n] = 0
      /\ published = {}
  BY DEF Init
<1> QED
  BY <1>2, <1>3, OrderType DEF SendFlow, ReceiveFlow

\* Whatever the mesh does and whoever restarts, money arrives only if it left, but for
\* the debits the sender refused and ignored.
THEOREM CreditAnswersDebit == Spec => []CreditHasDebit
<1>1. TypeOK /\ SendFlow /\ ReceiveFlow /\ [Next]_vars => SendFlow' /\ ReceiveFlow'
  BY FlowNext
<1>2. SendFlow /\ ReceiveFlow => CreditHasDebit
  BY DEF SendFlow, ReceiveFlow, CreditHasDebit, Debited
<1> QED
  BY <1>1, <1>2, FlowInit, TypeCorrect, PTL DEF Spec
-----------------------------------------------------------------------------
(* The balance and the history *)

\* The device has debited the call itself, since it was last started.
OwnCall(n, id) ==
    /\ From(id) = n /\ born[id] = epoch[n]
    /\ call[id] \in {"signed", "publishing", "sent"}

\* What a device's history may hold: what it credited, and its own calls; and its own
\* calls do not come back to it as intents to credit.
Accounted ==
    /\ \A id \in TxId : call[id] = "signing" => born[id] = epoch[From(id)]
    /\ \A n \in Node, id \in TxId :
          /\ HasTransaction(ledger[n], id) => credits[n][id] > 0 \/ OwnCall(n, id)
          /\ id \in verifying[n] => ~OwnCall(n, id)

\* What credit, debit and markSettled add to the ids of a history.
LEMMA HistoryIds ==
    ASSUME NEW Id, NEW l \in Ledgers(Id), NEW x \in Id, NEW amount \in Nat, NEW id
    PROVE  /\ HasTransaction(Credit(l, x, amount), id) => HasTransaction(l, id) \/ id = x
           /\ HasTransaction(Debit(l, x, amount), id) => HasTransaction(l, id) \/ id = x
           /\ HasTransaction(MarkSettled(l, x), id) => HasTransaction(l, id)
<1>1. /\ Credit(l, x, amount) \in Ledgers(Id) /\ Debit(l, x, amount) \in Ledgers(Id)
      /\ MarkSettled(l, x) \in Ledgers(Id)
  BY CreditDebitType, MarkSettledEntries
<1>2. \A type : /\ HasEntry(Credit(l, x, amount), id, type) => HasEntry(l, id, type) \/ id = x
                /\ HasEntry(Debit(l, x, amount), id, type) => HasEntry(l, id, type) \/ id = x
                /\ HasEntry(MarkSettled(l, x), id, type) => HasEntry(l, id, type)
  BY CreditDebitHistory, MarkSettledHistory
<1> QED
  BY <1>1, <1>2, HasTransactionHistory

\* Steps after which no more has to be accounted for.
LEMMA AccountedKept ==
    ASSUME Accounted,
           UNCHANGED <<ledger, credits>>,
           \A n \in Node : verifying'[n] \subseteq verifying[n],
           \A n \in Node, id \in TxId : OwnCall(n, id)' <=> OwnCall(n, id),
           \A id \in TxId : call'[id] = "signing" => born'[id] = epoch'[From(id)]
    PROVE  Accounted'
BY DEF Accounted, HasTransaction, From

\* Every step keeps the history accounted for.
LEMMA AccountedNext ==
    ASSUME TypeOK, SendFlow, ReceiveFlow, Accounted, [Next]_vars
    PROVE  Accounted'
<1> USE OrderType
<1>0. /\ call \in [TxId -> CallStates] /\ born \in [TxId -> Nat]
      /\ epoch \in [Node -> Nat] /\ verifying \in [Node -> SUBSET TxId]
      /\ ledger \in [Node -> Ledgers(TxId)] /\ credits \in [Node -> [TxId -> Nat]]
  BY DEF TypeOK
<1>1. ASSUME NEW id \in TxId, CreateTransferIntent(id) PROVE Accounted'
  <2>1. /\ call[id] = "idle" /\ call' = [call EXCEPT ![id] = "signing"]
        /\ born' = [born EXCEPT ![id] = epoch[From(id)]]
        /\ UNCHANGED <<ledger, credits, epoch, verifying>>
    BY <1>1 DEF CreateTransferIntent, receiveVars
  <2>2. \A n \in Node, x \in TxId : OwnCall(n, x)' <=> OwnCall(n, x)
    BY <1>0, <2>1 DEF OwnCall, From
  <2>3. \A x \in TxId : call'[x] = "signing" => born'[x] = epoch'[From(x)]
    BY <1>0, <2>1 DEF Accounted
  <2> QED
    BY <2>1, <2>2, <2>3, AccountedKept
<1>2. ASSUME NEW id \in TxId, UNCHANGED <<ledger, credits, epoch, born, verifying>>,
             NEW c, call' = [call EXCEPT ![id] = c],
             \/ call[id] \in {"idle", "signing"} /\ c = "rejected"
             \/ call[id] = "signed" /\ c = "publishing"
             \/ call[id] = "publishing" /\ c = "sent"
      PROVE  Accounted'
  <2>1. \A n \in Node, x \in TxId : OwnCall(n, x)' <=> OwnCall(n, x)
    BY <1>0, <1>2 DEF OwnCall, From
  <2>2. \A x \in TxId : call'[x] = "signing" => born'[x] = epoch'[From(x)]
    BY <1>0, <1>2 DEF Accounted
  <2> QED
    BY <1>2, <2>1, <2>2, AccountedKept
<1>3. ASSUME NEW id \in TxId,
             RejectInsufficient(id) \/ SigningFails(id) \/ Publish(id) \/ PublishReturns(id)
      PROVE  Accounted'
  BY <1>2, <1>3
  DEF RejectInsufficient, SigningFails, Publish, PublishReturns, receiveVars, historyVars
<1>4. ASSUME NEW id \in TxId, NEW sigOk \in BOOLEAN, FinishSigning(id, sigOk)
      PROVE  Accounted'
  <2> DEFINE s == From(id)
  <2>1. /\ call[id] = "signing" /\ call' = [call EXCEPT ![id] = "signed"]
        /\ ledger' = [ledger EXCEPT ![s] = Debit(@, id, Amount(id))]
        /\ UNCHANGED <<credits, epoch, born, verifying>>
    BY <1>4 DEF FinishSigning, receiveVars
  <2>2. \A n \in Node, x \in TxId :
           OwnCall(n, x)' <=> OwnCall(n, x) \/ (x = id /\ n = s)
    BY <1>0, <2>1 DEF OwnCall, From, Accounted
  <2>3. \A n \in Node, x \in TxId :
           HasTransaction(ledger'[n], x) =>
              HasTransaction(ledger[n], x) \/ (x = id /\ n = s)
    BY <1>0, <2>1, HistoryIds
  <2>4. \A n \in Node : id \notin verifying[n]
    BY <2>1 DEF SendFlow, ReceiveFlow
  <2> SUFFICES ASSUME NEW n \in Node, NEW x \in TxId
               PROVE  /\ call'[x] = "signing" => born[x] = epoch[From(x)]
                      /\ HasTransaction(ledger'[n], x) => credits[n][x] > 0 \/ OwnCall(n, x)'
                      /\ x \in verifying[n] => ~OwnCall(n, x)'
    BY <2>1 DEF Accounted, HasTransaction, From
  <2> QED
    BY <1>0, <2>1, <2>2, <2>3, <2>4 DEF Accounted
<1>5. ASSUME NEW n \in Node, NEW id \in TxId, ReceiveIntent(n, id) PROVE Accounted'
  <2>1. /\ n # From(id) \/ born[id] # epoch[n]
        /\ UNCHANGED <<ledger, call, born, epoch, credits>>
    BY <1>5 DEF ReceiveIntent, IntentArrives, callVars
  <2>2. \A m \in Node, x \in TxId :
           x \in verifying'[m] => x \in verifying[m] \/ (m = n /\ x = id)
    BY <1>0, <1>5 DEF ReceiveIntent
  <2>3. \A m \in Node, x \in TxId : OwnCall(m, x)' <=> OwnCall(m, x)
    BY <2>1 DEF OwnCall, From
  <2>4. ~OwnCall(n, id)
    BY <2>1 DEF OwnCall
  <2> QED
    BY <2>1, <2>2, <2>3, <2>4 DEF Accounted, HasTransaction, From
<1>6. ASSUME NEW n \in Node, NEW id \in TxId, CreditIntent(n, id) PROVE Accounted'
  <2>1. /\ ledger' = [ledger EXCEPT ![n] = Credit(@, id, Amount(id))]
        /\ verifying' = [verifying EXCEPT ![n] = @ \ {id}]
        /\ UNCHANGED <<call, born, epoch>>
    BY <1>6 DEF CreditIntent, callVars
  <2>2. credits' = [credits EXCEPT ![n] = [credits[n] EXCEPT ![id] = @ + 1]]
    BY <1>0, <1>6 DEF CreditIntent
  <2>3. \A m \in Node, x \in TxId :
           credits'[m][x] = IF m = n /\ x = id THEN credits[m][x] + 1 ELSE credits[m][x]
    BY <1>0, <2>2
  <2>4. \A m \in Node, x \in TxId : OwnCall(m, x)' <=> OwnCall(m, x)
    BY <2>1 DEF OwnCall, From
  <2>5. \A m \in Node, x \in TxId :
           HasTransaction(ledger'[m], x) =>
              HasTransaction(ledger[m], x) \/ (x = id /\ m = n)
    BY <1>0, <2>1, HistoryIds
  <2>6. \A m \in Node : verifying'[m] \subseteq verifying[m]
    BY <1>0, <2>1
  <2> SUFFICES ASSUME NEW m \in Node, NEW x \in TxId
               PROVE  /\ call[x] = "signing" => born[x] = epoch[From(x)]
                      /\ HasTransaction(ledger'[m], x) =>
                            credits'[m][x] > 0 \/ OwnCall(m, x)'
                      /\ x \in verifying'[m] => ~OwnCall(m, x)'
    BY <2>1 DEF Accounted, HasTransaction, From
  <2>7. credits[m][x] \in Nat
    BY <1>0
  <2> QED
    BY <2>3, <2>4, <2>5, <2>6, <2>7 DEF Accounted
<1>7. ASSUME NEW n \in Node, NEW id \in TxId, SettleDebit(n, id) PROVE Accounted'
  <2>1. /\ ledger' = [ledger EXCEPT ![n] = MarkSettled(@, id)]
        /\ UNCHANGED <<call, born, epoch, credits, verifying>>
    BY <1>7 DEF SettleDebit, callVars, receiveVars, historyVars
  <2>2. \A m \in Node, x \in TxId :
           HasTransaction(ledger'[m], x) => HasTransaction(ledger[m], x)
    BY <1>0, <2>1, HistoryIds
  <2>3. \A m \in Node, x \in TxId : OwnCall(m, x)' <=> OwnCall(m, x)
    BY <2>1 DEF OwnCall, From
  <2> SUFFICES ASSUME NEW m \in Node, NEW x \in TxId
               PROVE  /\ call[x] = "signing" => born[x] = epoch[From(x)]
                      /\ HasTransaction(ledger'[m], x) =>
                            credits[m][x] > 0 \/ OwnCall(m, x)'
                      /\ x \in verifying[m] => ~OwnCall(m, x)'
    BY <2>1 DEF Accounted, HasTransaction, From
  <2> QED
    BY <2>2, <2>3 DEF Accounted
<1>8. ASSUME NEW n \in Node, Restart(n) PROVE Accounted'
  <2>1. /\ ledger' = [ledger EXCEPT ![n] = EmptyLedger]
        /\ epoch' = [epoch EXCEPT ![n] = @ + 1]
        /\ call' = [id \in TxId |->
               IF From(id) = n /\ call[id] \in {"signing", "signed", "publishing"}
               THEN "lost" ELSE call[id]]
        /\ verifying' = [verifying EXCEPT ![n] = {}]
        /\ credits' = [credits EXCEPT ![n] = [id \in TxId |-> 0]]
        /\ born' = born
    BY <1>8 DEF Restart
  <2>2. \A x : ~HasTransaction(EmptyLedger, x)
    BY DEF HasTransaction, EmptyLedger
  <2>3. \A m \in Node : m # n => /\ ledger'[m] = ledger[m] /\ epoch'[m] = epoch[m]
                                 /\ verifying'[m] = verifying[m]
                                 /\ credits'[m] = credits[m]
    BY <1>0, <2>1
  <2>4. ledger'[n] = EmptyLedger /\ verifying'[n] = {} /\ epoch'[n] = epoch[n] + 1
    BY <1>0, <2>1
  <2>5. \A m \in Node, x \in TxId : m # n => (OwnCall(m, x)' <=> OwnCall(m, x))
    BY <2>1, <2>3 DEF OwnCall, From
  <2> SUFFICES ASSUME NEW m \in Node, NEW x \in TxId
               PROVE  /\ call'[x] = "signing" => born[x] = epoch'[From(x)]
                      /\ HasTransaction(ledger'[m], x) =>
                            credits'[m][x] > 0 \/ OwnCall(m, x)'
                      /\ x \in verifying'[m] => ~OwnCall(m, x)'
    BY <2>1 DEF Accounted, HasTransaction, From
  <2>6. call'[x] = "signing" => From(x) # n /\ call[x] = "signing"
    BY <2>1
  <2>7. call'[x] = "signing" => born[x] = epoch'[From(x)]
    BY <2>3, <2>6 DEF Accounted
  <2>8. CASE m = n
    BY <2>2, <2>4, <2>7, <2>8
  <2>9. CASE m # n
    BY <2>3, <2>5, <2>7, <2>9 DEF Accounted
  <2> QED
    BY <2>8, <2>9
<1>9. ASSUME UNCHANGED <<ledger, credits, call, born, epoch>>,
             \A n \in Node : verifying'[n] \subseteq verifying[n]
      PROVE  Accounted'
  <2>1. \A m \in Node, x \in TxId : OwnCall(m, x)' <=> OwnCall(m, x)
    BY <1>9 DEF OwnCall, From
  <2> QED
    BY <1>9, <2>1, AccountedKept DEF Accounted
<1>10. ASSUME NEW n \in Node, NEW id \in TxId, StoreForRelay(n, id) PROVE Accounted'
  <2>1. \A m \in Node : verifying'[m] \subseteq verifying[m]
    BY <1>0, <1>10 DEF StoreForRelay
  <2> QED
    BY <1>9, <1>10, <2>1 DEF StoreForRelay, callVars, historyVars
<1>11. ASSUME NEW n \in Node, NEW id \in TxId,
              PublishReceipt(n, id) \/ ReceiveReceipt(n, id)
       PROVE  Accounted'
  BY <1>9, <1>11 DEF PublishReceipt, ReceiveReceipt, callVars, receiveVars, historyVars
<1>12. ASSUME NEW n \in Node, NEW c \in ChainNonces[n], SyncFromChain(n, c)
       PROVE  Accounted'
  BY <1>9, <1>12 DEF SyncFromChain, callVars, receiveVars, historyVars
<1>13. CASE UNCHANGED vars
  BY <1>9, <1>13 DEF vars, callVars, receiveVars, historyVars
<1> QED
  BY <1>1, <1>3, <1>4, <1>5, <1>6, <1>7, <1>8, <1>10, <1>11, <1>12, <1>13 DEF Next

\* The balance of a device and its history agree.
Books(n) ==
    ledger[n].balance + SumOf(ledger[n], "DEBIT")
        = opening[n] + SumOf(ledger[n], "CREDIT")

\* Only ids that are new to the history are debited, and credited as long as none was
\* forgotten.
LEMMA NewToHistory ==
    ASSUME TypeOK, SendFlow, ReceiveFlow, CreditedAtMostOnce, Accounted, NEW id \in TxId
    PROVE  /\ call[id] = "signing" => ~HasTransaction(ledger[From(id)], id)
           /\ \A n \in Node :
                 id \in verifying[n] /\ id \notin forgotten[n]
                    => ~HasTransaction(ledger[n], id) /\ credits[n][id] = 0
<1>1. call[id] = "signing" => ~HasTransaction(ledger[From(id)], id)
  <2>1. ledger[From(id)] \in Ledgers(TxId)
    BY OrderType DEF TypeOK
  <2> QED
    BY <2>1, HasTransactionHistory DEF SendFlow
<1>2. ASSUME NEW n \in Node, id \in verifying[n], id \notin forgotten[n]
      PROVE  ~HasTransaction(ledger[n], id) /\ credits[n][id] = 0
  <2>1. credits[n][id] + 1 <= 1 /\ credits[n][id] \in Nat
    BY <1>2 DEF CreditedAtMostOnce, TypeOK
  <2>2. credits[n][id] = 0
    BY <2>1
  <2> QED
    BY <1>2, <2>2 DEF Accounted
<1> QED
  BY <1>1, <1>2

\* Every step keeps balance and history together.
LEMMA BooksNext ==
    ASSUME TypeOK, SendFlow, ReceiveFlow, CreditedAtMostOnce, Accounted,
           BalanceMatchesHistory, [Next]_vars
    PROVE  BalanceMatchesHistory'
<1> USE OrderType
<1>0. /\ ledger \in [Node -> Ledgers(TxId)] /\ forgotten \in [Node -> SUBSET TxId]
      /\ opening \in [Node -> Nat]
  BY DEF TypeOK
<1>1. /\ BalanceMatchesHistory <=> \A n \in Node : forgotten[n] = {} => Books(n)
      /\ BalanceMatchesHistory' <=> \A n \in Node : forgotten'[n] = {} => Books(n)'
  BY DEF BalanceMatchesHistory, Books
<1>2. ASSUME NEW n \in Node, ledger'[n] = ledger[n], opening'[n] = opening[n]
      PROVE  Books(n)' <=> Books(n)
  BY <1>2 DEF Books
<1>3. ASSUME UNCHANGED <<ledger, opening>>,
             \A n \in Node : forgotten[n] \subseteq forgotten'[n]
      PROVE  BalanceMatchesHistory'
  BY <1>1, <1>2, <1>3
<1>4. ASSUME NEW n \in Node, UNCHANGED <<opening, forgotten>>,
             \A m \in Node : m # n => ledger'[m] = ledger[m],
             forgotten[n] = {} /\ Books(n) => Books(n)'
      PROVE  BalanceMatchesHistory'
  BY <1>1, <1>2, <1>4
<1>5. \A n \in Node : /\ ledger[n].balance \in Nat /\ opening[n] \in Nat
                      /\ SumOf(ledger[n], "CREDIT") \in Nat
                      /\ SumOf(ledger[n], "DEBIT") \in Nat
  BY <1>0, AmountsType DEF Ledgers
<1>6. ASSUME NEW id \in TxId, NEW sigOk \in BOOLEAN, FinishSigning(id, sigOk)
      PROVE  BalanceMatchesHistory'
  <2> DEFINE n == From(id)
             d == Debit(ledger[n], id, Amount(id))
  <2>1. /\ call[id] = "signing" /\ ledger' = [ledger EXCEPT ![n] = d]
        /\ UNCHANGED <<opening, forgotten>>
    BY <1>6 DEF FinishSigning
  <2>2. ~HasTransaction(ledger[n], id)
    BY <2>1, NewToHistory
  <2>3. ASSUME Books(n) PROVE Books(n)'
    <3>1. ledger'[n] = d /\ opening'[n] = opening[n]
      BY <1>0, <2>1
    <3>2. Books(n)' <=> d.balance + SumOf(d, "DEBIT") = opening[n] + SumOf(d, "CREDIT")
      BY <3>1 DEF Books
    <3>3. CASE ~HasEnoughBalance(ledger[n], Amount(id))
      BY <2>3, <3>2, <3>3 DEF Debit, Books
    <3>4. CASE HasEnoughBalance(ledger[n], Amount(id))
      <4>1. /\ d.balance + Amount(id) = ledger[n].balance
            /\ SumOf(d, "CREDIT") = SumOf(ledger[n], "CREDIT")
            /\ SumOf(d, "DEBIT") = Amount(id) + SumOf(ledger[n], "DEBIT")
        BY <1>0, <2>2, <3>4, CreditDebitBooks
      <4>2. d.balance \in Nat
        <5>1. d \in Ledgers(TxId)
          BY <1>0, CreditDebitType
        <5> QED
          BY <5>1 DEF Ledgers
      <4> HIDE DEF d
      <4> QED
        BY <1>5, <2>3, <3>2, <4>1, <4>2 DEF Books
    <3> QED
      BY <3>3, <3>4
  <2>4. \A m \in Node : m # n => ledger'[m] = ledger[m]
    BY <1>0, <2>1
  <2> QED
    BY <1>4, <2>1, <2>3, <2>4
<1>7. ASSUME NEW n \in Node, NEW id \in TxId, CreditIntent(n, id)
      PROVE  BalanceMatchesHistory'
  <2> DEFINE c == Credit(ledger[n], id, Amount(id))
  <2>1. /\ id \in verifying[n] /\ ledger' = [ledger EXCEPT ![n] = c]
        /\ UNCHANGED <<opening, forgotten>>
    BY <1>7 DEF CreditIntent
  <2>2. ASSUME forgotten[n] = {}, Books(n) PROVE Books(n)'
    <3>1. ~HasTransaction(ledger[n], id)
      BY <2>1, <2>2, NewToHistory
    <3>2. ledger'[n] = c /\ opening'[n] = opening[n]
      BY <1>0, <2>1
    <3>3. Books(n)' <=> c.balance + SumOf(c, "DEBIT") = opening[n] + SumOf(c, "CREDIT")
      BY <3>2 DEF Books
    <3>4. /\ c.balance = ledger[n].balance + Amount(id)
          /\ SumOf(c, "CREDIT") = Amount(id) + SumOf(ledger[n], "CREDIT")
          /\ SumOf(c, "DEBIT") = SumOf(ledger[n], "DEBIT")
      BY <1>0, <3>1, CreditDebitBooks
    <3> HIDE DEF c
    <3> QED
      BY <1>5, <2>2, <3>3, <3>4 DEF Books
  <2>3. \A m \in Node : m # n => ledger'[m] = ledger[m]
    BY <1>0, <2>1
  <2> QED
    BY <1>4, <2>1, <2>2, <2>3
<1>8. ASSUME NEW n \in Node, NEW id \in TxId, SettleDebit(n, id)
      PROVE  BalanceMatchesHistory'
  <2> DEFINE m == MarkSettled(ledger[n], id)
  <2>1. /\ ledger' = [ledger EXCEPT ![n] = m]
        /\ UNCHANGED <<opening, forgotten>>
    BY <1>8 DEF SettleDebit, historyVars
  <2>2. ledger'[n] = m /\ opening'[n] = opening[n]
    BY <1>0, <2>1
  <2>3. Books(n)' <=> m.balance + SumOf(m, "DEBIT") = opening[n] + SumOf(m, "CREDIT")
    BY <2>2 DEF Books
  <2>4. /\ m.balance = ledger[n].balance
        /\ SumOf(m, "CREDIT") = SumOf(ledger[n], "CREDIT")
        /\ SumOf(m, "DEBIT") = SumOf(ledger[n], "DEBIT")
    BY <1>0, MarkSettledBooks
  <2>5. Books(n) => Books(n)'
    BY <2>3, <2>4 DEF Books
  <2>6. \A k \in Node : k # n => ledger'[k] = ledger[k]
    BY <1>0, <2>1
  <2> QED
    BY <1>4, <2>1, <2>5, <2>6
<1>9. ASSUME NEW n \in Node, Restart(n) PROVE BalanceMatchesHistory'
  <2>1. /\ ledger'[n] = EmptyLedger /\ opening'[n] = 0
        /\ \A m \in Node : m # n => /\ ledger'[m] = ledger[m] /\ opening'[m] = opening[m]
                                    /\ forgotten'[m] = forgotten[m]
    BY <1>0, <1>9 DEF Restart
  <2>2. EmptyLedger.balance = 0 /\ EmptyLedger.entries = <<>>
    BY DEF EmptyLedger
  <2>3. \A type : SumOf(EmptyLedger, type) = 0
    BY <2>2, SumOfAmounts, SumEmpty
  <2>4. Books(n)' <=> EmptyLedger.balance + SumOf(EmptyLedger, "DEBIT")
                         = 0 + SumOf(EmptyLedger, "CREDIT")
    BY <2>1 DEF Books
  <2>5. Books(n)'
    BY <2>2, <2>3, <2>4
  <2> QED
    BY <1>1, <1>2, <2>1, <2>5
<1>10. ASSUME NEW n \in Node, NEW id \in TxId, ReceiveIntent(n, id)
       PROVE  BalanceMatchesHistory'
  <2>1. UNCHANGED <<ledger, opening>>
    BY <1>10 DEF ReceiveIntent
  <2>2. \A m \in Node : forgotten[m] \subseteq forgotten'[m]
    BY <1>0, <1>10 DEF ReceiveIntent
  <2> QED
    BY <1>3, <2>1, <2>2
<1> QED
  BY <1>3, <1>6, <1>7, <1>8, <1>9, <1>10
  DEF Next, vars, nonceVars, callVars, receiveVars, historyVars, CreateTransferIntent,
      RejectInsufficient, SigningFails, Publish, PublishReturns, StoreForRelay,
      PublishReceipt, ReceiveReceipt, SyncFromChain

\* What holds of the histories, together.
LEMMA HistoryHolds ==
    Spec => [](/\ SendFlow /\ ReceiveFlow /\ CreditedAtMostOnce
               /\ Accounted /\ BalanceMatchesHistory)
<1>1. Init => /\ SendFlow /\ ReceiveFlow /\ SeenGuards /\ CreditedAtMostOnce
              /\ Accounted /\ BalanceMatchesHistory
  <2> SUFFICES ASSUME Init
               PROVE  /\ SendFlow /\ ReceiveFlow /\ SeenGuards /\ CreditedAtMostOnce
                      /\ Accounted /\ BalanceMatchesHistory
    OBVIOUS
  <2>1. \A n \in Node : ledger[n].entries = <<>> /\ ledger[n].balance = Initial[n]
                        /\ opening[n] = Initial[n] /\ Initial[n] \in Nat
    BY InitialAssumption DEF Init, EmptyLedger
  <2>2. \A n \in Node, id \in TxId : ~HasTransaction(ledger[n], id)
    BY <2>1 DEF HasTransaction
  <2>3. \A n \in Node : \A type : SumOf(ledger[n], type) = 0
    <3>1. ASSUME NEW n \in Node, NEW type PROVE SumOf(ledger[n], type) = 0
      <4>1. DOMAIN ledger[n].entries = {}
        BY <2>1
      <4> QED
        BY <4>1, SumOfAmounts, SumEmpty
    <3> QED
      BY <3>1
  <2>4. BalanceMatchesHistory
    BY <2>1, <2>3 DEF BalanceMatchesHistory
  <2>5. /\ \A id \in TxId : call[id] = "idle"
        /\ \A n \in Node : verifying[n] = {}
    BY DEF Init
  <2>6. Accounted
    BY <2>2, <2>5 DEF Accounted
  <2> QED
    BY <2>4, <2>6, FlowInit, SeenInit
<1>2. TypeOK /\ SendFlow /\ ReceiveFlow /\ SeenGuards /\ CreditedAtMostOnce /\ Accounted
      /\ BalanceMatchesHistory /\ [Next]_vars
         => /\ SendFlow' /\ ReceiveFlow' /\ SeenGuards' /\ CreditedAtMostOnce'
            /\ Accounted' /\ BalanceMatchesHistory'
  BY FlowNext, CreditNext, AccountedNext, BooksNext
<1> QED
  BY <1>1, <1>2, TypeCorrect, PTL DEF Spec

\* As long as a device forgot no id, its balance is what it started with, plus the
\* credits and minus the debits of its history, whatever the mesh repeats, however the
\* handlers interleave and whoever restarts: the balance and the history are written by
\* two dispatches, only the second of which looks for duplicates.
THEOREM BalanceMatchesHistoryHolds == Spec => []BalanceMatchesHistory
BY HistoryHolds, PTL
-----------------------------------------------------------------------------
(* The supply *)

\* What each device holds, and what each payment is worth.
Balances == [n \in Node |-> ledger[n].balance]
Price == [id \in TxId |-> Amount(id)]

\* The payments that were debited and that nobody was credited for yet.
UnderWay ==
    {id \in TxId : HasEntry(ledger[From(id)], id, "DEBIT") /\ id \notin everCredited}

\* No device restarted or forgot an id.
Quiet == \A n \in Node : epoch[n] = 0 /\ forgotten[n] = {}

\* The inductive invariant: what the balances hold and what is under way.
SupplyBound ==
    Quiet => SumOver(Balances, Node) + SumOver(Price, UnderWay)
                <= SumOver(Initial, Node) + SumOver(Price, everCredited \cap refused)

\* What was ever credited had been published, and is on its receiver's count until a
\* restart.
CreditsCounted ==
    \A id \in everCredited :
        id \in published /\ (epoch[To(id)] = 0 => credits[To(id)][id] > 0)

\* Total sums up a function on the devices.
LEMMA TotalIsSum ==
    ASSUME NEW f
    PROVE  Total(f) = SumOver(f, Node)
BY SumIsMapped DEF Total

\* What payments are worth together, for a sum as the model writes it.
LEMMA AmountIsPrice ==
    ASSUME NEW S \in SUBSET TxId
    PROVE  MapThenSumSet(LAMBDA id : Amount(id), S) = SumOver(Price, S)
<1> DEFINE A(it) == [s \in SUBSET S |->
                       IF s = {} THEN 0
                       ELSE LET x == CHOOSE x \in s : TRUE
                            IN  Amount(x) + it[s \ {x}]]
           B(it) == [s \in SUBSET S |-> Part(Price, s, it)]
<1>1. MapThenSumSet(LAMBDA id : Amount(id), S) = (CHOOSE it : it = A(it))[S]
  BY DEF MapThenSumSet, MapThenFoldSet
<1>2. SumOver(Price, S) = (CHOOSE it : it = B(it))[S]
  BY DEF SumOver, Partial
<1>3. \A it : A(it) = B(it)
  <2> TAKE it
  <2>1. \A s \in SUBSET S : s # {} => (CHOOSE x \in s : TRUE) \in TxId
    OBVIOUS
  <2> QED
    BY <2>1 DEF Part, Price
<1> HIDE DEF A, B
<1>4. (CHOOSE it : it = A(it)) = (CHOOSE it : it = B(it))
  BY <1>3
<1> QED
  BY <1>1, <1>2, <1>4

\* The worth of payments is a number, and one more payment adds its amount.
LEMMA PriceSum ==
    /\ \A id \in TxId : Price[id] = Amount(id) /\ Price[id] \in Nat
    /\ \A S \in SUBSET TxId : SumOver(Price, S) \in Nat
    /\ \A S \in SUBSET TxId : \A id \in TxId \ S :
          SumOver(Price, S \cup {id}) = Amount(id) + SumOver(Price, S)
<1>1. \A id \in TxId : Price[id] = Amount(id) /\ Price[id] \in Nat
  BY OrderType DEF Price
<1>2. \A S \in SUBSET TxId : SumOver(Price, S) \in Nat
  BY <1>1, FinitenessAssumption, SumType
<1>3. ASSUME NEW S \in SUBSET TxId, NEW id \in TxId \ S
      PROVE  SumOver(Price, S \cup {id}) = Amount(id) + SumOver(Price, S)
  <2> DEFINE T == S \cup {id}
  <2>1. IsFiniteSet(T) /\ id \in T /\ (\A x \in T : Price[x] \in Nat) /\ T \ {id} = S
    BY <1>1, FinitenessAssumption, FS_Subset
  <2> HIDE DEF T
  <2>2. SumOver(Price, T) = Price[id] + SumOver(Price, T \ {id})
    BY <2>1, SumRemove
  <2> QED
    BY <1>1, <2>1, <2>2 DEF T
<1> QED
  BY <1>1, <1>2, <1>3

\* Every step keeps the count of what was credited.
LEMMA CreditsCountedNext ==
    ASSUME TypeOK, ReceiveFlow, CreditsCounted, [Next]_vars
    PROVE  CreditsCounted'
<1> USE OrderType
<1>0. /\ credits \in [Node -> [TxId -> Nat]] /\ epoch \in [Node -> Nat]
      /\ everCredited \in SUBSET TxId
  BY DEF TypeOK
<1>1. ASSUME UNCHANGED <<everCredited, epoch, credits>>, published \subseteq published'
      PROVE  CreditsCounted'
  BY <1>1 DEF CreditsCounted, To
<1>2. ASSUME NEW n \in Node, NEW id \in TxId, CreditIntent(n, id) PROVE CreditsCounted'
  <2>1. /\ id \in verifying[n] /\ n = To(id)
        /\ everCredited' = everCredited \cup {id}
        /\ UNCHANGED <<published, epoch>>
    BY <1>2 DEF CreditIntent, callVars
  <2>2. credits' = [credits EXCEPT ![n] = [credits[n] EXCEPT ![id] = @ + 1]]
    BY <1>0, <1>2 DEF CreditIntent
  <2>3. \A m \in Node, x \in TxId :
           credits'[m][x] = IF m = n /\ x = id THEN credits[m][x] + 1 ELSE credits[m][x]
    BY <1>0, <2>2
  <2>4. id \in published
    BY <2>1 DEF ReceiveFlow
  <2> SUFFICES ASSUME NEW x \in everCredited'
               PROVE  x \in published /\ (epoch[To(x)] = 0 => credits'[To(x)][x] > 0)
    BY <2>1 DEF CreditsCounted, To
  <2>5. x \in TxId /\ To(x) \in Node /\ credits[To(x)][x] \in Nat
    BY <1>0, <2>1
  <2> QED
    BY <2>1, <2>3, <2>4, <2>5 DEF CreditsCounted
<1>3. ASSUME NEW n \in Node, Restart(n) PROVE CreditsCounted'
  <2>1. /\ UNCHANGED <<everCredited, published>>
        /\ \A m \in Node : m # n => credits'[m] = credits[m] /\ epoch'[m] = epoch[m]
        /\ epoch'[n] # 0
    BY <1>0, <1>3 DEF Restart
  <2> SUFFICES ASSUME NEW x \in everCredited
               PROVE  x \in published /\ (epoch'[To(x)] = 0 => credits'[To(x)][x] > 0)
    BY <2>1 DEF CreditsCounted, To
  <2>2. To(x) \in Node
    BY <1>0
  <2> QED
    BY <2>1, <2>2 DEF CreditsCounted
<1>4. ASSUME NEW id \in TxId, Publish(id) PROVE CreditsCounted'
  BY <1>1, <1>4 DEF Publish, historyVars
<1>5. ASSUME NEW id \in TxId,
             \/ CreateTransferIntent(id) \/ RejectInsufficient(id) \/ SigningFails(id)
             \/ PublishReturns(id) \/ \E sigOk \in BOOLEAN : FinishSigning(id, sigOk)
      PROVE  CreditsCounted'
  <2>1. UNCHANGED <<everCredited, epoch, credits, published>>
    BY <1>5 DEF CreateTransferIntent, RejectInsufficient, SigningFails, PublishReturns,
                FinishSigning, historyVars
  <2> QED
    BY <1>1, <2>1
<1>6. ASSUME NEW n \in Node, NEW id \in TxId,
             \/ ReceiveIntent(n, id) \/ StoreForRelay(n, id) \/ PublishReceipt(n, id)
             \/ ReceiveReceipt(n, id) \/ SettleDebit(n, id)
      PROVE  CreditsCounted'
  <2>1. UNCHANGED <<everCredited, epoch, credits, published>>
    BY <1>6 DEF ReceiveIntent, StoreForRelay, PublishReceipt, ReceiveReceipt, SettleDebit,
                callVars, historyVars
  <2> QED
    BY <1>1, <2>1
<1>7. ASSUME NEW n \in Node, NEW c \in ChainNonces[n], SyncFromChain(n, c)
      PROVE  CreditsCounted'
  BY <1>1, <1>7 DEF SyncFromChain, callVars, historyVars
<1>8. CASE UNCHANGED vars
  BY <1>1, <1>8 DEF vars, callVars, historyVars
<1> QED
  BY <1>2, <1>3, <1>4, <1>5, <1>6, <1>7, <1>8 DEF Next

\* Every step keeps the bound: a debit puts as much under way as it takes from the
\* balance, and a credit takes it from there, or its debit had been refused.
LEMMA SupplyNext ==
    ASSUME TypeOK, SendFlow, ReceiveFlow, CreditedAtMostOnce, Accounted, CreditsCounted,
           SupplyBound, [Next]_vars
    PROVE  SupplyBound'
<1> USE OrderType
<1> DEFINE after == [n \in Node |-> ledger'[n].balance]
           under == {id \in TxId : /\ HasEntry(ledger'[From(id)], id, "DEBIT")
                                   /\ id \notin everCredited'}
           extra == everCredited \cap refused
           extraAfter == everCredited' \cap refused'
<1>0. /\ ledger \in [Node -> Ledgers(TxId)] /\ forgotten \in [Node -> SUBSET TxId]
      /\ epoch \in [Node -> Nat] /\ everCredited \in SUBSET TxId
      /\ refused \in SUBSET TxId
      /\ ledger' \in [Node -> Ledgers(TxId)]
  <2>1. TypeOK'
    BY NextType
  <2> QED
    BY <2>1 DEF TypeOK
<1>1. SupplyBound' <=> (Quiet' => SumOver(after, Node) + SumOver(Price, under)
                                    <= SumOver(Initial, Node) + SumOver(Price, extraAfter))
  BY DEF SupplyBound, Balances, UnderWay, HasEntry, From, Price, Amount
<1>2. /\ \A n \in Node : Balances[n] \in Nat /\ after[n] \in Nat
      /\ Balances \in [Node -> Nat] /\ after \in [Node -> Nat]
  BY <1>0 DEF Balances, Ledgers
<1>3. /\ SumOver(Balances, Node) \in Nat /\ SumOver(after, Node) \in Nat
      /\ SumOver(Initial, Node) \in Nat
  BY <1>2, FinitenessAssumption, InitialAssumption, SumType
<1>4. UnderWay \in SUBSET TxId /\ extra \in SUBSET TxId
  BY <1>0 DEF UnderWay
<1>5. SumOver(Price, UnderWay) \in Nat /\ SumOver(Price, extra) \in Nat
  BY <1>4, PriceSum
<1>6. SupplyBound => (Quiet => SumOver(Balances, Node) + SumOver(Price, UnderWay)
                                 <= SumOver(Initial, Node) + SumOver(Price, extra))
  BY DEF SupplyBound
<1> HIDE DEF after, under, extra, extraAfter
<1>7. ASSUME Quiet' => Quiet, after = Balances, under = UnderWay, extraAfter = extra
      PROVE  SupplyBound'
  BY <1>1, <1>6, <1>7
<1>8. ASSUME UNCHANGED <<ledger, everCredited, refused>>, Quiet' => Quiet
      PROVE  SupplyBound'
  BY <1>7, <1>8 DEF after, under, extra, extraAfter, Balances, UnderWay
<1>9. ASSUME UNCHANGED <<epoch, forgotten>> PROVE Quiet' <=> Quiet
  BY <1>9 DEF Quiet
<1>10. ASSUME NEW id \in TxId, NEW sigOk \in BOOLEAN, FinishSigning(id, sigOk)
       PROVE  SupplyBound'
  <2> DEFINE n == From(id)
             d == Debit(ledger[n], id, Amount(id))
  <2>1. /\ call[id] = "signing" /\ ledger' = [ledger EXCEPT ![n] = d]
        /\ refused' = IF HasEnoughBalance(ledger[n], Amount(id))
                      THEN refused ELSE refused \cup {id}
        /\ UNCHANGED <<epoch, forgotten, everCredited>>
    BY <1>10 DEF FinishSigning
  <2>2. ~HasTransaction(ledger[n], id)
    BY <2>1, NewToHistory
  <2>3. id \notin everCredited
    BY <2>1 DEF CreditsCounted, SendFlow
  <2>4. extraAfter = extra
    BY <2>1, <2>3 DEF extra, extraAfter
  <2>5. Quiet' <=> Quiet
    BY <1>9, <2>1
  <2>6. CASE ~HasEnoughBalance(ledger[n], Amount(id))
    <3>1. d = ledger[n]
      BY <2>6 DEF Debit
    <3>2. ledger' = ledger
      BY <1>0, <2>1, <3>1
    <3> QED
      BY <1>7, <2>1, <2>4, <2>5, <3>2 DEF after, under, Balances, UnderWay
  <2>7. CASE HasEnoughBalance(ledger[n], Amount(id))
    <3>1. d.balance + Amount(id) = ledger[n].balance
      BY <1>0, <2>2, <2>7, CreditDebitBooks
    <3>2. /\ ledger'[n] = d /\ \A m \in Node : m # n => ledger'[m] = ledger[m]
          /\ n \in Node /\ ledger[n] \in Ledgers(TxId)
      BY <1>0, <2>1
    <3>3. \A x, type : HasEntry(d, x, type)
             <=> HasEntry(ledger[n], x, type) \/ (x = id /\ type = "DEBIT")
      BY <1>0, <2>2, <2>7, CreditDebitHistory
    <3>4. /\ Balances[n] = ledger[n].balance /\ after[n] = d.balance
          /\ \A m \in Node \ {n} : Balances[m] = after[m]
      BY <3>2 DEF Balances, after
    <3> HIDE DEF d
    <3>5. SumOver(after, Node) + Balances[n] = SumOver(Balances, Node) + after[n]
      BY <1>2, <3>2, <3>4, FinitenessAssumption, SumChange
    <3>6. id \notin UnderWay
      BY <2>2 DEF UnderWay, HasEntry, HasTransaction
    <3>7. under = UnderWay \cup {id}
      BY <2>1, <2>3, <3>2, <3>3 DEF under, UnderWay
    <3>8. SumOver(Price, under) = Amount(id) + SumOver(Price, UnderWay)
      BY <1>4, <3>6, <3>7, PriceSum
    <3>9. SumOver(after, Node) + Amount(id) = SumOver(Balances, Node)
      <4>1. Balances[n] \in Nat /\ after[n] \in Nat /\ Amount(id) \in Nat
        BY <1>2, <3>2
      <4> QED
        BY <1>3, <3>1, <3>4, <3>5, <4>1
    <3>10. Amount(id) \in Nat
      OBVIOUS
    <3>11. SumOver(after, Node) + SumOver(Price, under)
             = SumOver(Balances, Node) + SumOver(Price, UnderWay)
      BY <1>3, <1>5, <3>8, <3>9, <3>10
    <3> QED
      BY <1>1, <1>6, <2>4, <2>5, <3>11
  <2> QED
    BY <2>6, <2>7
<1>11. ASSUME NEW n \in Node, NEW id \in TxId, CreditIntent(n, id)
       PROVE  SupplyBound'
  <2> DEFINE c == Credit(ledger[n], id, Amount(id))
  <2>1. /\ id \in verifying[n] /\ n = To(id)
        /\ ledger' = [ledger EXCEPT ![n] = c]
        /\ everCredited' = everCredited \cup {id}
        /\ UNCHANGED <<epoch, forgotten, refused>>
    BY <1>11 DEF CreditIntent
  <2>2. Quiet' <=> Quiet
    BY <1>9, <2>1
  <2> SUFFICES ASSUME Quiet
               PROVE  SumOver(after, Node) + SumOver(Price, under)
                        <= SumOver(Initial, Node) + SumOver(Price, extraAfter)
    BY <1>1, <2>2
  <2>3. ~HasTransaction(ledger[n], id) /\ credits[n][id] = 0
    BY <2>1, NewToHistory DEF Quiet
  <2>4. id \notin everCredited
    <3>1. epoch[To(id)] = 0
      BY <2>1 DEF Quiet
    <3> QED
      BY <2>1, <2>3, <3>1 DEF CreditsCounted
  <2>5. id \in UnderWay \/ id \in refused
    <3>1. id \in published
      BY <2>1 DEF ReceiveFlow
    <3>2. born[id] = epoch[From(id)]
      <4>1. From(id) \in Node /\ epoch[From(id)] = 0 /\ born[id] \in Nat
        BY DEF Quiet, TypeOK
      <4>2. born[id] <= 0
        BY <4>1 DEF SendFlow
      <4> QED
        BY <4>1, <4>2
    <3>3. Debited(id)
      BY <3>1, <3>2 DEF SendFlow
    <3> QED
      BY <2>4, <3>2, <3>3 DEF Debited, UnderWay
  <2>6. c.balance = ledger[n].balance + Amount(id)
    BY <1>0, <2>3, CreditDebitBooks
  <2>7. /\ ledger'[n] = c /\ \A m \in Node : m # n => ledger'[m] = ledger[m]
        /\ ledger[n] \in Ledgers(TxId)
    BY <1>0, <2>1
  <2>8. \A x : HasEntry(c, x, "DEBIT") <=> HasEntry(ledger[n], x, "DEBIT")
    BY <1>0, CreditDebitHistory
  <2>9. /\ Balances[n] = ledger[n].balance /\ after[n] = c.balance
        /\ \A m \in Node \ {n} : Balances[m] = after[m]
    BY <2>7 DEF Balances, after
  <2> HIDE DEF c
  <2>10. SumOver(after, Node) + Balances[n] = SumOver(Balances, Node) + after[n]
    BY <1>2, <2>9, FinitenessAssumption, SumChange
  <2>11. SumOver(after, Node) = SumOver(Balances, Node) + Amount(id)
    <3>1. Balances[n] \in Nat /\ after[n] \in Nat /\ Amount(id) \in Nat
      BY <1>2
    <3> QED
      BY <1>3, <2>6, <2>9, <2>10, <3>1
  <2>12. under = UnderWay \ {id}
    BY <2>1, <2>7, <2>8 DEF under, UnderWay
  <2>13. under \in SUBSET TxId /\ SumOver(Price, under) \in Nat
    BY <1>4, <2>12, PriceSum
  <2>14. CASE id \in UnderWay
    <3>1. SumOver(Price, UnderWay) = Amount(id) + SumOver(Price, under)
      <4>1. UnderWay = under \cup {id} /\ id \in TxId \ under
        BY <2>12, <2>14
      <4> QED
        BY <2>13, <4>1, PriceSum
    <3>2. SumOver(Price, extra) <= SumOver(Price, extraAfter)
                /\ SumOver(Price, extraAfter) \in Nat
      <4>1. CASE id \in refused
        <5>1. extraAfter = extra \cup {id} /\ id \in TxId \ extra
          BY <2>1, <2>4, <4>1 DEF extra, extraAfter
        <5>2. SumOver(Price, extraAfter) = Amount(id) + SumOver(Price, extra)
          BY <1>4, <5>1, PriceSum
        <5> QED
          BY <1>5, <5>2
      <4>2. CASE id \notin refused
        BY <1>5, <2>1, <4>2 DEF extra, extraAfter
      <4> QED
        BY <4>1, <4>2
    <3>3. Amount(id) \in Nat
      OBVIOUS
    <3> QED
      BY <1>3, <1>5, <1>6, <2>11, <2>13, <3>1, <3>2, <3>3
  <2>15. CASE id \notin UnderWay
    <3>1. under = UnderWay
      BY <2>12, <2>15
    <3>2. extraAfter = extra \cup {id} /\ id \in TxId \ extra
      BY <2>1, <2>4, <2>5, <2>15 DEF extra, extraAfter
    <3>3. SumOver(Price, extraAfter) = Amount(id) + SumOver(Price, extra)
      BY <1>4, <3>2, PriceSum
    <3>4. Amount(id) \in Nat
      OBVIOUS
    <3> QED
      BY <1>3, <1>5, <1>6, <2>11, <3>1, <3>3, <3>4
  <2> QED
    BY <2>14, <2>15
<1>12. ASSUME NEW n \in Node, NEW id \in TxId, SettleDebit(n, id)
       PROVE  SupplyBound'
  <2> DEFINE m == MarkSettled(ledger[n], id)
  <2>1. /\ ledger' = [ledger EXCEPT ![n] = m]
        /\ UNCHANGED <<epoch, forgotten, everCredited, refused>>
    BY <1>12 DEF SettleDebit, historyVars
  <2>2. /\ ledger'[n] = m /\ \A k \in Node : k # n => ledger'[k] = ledger[k]
        /\ ledger[n] \in Ledgers(TxId)
    BY <1>0, <2>1
  <2>3. m.balance = ledger[n].balance
    BY <2>2, MarkSettledBooks
  <2>4. \A x, type : HasEntry(m, x, type) <=> HasEntry(ledger[n], x, type)
    BY <2>2, MarkSettledHistory
  <2> HIDE DEF m
  <2>5. after = Balances
    BY <2>2, <2>3 DEF after, Balances
  <2>6. under = UnderWay
    BY <2>1, <2>2, <2>4 DEF under, UnderWay
  <2> QED
    BY <1>7, <1>9, <2>1, <2>5, <2>6 DEF extra, extraAfter
<1>13. ASSUME NEW n \in Node, Restart(n) PROVE SupplyBound'
  <2>1. epoch'[n] # 0
    BY <1>0, <1>13 DEF Restart
  <2> QED
    BY <1>1, <2>1 DEF Quiet
<1>14. ASSUME NEW n \in Node, NEW id \in TxId, ReceiveIntent(n, id) PROVE SupplyBound'
  <2>1. UNCHANGED <<ledger, everCredited, refused, epoch>>
    BY <1>14 DEF ReceiveIntent
  <2>2. \A m \in Node : forgotten[m] \subseteq forgotten'[m]
    BY <1>0, <1>14 DEF ReceiveIntent
  <2>3. Quiet' => Quiet
    BY <2>1, <2>2 DEF Quiet
  <2> QED
    BY <1>8, <2>1, <2>3
<1>15. ASSUME UNCHANGED <<ledger, everCredited, refused, epoch, forgotten>>
       PROVE  SupplyBound'
  BY <1>8, <1>9, <1>15
<1>16. ASSUME NEW id \in TxId,
              \/ CreateTransferIntent(id) \/ RejectInsufficient(id) \/ SigningFails(id)
              \/ Publish(id) \/ PublishReturns(id)
       PROVE  SupplyBound'
  <2>1. UNCHANGED <<ledger, everCredited, refused, epoch, forgotten>>
    BY <1>16 DEF CreateTransferIntent, RejectInsufficient, SigningFails, Publish,
                 PublishReturns, historyVars
  <2> QED
    BY <1>15, <2>1
<1>17. ASSUME NEW n \in Node, NEW id \in TxId,
              StoreForRelay(n, id) \/ PublishReceipt(n, id) \/ ReceiveReceipt(n, id)
       PROVE  SupplyBound'
  <2>1. UNCHANGED <<ledger, everCredited, refused, epoch, forgotten>>
    BY <1>17 DEF StoreForRelay, PublishReceipt, ReceiveReceipt, historyVars
  <2> QED
    BY <1>15, <2>1
<1>18. ASSUME NEW n \in Node, NEW c \in ChainNonces[n], SyncFromChain(n, c)
       PROVE  SupplyBound'
  BY <1>15, <1>18 DEF SyncFromChain, historyVars
<1>19. CASE UNCHANGED vars
  BY <1>15, <1>19 DEF vars, historyVars
<1> QED
  BY <1>10, <1>11, <1>12, <1>13, <1>14, <1>16, <1>17, <1>18, <1>19 DEF Next

\* No money comes from nothing over the whole mesh, however large it is and whatever it
\* repeats, delays and reorders: what the balances hold beyond the opening supply is
\* what was paid with a debit that the sender had refused.
THEOREM SupplyIsKeptHolds == Spec => []SupplyIsKept
<1>1. Init => CreditsCounted /\ SupplyBound
  <2> SUFFICES ASSUME Init PROVE CreditsCounted /\ SupplyBound
    OBVIOUS
  <2>1. everCredited = {}
    BY DEF Init
  <2>2. CreditsCounted
    BY <2>1 DEF CreditsCounted
  <2>3. \A n \in Node : ledger[n].entries = <<>> /\ ledger[n].balance = Initial[n]
    BY DEF Init, EmptyLedger
  <2>4. \A n \in Node : \A x, type : ~HasEntry(ledger[n], x, type)
    BY <2>3 DEF HasEntry
  <2>5. UnderWay = {} /\ everCredited \cap refused = {}
    BY <2>1, <2>4, OrderType DEF UnderWay
  <2>6. SumOver(Balances, Node) = SumOver(Initial, Node)
    <3>1. \A n \in Node : Balances[n] = Initial[n]
      BY <2>3 DEF Balances
    <3> QED
      BY <3>1, FinitenessAssumption, SumSame
  <2>7. SumOver(Initial, Node) \in Nat
    BY FinitenessAssumption, InitialAssumption, SumType
  <2>8. SumOver(Price, UnderWay) = 0 /\ SumOver(Price, everCredited \cap refused) = 0
    BY <2>5, SumEmpty
  <2>9. SupplyBound
    BY <2>6, <2>7, <2>8 DEF SupplyBound
  <2> QED
    BY <2>2, <2>9
<1>2. TypeOK /\ ReceiveFlow /\ CreditsCounted /\ [Next]_vars => CreditsCounted'
  BY CreditsCountedNext
<1>3. TypeOK /\ SendFlow /\ ReceiveFlow /\ CreditedAtMostOnce /\ Accounted
      /\ CreditsCounted /\ SupplyBound /\ [Next]_vars => SupplyBound'
  BY SupplyNext
<1>4. TypeOK /\ SupplyBound => SupplyIsKept
  <2> SUFFICES ASSUME TypeOK, SupplyBound, Quiet
               PROVE  Total(Balances)
                        <= Total(Initial)
                           + MapThenSumSet(LAMBDA id : Amount(id), everCredited \cap refused)
    BY DEF SupplyIsKept, Quiet, Balances
  <2>1. everCredited \cap refused \in SUBSET TxId /\ UnderWay \in SUBSET TxId
    BY DEF TypeOK, UnderWay
  <2>2. /\ SumOver(Price, everCredited \cap refused) \in Nat
        /\ SumOver(Price, UnderWay) \in Nat
    BY <2>1, PriceSum
  <2>3. \A n \in Node : Balances[n] \in Nat
    BY DEF TypeOK, Balances, Ledgers
  <2>4. SumOver(Balances, Node) \in Nat /\ SumOver(Initial, Node) \in Nat
    BY <2>3, FinitenessAssumption, InitialAssumption, SumType
  <2>5. SumOver(Balances, Node)
          <= SumOver(Initial, Node) + SumOver(Price, everCredited \cap refused)
    BY <2>2, <2>4 DEF SupplyBound
  <2>6. Total(Balances) <= Total(Initial) + SumOver(Price, everCredited \cap refused)
    BY <2>5, TotalIsSum
  <2>7. MapThenSumSet(LAMBDA id : Amount(id), everCredited \cap refused)
          = SumOver(Price, everCredited \cap refused)
    BY <2>1, AmountIsPrice
  <2> QED
    BY <2>6, <2>7
<1>5. Spec => [](SendFlow /\ ReceiveFlow /\ CreditedAtMostOnce /\ Accounted)
  BY HistoryHolds, PTL
<1> QED
  BY <1>1, <1>2, <1>3, <1>4, <1>5, TypeCorrect, PTL DEF Spec
-----------------------------------------------------------------------------
(* Clocks and causes *)

Stamp(id) == intent[id].vectorClock
Below(c, d) == \A m \in Node : c[m] <= d[m]

\* A tick puts a clock strictly above all that was below it.
LEMMA TickAbove ==
    ASSUME NEW c \in Clocks, NEW d \in Clocks, NEW n \in Node, Below(c, d)
    PROVE  HappenedBefore(c, Increment(d, n)) /\ Below(c, Increment(d, n))
<1>1. \A m \in Node : c[m] \in Nat /\ d[m] \in Nat /\ c[m] <= d[m]
  BY DEF Clocks, Below
<1>2. Increment(d, n) = [m \in Node |-> IF m = n THEN d[m] + 1 ELSE d[m]]
  BY DEF Increment, Clocks
<1> QED
  BY <1>1, <1>2 DEF HappenedBefore, Below

\* A merge is above both clocks.
LEMMA MergeAbove ==
    ASSUME NEW c \in Clocks, NEW d \in Clocks
    PROVE  Below(c, Merge(c, d)) /\ Below(d, Merge(c, d))
<1>1. \A m \in Node : c[m] \in Nat /\ d[m] \in Nat
  BY DEF Clocks
<1> QED
  BY <1>1 DEF Merge, Below

LEMMA BelowTransitive ==
    ASSUME NEW c \in Clocks, NEW d \in Clocks, NEW e \in Clocks, Below(c, d), Below(d, e)
    PROVE  Below(c, e)
<1>1. ASSUME NEW m \in Node PROVE c[m] <= e[m]
  <2>1. c[m] \in Nat /\ d[m] \in Nat /\ e[m] \in Nat
    BY DEF Clocks
  <2>2. c[m] <= d[m] /\ d[m] <= e[m]
    BY DEF Below
  <2> QED
    BY <2>1, <2>2
<1> QED
  BY <1>1 DEF Below

LEMMA BeforeIsBelow ==
    ASSUME NEW c, NEW d, HappenedBefore(c, d)
    PROVE  Below(c, d)
BY DEF HappenedBefore, Below

\* Nothing happened before what it is above of.
LEMMA BeforeIsStrict ==
    ASSUME NEW c \in Clocks, NEW d \in Clocks, Below(c, d)
    PROVE  ~HappenedBefore(d, c)
<1>1. \A m \in Node : c[m] \in Nat /\ d[m] \in Nat
  BY DEF Clocks
<1> QED
  BY <1>1 DEF HappenedBefore, Below

LEMMA StampType ==
    ASSUME TypeOK
    PROVE  /\ \A id \in TxId : Stamp(id) \in Clocks /\ intent[id].nonce \in Nat
           /\ \A n \in Node : clock[n] \in Clocks /\ nonces[n] \in Nat
BY DEF TypeOK, Intents, Stamp

\* An intent exists from the first await of its call on.
Started ==
    \A id \in TxId :
        /\ call[id] = "idle" => ~Created(id)
        /\ call[id] = "signed" => Created(id)
        /\ call[id] = "signing" => Created(id)
        /\ id \in published => Created(id)

\* A step that neither stamps an intent nor touches a clock.
Still ==
    /\ UNCHANGED <<clock, known, causes, epoch, born>>
    /\ \A id \in TxId : /\ intent'[id].nonce = intent[id].nonce
                        /\ intent'[id].vectorClock = intent[id].vectorClock
    /\ \A n \in Node : nonces[n] <= nonces'[n]

\* What creating an intent does to the clock and the stamps.
LEMMA CreateEffect ==
    ASSUME TypeOK, NEW j \in TxId, CreateTransferIntent(j)
    PROVE  /\ From(j) \in Node
           /\ Created(j)' /\ intent'[j].nonce = nonces[From(j)] + 1
           /\ Stamp(j)' = Increment(clock[From(j)], From(j))
           /\ \A i \in TxId \ {j} : intent'[i] = intent[i] /\ call'[i] = call[i]
           /\ \A i \in TxId \ {j} : Created(i)' = Created(i) /\ Stamp(i)' = Stamp(i)
           /\ call'[j] = "signing" /\ published' = published /\ epoch' = epoch
           /\ \A n \in Node \ {From(j)} : /\ clock'[n] = clock[n] /\ known'[n] = known[n]
                                          /\ nonces'[n] = nonces[n]
           /\ clock'[From(j)] = Increment(clock[From(j)], From(j))
           /\ known'[From(j)] = known[From(j)] \cup {j}
           /\ nonces'[From(j)] = nonces[From(j)] + 1
           /\ causes'[j] = known[From(j)] /\ born'[j] = epoch[From(j)]
           /\ \A i \in TxId \ {j} : causes'[i] = causes[i] /\ born'[i] = born[i]
<1>1. From(j) \in Node /\ nonces[From(j)] \in Nat
  BY OrderType DEF TypeOK
<1>2. /\ intent \in [TxId -> Intents] /\ call \in [TxId -> CallStates]
      /\ clock \in [Node -> Clocks] /\ known \in [Node -> SUBSET TxId]
      /\ nonces \in [Node -> Nat] /\ causes \in [TxId -> SUBSET TxId]
      /\ born \in [TxId -> Nat]
  BY DEF TypeOK
<1>3. intent'[j] = [nonce |-> nonces[From(j)] + 1,
                    vectorClock |-> Increment(clock[From(j)], From(j)), sigOk |-> FALSE]
  BY <1>2 DEF CreateTransferIntent, NextNonce
<1>4. \A i \in TxId \ {j} : intent'[i] = intent[i] /\ call'[i] = call[i]
  BY <1>2 DEF CreateTransferIntent
<1>5. Created(j)' /\ intent'[j].nonce = nonces[From(j)] + 1
  BY <1>1, <1>3 DEF Created
<1>6. Stamp(j)' = Increment(clock[From(j)], From(j))
  BY <1>3 DEF Stamp
<1>7. \A i \in TxId \ {j} : Created(i)' = Created(i) /\ Stamp(i)' = Stamp(i)
  BY <1>4 DEF Created, Stamp
<1>8. /\ call'[j] = "signing" /\ published' = published /\ epoch' = epoch
      /\ \A n \in Node \ {From(j)} : /\ clock'[n] = clock[n] /\ known'[n] = known[n]
                                     /\ nonces'[n] = nonces[n]
      /\ clock'[From(j)] = Increment(clock[From(j)], From(j))
      /\ known'[From(j)] = known[From(j)] \cup {j}
      /\ nonces'[From(j)] = nonces[From(j)] + 1
      /\ causes'[j] = known[From(j)] /\ born'[j] = epoch[From(j)]
      /\ \A i \in TxId \ {j} : causes'[i] = causes[i] /\ born'[i] = born[i]
  BY <1>1, <1>2 DEF CreateTransferIntent, NextNonce
<1> QED
  BY <1>1, <1>4, <1>5, <1>6, <1>7, <1>8

\* Every other step is still, or merges a clock, or is a restart.
LEMMA ClockSteps ==
    ASSUME TypeOK, [Next]_vars
    PROVE  \/ \E id \in TxId : CreateTransferIntent(id)
           \/ \E n \in Node, id \in TxId : ReceiveIntent(n, id)
           \/ \E n \in Node : Restart(n)
           \/ Still
<1> USE DEF nonceVars, callVars, receiveVars, historyVars
<1>1. \A n \in Node : nonces[n] \in Nat
  BY DEF TypeOK
<1>2. ASSUME NEW id \in TxId, RejectInsufficient(id) PROVE Still
  <2>1. From(id) \in Node /\ nonces \in [Node -> Nat]
    BY OrderType DEF TypeOK
  <2>2. \A n \in Node : nonces'[n] = IF n = From(id) THEN nonces[n] + 1 ELSE nonces[n]
    BY <1>2, <2>1 DEF RejectInsufficient, NextNonce
  <2>3. UNCHANGED <<clock, known, causes, epoch, born, intent>>
    BY <1>2 DEF RejectInsufficient
  <2> QED
    BY <1>1, <2>2, <2>3 DEF Still
<1>3. ASSUME NEW id \in TxId, NEW sigOk \in BOOLEAN, FinishSigning(id, sigOk) PROVE Still
  <2>1. intent \in [TxId -> Intents]
    BY DEF TypeOK
  <2>2. \A i \in TxId : /\ intent'[i].nonce = intent[i].nonce
                        /\ intent'[i].vectorClock = intent[i].vectorClock
    BY <1>3, <2>1 DEF FinishSigning, Intents
  <2>3. UNCHANGED <<nonces, clock, known, causes, epoch, born>>
    BY <1>3 DEF FinishSigning
  <2> QED
    BY <1>1, <2>2, <2>3 DEF Still
<1>4. ASSUME NEW n \in Node, NEW c \in ChainNonces[n], SyncFromChain(n, c) PROVE Still
  <2>1. nonces \in [Node -> Nat] /\ c \in Nat
    BY BoundsAssumption DEF TypeOK
  <2>2. \A m \in Node : nonces[m] <= nonces'[m]
    BY <1>1, <1>4, <2>1 DEF SyncFromChain, EffectiveNonce
  <2>3. UNCHANGED <<clock, known, causes, epoch, born, intent>>
    BY <1>4 DEF SyncFromChain
  <2> QED
    BY <2>2, <2>3 DEF Still
<1>5. ASSUME UNCHANGED <<nonces, clock, known, causes, epoch, born, intent>> PROVE Still
  BY <1>1, <1>5 DEF Still
<1>6. ASSUME NEW id \in TxId, SigningFails(id) \/ Publish(id) \/ PublishReturns(id)
      PROVE Still
  BY <1>5, <1>6 DEF SigningFails, Publish, PublishReturns
<1>7. ASSUME NEW n \in Node, NEW id \in TxId,
             CreditIntent(n, id) \/ StoreForRelay(n, id) \/ PublishReceipt(n, id)
      PROVE Still
  BY <1>5, <1>7 DEF CreditIntent, StoreForRelay, PublishReceipt
<1>8. ASSUME NEW n \in Node, NEW id \in TxId, ReceiveReceipt(n, id) \/ SettleDebit(n, id)
      PROVE Still
  BY <1>5, <1>8 DEF ReceiveReceipt, SettleDebit
<1>9. CASE UNCHANGED vars
  BY <1>5, <1>9 DEF vars
<1> QED
  BY <1>2, <1>3, <1>4, <1>6, <1>7, <1>8, <1>9 DEF Next

LEMMA StartedNext == TypeOK /\ Started /\ [Next]_vars => Started'
<1> SUFFICES ASSUME TypeOK, Started, [Next]_vars PROVE Started'
  OBVIOUS
<1>1. /\ call \in [TxId -> CallStates] /\ intent \in [TxId -> Intents]
      /\ published \in SUBSET TxId
  BY DEF TypeOK
<1> USE DEF nonceVars, callVars, receiveVars, historyVars
<1>2. ASSUME NEW j \in TxId, CreateTransferIntent(j) PROVE Started'
  BY <1>2, CreateEffect DEF Started
<1>3. ASSUME NEW j \in TxId, RejectInsufficient(j) \/ SigningFails(j) PROVE Started'
  BY <1>1, <1>3 DEF Started, RejectInsufficient, SigningFails, Created
<1>4. ASSUME NEW j \in TxId, NEW sigOk \in BOOLEAN, FinishSigning(j, sigOk) PROVE Started'
  <2>1. \A i \in TxId : intent'[i].nonce = intent[i].nonce
    BY <1>1, <1>4 DEF FinishSigning, Intents
  <2>2. /\ \A i \in TxId : Created(i)' = Created(i)
        /\ call[j] = "signing" /\ call'[j] = "signed" /\ published' = published
        /\ \A i \in TxId \ {j} : call'[i] = call[i]
    BY <1>1, <1>4, <2>1 DEF FinishSigning, Created
  <2> QED
    BY <2>2 DEF Started
<1>5. ASSUME NEW j \in TxId, Publish(j) \/ PublishReturns(j) PROVE Started'
  BY <1>1, <1>5 DEF Started, Publish, PublishReturns, Created
<1>6. ASSUME NEW n \in Node, Restart(n) PROVE Started'
  BY <1>1, <1>6 DEF Started, Restart, Created
<1>7. ASSUME UNCHANGED callVars PROVE Started'
  BY <1>7 DEF Started, Created
<1>8. ASSUME NEW n \in Node, NEW id \in TxId,
             ReceiveIntent(n, id) \/ CreditIntent(n, id) \/ StoreForRelay(n, id)
                \/ PublishReceipt(n, id)
      PROVE Started'
  BY <1>7, <1>8 DEF ReceiveIntent, CreditIntent, StoreForRelay, PublishReceipt
<1>9. ASSUME NEW n \in Node, NEW id \in TxId, ReceiveReceipt(n, id) \/ SettleDebit(n, id)
      PROVE Started'
  BY <1>7, <1>9 DEF ReceiveReceipt, SettleDebit
<1>10. ASSUME NEW n \in Node, NEW c \in ChainNonces[n], SyncFromChain(n, c) PROVE Started'
  BY <1>7, <1>10 DEF SyncFromChain
<1>11. CASE UNCHANGED vars
  BY <1>7, <1>11 DEF vars
<1> QED
  BY <1>2, <1>3, <1>4, <1>5, <1>6, <1>8, <1>9, <1>10, <1>11 DEF Next

\* What verifying an intent does to the clock of the device.
LEMMA ReceiveEffect ==
    ASSUME TypeOK, Started, NEW n \in Node, NEW id \in TxId, ReceiveIntent(n, id)
    PROVE  /\ Created(id)
           /\ UNCHANGED <<intent, nonces, causes, epoch, born>>
           /\ \A m \in Node \ {n} : clock'[m] = clock[m] /\ known'[m] = known[m]
           /\ \/ clock'[n] = clock[n] /\ known'[n] = known[n]
              \/ /\ clock'[n] = Merge(clock[n], Stamp(id))
                 /\ known'[n] = known[n] \cup {id} \cup causes[id]
<1> USE DEF callVars
<1>1. clock \in [Node -> Clocks] /\ known \in [Node -> SUBSET TxId]
  BY DEF TypeOK
<1>2. Created(id)
  BY DEF Started, ReceiveIntent, IntentArrives
<1>3. UNCHANGED <<intent, nonces, causes, epoch, born>>
  BY DEF ReceiveIntent
<1>4. \A m \in Node \ {n} : clock'[m] = clock[m] /\ known'[m] = known[m]
  BY <1>1 DEF ReceiveIntent
<1>5. CASE intent[id].sigOk
  <2>1. clock'[n] = Merge(clock[n], Stamp(id))
    BY <1>1, <1>5 DEF ReceiveIntent, ClockVerified, Stamp
  <2>2. known'[n] = known[n] \cup {id} \cup causes[id]
    BY <1>1, <1>5 DEF ReceiveIntent
  <2> QED
    BY <1>2, <1>3, <1>4, <2>1, <2>2
<1>6. CASE ~intent[id].sigOk
  <2>1. clock'[n] = clock[n] /\ known'[n] = known[n]
    BY <1>1, <1>6 DEF ReceiveIntent, ClockVerified
  <2> QED
    BY <1>2, <1>3, <1>4, <2>1
<1> QED
  BY <1>5, <1>6

\* What a restart does to the clock of the device.
LEMMA RestartEffect ==
    ASSUME TypeOK, NEW n \in Node, Restart(n)
    PROVE  /\ UNCHANGED <<intent, causes, born>>
           /\ \A m \in Node \ {n} : /\ clock'[m] = clock[m] /\ known'[m] = known[m]
                                    /\ nonces'[m] = nonces[m] /\ epoch'[m] = epoch[m]
           /\ known'[n] = {} /\ epoch'[n] = epoch[n] + 1
BY DEF TypeOK, Restart

\* The inductive invariant of the causes: what a device knows is below its clock.
KnownIsBelow ==
    \A n \in Node : \A c \in known[n] : Created(c) /\ Below(Stamp(c), clock[n])

CausesAreBefore ==
    \A id \in TxId : \A c \in causes[id] :
        Created(c) /\ Created(id) /\ HappenedBefore(Stamp(c), Stamp(id))

LEMMA CausesNext ==
    TypeOK /\ Started /\ KnownIsBelow /\ CausesAreBefore /\ [Next]_vars
        => KnownIsBelow' /\ CausesAreBefore'
<1> SUFFICES ASSUME TypeOK, Started, KnownIsBelow, CausesAreBefore, [Next]_vars
             PROVE  KnownIsBelow' /\ CausesAreBefore'
  OBVIOUS
<1>1. /\ \A n \in Node : known[n] \in SUBSET TxId /\ clock[n] \in Clocks
      /\ \A i \in TxId : causes[i] \in SUBSET TxId /\ Stamp(i) \in Clocks
  BY StampType DEF TypeOK
<1>2. ASSUME NEW j \in TxId, CreateTransferIntent(j)
      PROVE  KnownIsBelow' /\ CausesAreBefore'
  <2> DEFINE s == From(j)
             tick == Increment(clock[s], s)
  <2>1. /\ s \in Node /\ Created(j)' /\ Stamp(j)' = tick
        /\ \A i \in TxId \ {j} : Created(i)' = Created(i) /\ Stamp(i)' = Stamp(i)
        /\ \A n \in Node \ {s} : clock'[n] = clock[n] /\ known'[n] = known[n]
        /\ clock'[s] = tick /\ known'[s] = known[s] \cup {j}
        /\ causes'[j] = known[s]
        /\ \A i \in TxId \ {j} : causes'[i] = causes[i]
    BY <1>2, CreateEffect
  <2>2. call[j] = "idle"
    BY <1>2 DEF CreateTransferIntent
  <2>3. ~Created(j)
    BY <2>2 DEF Started
  <2>4. /\ \A n \in Node : known[n] \in SUBSET (TxId \ {j})
        /\ \A i \in TxId : causes[i] \in SUBSET (TxId \ {j})
        /\ causes[j] = {}
    BY <1>1, <2>3 DEF KnownIsBelow, CausesAreBefore
  <2>5. tick \in Clocks
    BY <1>1, <2>1, ClockType
  <2>6. \A c \in known[s] : HappenedBefore(Stamp(c), tick) /\ Below(Stamp(c), tick)
    BY <1>1, <2>1, TickAbove DEF KnownIsBelow
  <2>7. Below(tick, tick)
    BY <2>5 DEF Below, Clocks
  <2>8. ASSUME NEW n \in Node, NEW c \in known'[n]
        PROVE  Created(c)' /\ Below(Stamp(c), clock[n])'
    <3>1. CASE n # s
      <4>1. c \in known[n] /\ c \in TxId \ {j} /\ clock'[n] = clock[n]
        BY <2>1, <2>4, <2>8, <3>1
      <4> QED
        BY <2>1, <4>1 DEF KnownIsBelow, Below
    <3>2. CASE n = s /\ c = j
      BY <2>1, <2>7, <3>2 DEF Below
    <3>3. CASE n = s /\ c # j
      <4>1. c \in known[s] /\ c \in TxId \ {j}
        BY <2>1, <2>4, <2>8, <3>3
      <4>2. Created(c)' /\ Stamp(c)' = Stamp(c) /\ clock'[n] = tick
        BY <2>1, <4>1, <3>3 DEF KnownIsBelow
      <4> QED
        BY <2>6, <4>1, <4>2 DEF Below
    <3> QED
      BY <3>1, <3>2, <3>3
  <2>9. ASSUME NEW i \in TxId, NEW c \in causes'[i]
        PROVE  Created(c)' /\ Created(i)' /\ HappenedBefore(Stamp(c), Stamp(i))'
    <3>1. CASE i = j
      <4>1. c \in known[s] /\ c \in TxId \ {j}
        BY <2>1, <2>4, <2>9, <3>1
      <4>2. Created(c)' /\ Stamp(c)' = Stamp(c) /\ Stamp(i)' = tick /\ Created(i)'
        BY <2>1, <4>1, <3>1 DEF KnownIsBelow
      <4> QED
        BY <2>6, <4>1, <4>2 DEF HappenedBefore
    <3>2. CASE i # j
      <4>1. c \in causes[i] /\ c \in TxId \ {j} /\ i \in TxId \ {j}
        BY <2>1, <2>4, <2>9, <3>2
      <4>2. /\ Created(c)' = Created(c) /\ Stamp(c)' = Stamp(c)
            /\ Created(i)' = Created(i) /\ Stamp(i)' = Stamp(i)
        BY <2>1, <4>1
      <4> QED
        BY <4>1, <4>2 DEF CausesAreBefore, HappenedBefore
    <3> QED
      BY <3>1, <3>2
  <2> QED
    BY <2>8, <2>9 DEF KnownIsBelow, CausesAreBefore
<1>3. ASSUME NEW n \in Node, NEW id \in TxId, ReceiveIntent(n, id)
      PROVE  KnownIsBelow' /\ CausesAreBefore'
  <2>1. /\ Created(id)
        /\ UNCHANGED <<intent, causes>>
        /\ \A m \in Node \ {n} : clock'[m] = clock[m] /\ known'[m] = known[m]
        /\ \/ clock'[n] = clock[n] /\ known'[n] = known[n]
           \/ /\ clock'[n] = Merge(clock[n], Stamp(id))
              /\ known'[n] = known[n] \cup {id} \cup causes[id]
    BY <1>3, ReceiveEffect
  <2>2. CausesAreBefore'
    BY <2>1 DEF CausesAreBefore, Created, Stamp
  <2>3. CASE clock'[n] = clock[n] /\ known'[n] = known[n]
    <3>1. \A m \in Node : clock'[m] = clock[m] /\ known'[m] = known[m]
      BY <2>1, <2>3
    <3> QED
      BY <2>1, <2>2, <3>1 DEF KnownIsBelow, Created, Stamp, Below
  <2>4. CASE /\ clock'[n] = Merge(clock[n], Stamp(id))
             /\ known'[n] = known[n] \cup {id} \cup causes[id]
    <3> DEFINE merged == Merge(clock[n], Stamp(id))
    <3>1. /\ merged \in Clocks /\ Below(clock[n], merged) /\ Below(Stamp(id), merged)
      BY <1>1, MergeAbove, ClockType
    <3>2. ASSUME NEW c \in known[n] PROVE Created(c) /\ Below(Stamp(c), merged)
      <4>1. c \in TxId /\ Created(c) /\ Below(Stamp(c), clock[n])
        BY <1>1 DEF KnownIsBelow
      <4> QED
        BY <1>1, <3>1, <4>1, BelowTransitive
    <3>3. ASSUME NEW c \in causes[id] PROVE Created(c) /\ Below(Stamp(c), merged)
      <4>1. c \in TxId /\ Created(c) /\ HappenedBefore(Stamp(c), Stamp(id))
        BY <1>1 DEF CausesAreBefore
      <4>2. Below(Stamp(c), Stamp(id))
        BY <4>1, BeforeIsBelow
      <4> QED
        BY <1>1, <3>1, <4>1, <4>2, BelowTransitive
    <3>4. ASSUME NEW m \in Node, NEW c \in known'[m]
          PROVE  Created(c) /\ Below(Stamp(c), clock'[m])
      <4>1. CASE m # n
        BY <2>1, <3>4, <4>1 DEF KnownIsBelow
      <4>2. CASE m = n
        BY <2>1, <2>4, <3>1, <3>2, <3>3, <3>4, <4>2
      <4> QED
        BY <4>1, <4>2
    <3> QED
      BY <2>1, <2>2, <3>4 DEF KnownIsBelow, Created, Stamp, Below
  <2> QED
    BY <2>1, <2>3, <2>4
<1>4. ASSUME NEW n \in Node, Restart(n) PROVE KnownIsBelow' /\ CausesAreBefore'
  <2>1. /\ UNCHANGED <<intent, causes>> /\ known'[n] = {}
        /\ \A m \in Node \ {n} : clock'[m] = clock[m] /\ known'[m] = known[m]
    BY <1>4, RestartEffect
  <2> QED
    BY <2>1 DEF KnownIsBelow, CausesAreBefore, Created, Stamp, Below
<1>5. CASE Still
  <2>1. \A i \in TxId : Created(i)' = Created(i) /\ Stamp(i)' = Stamp(i)
    BY <1>5 DEF Still, Created, Stamp
  <2>2. /\ \A n \in Node : known'[n] = known[n] /\ clock'[n] = clock[n]
        /\ \A i \in TxId : causes'[i] = causes[i]
    BY <1>5 DEF Still
  <2>3. ASSUME NEW n \in Node, NEW c \in known'[n]
        PROVE  Created(c)' /\ Below(Stamp(c), clock[n])'
    <3>1. c \in known[n] /\ c \in TxId
      BY <1>1, <2>2
    <3> QED
      BY <2>1, <2>2, <3>1 DEF KnownIsBelow, Below
  <2>4. ASSUME NEW i \in TxId, NEW c \in causes'[i]
        PROVE  Created(c)' /\ Created(i)' /\ HappenedBefore(Stamp(c), Stamp(i))'
    <3>1. c \in causes[i] /\ c \in TxId
      BY <1>1, <2>2
    <3> QED
      BY <2>1, <3>1 DEF CausesAreBefore, HappenedBefore
  <2> QED
    BY <2>3, <2>4 DEF KnownIsBelow, CausesAreBefore
<1> QED
  BY <1>2, <1>3, <1>4, <1>5, ClockSteps

LEMMA StartedInit == Init => Started
BY DEF Init, Started, Created, NoIntent

\* What the sender had created or verified happened before its intent, whatever
\* the mesh delivers, the chain answers and the devices lose
\* (TransactionManager.ts:100, 224-225).
THEOREM CausesHappenedBeforeHolds == Spec => []CausesHappenedBefore
<1>1. Init => KnownIsBelow /\ CausesAreBefore
  BY DEF Init, KnownIsBelow, CausesAreBefore
<1>2. KnownIsBelow /\ CausesAreBefore => CausesHappenedBefore
  BY DEF CausesAreBefore, CausesHappenedBefore, Stamp
<1> QED
  BY <1>1, <1>2, StartedInit, StartedNext, CausesNext, TypeCorrect, PTL DEF Spec

\* The inductive invariant of the nonces: what a sender stamped since its last
\* restart is not above its counter and its clock, and is in one order for both.
StampedBelow ==
    \A i \in TxId :
        Created(i) =>
            /\ born[i] <= epoch[From(i)]
            /\ born[i] = epoch[From(i)] => /\ intent[i].nonce <= nonces[From(i)]
                                           /\ Below(Stamp(i), clock[From(i)])

Precedes(i, j) == intent[i].nonce < intent[j].nonce /\ HappenedBefore(Stamp(i), Stamp(j))

OneOrder ==
    \A i, j \in TxId :
        /\ i # j /\ From(i) = From(j) /\ born[i] = born[j]
        /\ Created(i) /\ Created(j)
        => Precedes(i, j) \/ Precedes(j, i)

\* The order that the invariant speaks of is the one of the property.
LEMMA OneOrderFollows == TypeOK /\ OneOrder => NonceFollowsClock
<1> SUFFICES ASSUME TypeOK, OneOrder,
                    NEW i \in TxId, NEW j \in TxId,
                    i # j, From(i) = From(j), born[i] = born[j], Created(i), Created(j)
             PROVE  /\ intent[i].nonce # intent[j].nonce
                    /\ intent[i].nonce < intent[j].nonce
                          <=> HappenedBefore(Stamp(i), Stamp(j))
  BY DEF NonceFollowsClock, Stamp
<1>1. /\ intent[i].nonce \in Nat /\ intent[j].nonce \in Nat
      /\ Stamp(i) \in Clocks /\ Stamp(j) \in Clocks
  BY StampType
<1>2. CASE Precedes(i, j)
  BY <1>1, <1>2 DEF Precedes
<1>3. CASE Precedes(j, i)
  <2>1. Below(Stamp(j), Stamp(i))
    BY <1>3, BeforeIsBelow DEF Precedes
  <2>2. ~HappenedBefore(Stamp(i), Stamp(j))
    BY <1>1, <2>1, BeforeIsStrict
  <2> QED
    BY <1>1, <1>3, <2>2 DEF Precedes
<1> QED
  BY <1>2, <1>3 DEF OneOrder

LEMMA NonceNext ==
    TypeOK /\ Started /\ StampedBelow /\ OneOrder /\ [Next]_vars
        => StampedBelow' /\ OneOrder'
<1> SUFFICES ASSUME TypeOK, Started, StampedBelow, OneOrder, [Next]_vars
             PROVE  StampedBelow' /\ OneOrder'
  OBVIOUS
<1>1. /\ \A n \in Node : clock[n] \in Clocks /\ nonces[n] \in Nat /\ epoch[n] \in Nat
      /\ \A i \in TxId : /\ Stamp(i) \in Clocks /\ intent[i].nonce \in Nat
                         /\ born[i] \in Nat /\ From(i) \in Node
  BY StampType, OrderType DEF TypeOK
<1>2. ASSUME NEW j \in TxId, CreateTransferIntent(j) PROVE StampedBelow' /\ OneOrder'
  <2> DEFINE s == From(j)
             tick == Increment(clock[s], s)
  <2>1. /\ s \in Node /\ Created(j)' /\ Stamp(j)' = tick
        /\ intent'[j].nonce = nonces[s] + 1 /\ born'[j] = epoch[s]
        /\ \A i \in TxId \ {j} : /\ Created(i)' = Created(i) /\ Stamp(i)' = Stamp(i)
                                 /\ intent'[i] = intent[i] /\ born'[i] = born[i]
        /\ \A n \in Node \ {s} : clock'[n] = clock[n] /\ nonces'[n] = nonces[n]
        /\ clock'[s] = tick /\ nonces'[s] = nonces[s] + 1 /\ epoch' = epoch
    BY <1>2, CreateEffect
  <2>2. tick \in Clocks
    BY <1>1, <2>1, ClockType
  <2>3. Below(tick, tick)
    BY <2>2 DEF Below, Clocks
  <2>4. ASSUME NEW i \in TxId \ {j}, Created(i), From(i) = s, born[i] = epoch[s]
        PROVE  /\ intent[i].nonce < nonces[s] + 1
               /\ HappenedBefore(Stamp(i), tick) /\ Below(Stamp(i), tick)
    <3>1. intent[i].nonce <= nonces[s] /\ Below(Stamp(i), clock[s])
      BY <2>4 DEF StampedBelow
    <3> QED
      BY <1>1, <2>1, <3>1, TickAbove
  <2>5. ASSUME NEW i \in TxId, Created(i)'
        PROVE  /\ born'[i] <= epoch'[From(i)]
               /\ born'[i] = epoch'[From(i)] => /\ intent'[i].nonce <= nonces'[From(i)]
                                                /\ Below(Stamp(i), clock[From(i)])'
    <3>1. CASE i = j
      BY <1>1, <2>1, <2>3, <3>1 DEF Below
    <3>2. CASE i # j /\ From(i) = s
      BY <1>1, <2>1, <2>4, <2>5, <3>2 DEF StampedBelow, Below
    <3>3. CASE i # j /\ From(i) # s
      BY <1>1, <2>1, <2>5, <3>3 DEF StampedBelow, Below
    <3> QED
      BY <3>1, <3>2, <3>3
  <2>6. ASSUME NEW i \in TxId \ {j}, Created(i), From(i) = s, born[i] = epoch[s]
        PROVE  Precedes(i, j)'
    BY <2>1, <2>4, <2>6 DEF Precedes, HappenedBefore
  <2>7. ASSUME NEW i \in TxId, NEW k \in TxId, i # k, From(i) = From(k),
               born'[i] = born'[k], Created(i)', Created(k)'
        PROVE  Precedes(i, k)' \/ Precedes(k, i)'
    <3>1. CASE i = j
      BY <2>1, <2>6, <2>7, <3>1
    <3>2. CASE k = j
      BY <2>1, <2>6, <2>7, <3>2
    <3>3. CASE i # j /\ k # j
      <4>1. Precedes(i, k) \/ Precedes(k, i)
        BY <2>1, <2>7, <3>3 DEF OneOrder
      <4> QED
        BY <2>1, <3>3, <4>1 DEF Precedes, HappenedBefore
    <3> QED
      BY <3>1, <3>2, <3>3
  <2> QED
    BY <2>5, <2>7 DEF StampedBelow, OneOrder
<1>3. ASSUME \A i \in TxId : /\ Created(i)' = Created(i) /\ Stamp(i)' = Stamp(i)
                             /\ intent'[i].nonce = intent[i].nonce,
             born' = born
      PROVE  OneOrder'
  BY <1>3 DEF OneOrder, Precedes, HappenedBefore
<1>4. ASSUME NEW n \in Node, NEW id \in TxId, ReceiveIntent(n, id)
      PROVE  StampedBelow' /\ OneOrder'
  <2>1. /\ UNCHANGED <<intent, nonces, epoch, born>>
        /\ \A m \in Node \ {n} : clock'[m] = clock[m]
        /\ clock'[n] = clock[n] \/ clock'[n] = Merge(clock[n], Stamp(id))
    BY <1>4, ReceiveEffect
  <2>2. \A i \in TxId : /\ Created(i)' = Created(i) /\ Stamp(i)' = Stamp(i)
                        /\ intent'[i].nonce = intent[i].nonce
    BY <2>1 DEF Created, Stamp
  <2>3. ASSUME NEW m \in Node, NEW c \in Clocks, Below(c, clock[m])
        PROVE  Below(c, clock'[m])
    <3>1. CASE clock'[m] = clock[m]
      BY <2>3, <3>1
    <3>2. CASE m = n /\ clock'[n] = Merge(clock[n], Stamp(id))
      <4>1. Below(clock[n], clock'[n]) /\ clock'[n] \in Clocks
        BY <1>1, <3>2, MergeAbove, ClockType
      <4> QED
        BY <1>1, <2>3, <3>2, <4>1, BelowTransitive
    <3> QED
      BY <2>1, <3>1, <3>2
  <2>4. ASSUME NEW i \in TxId, Created(i)'
        PROVE  /\ born'[i] <= epoch'[From(i)]
               /\ born'[i] = epoch'[From(i)] => /\ intent'[i].nonce <= nonces'[From(i)]
                                                /\ Below(Stamp(i), clock[From(i)])'
    <3>1. /\ born[i] <= epoch[From(i)]
          /\ born[i] = epoch[From(i)] => /\ intent[i].nonce <= nonces[From(i)]
                                         /\ Below(Stamp(i), clock[From(i)])
      BY <2>2, <2>4 DEF StampedBelow
    <3>2. Below(Stamp(i), clock[From(i)]) => Below(Stamp(i), clock'[From(i)])
      BY <1>1, <2>3
    <3> QED
      BY <2>1, <2>2, <3>1, <3>2 DEF Below
  <2> QED
    BY <1>3, <2>1, <2>2, <2>4 DEF StampedBelow
<1>5. ASSUME NEW n \in Node, Restart(n) PROVE StampedBelow' /\ OneOrder'
  <2>1. /\ UNCHANGED <<intent, born>> /\ epoch'[n] = epoch[n] + 1
        /\ \A m \in Node \ {n} : /\ clock'[m] = clock[m] /\ nonces'[m] = nonces[m]
                                 /\ epoch'[m] = epoch[m]
    BY <1>5, RestartEffect
  <2>2. \A i \in TxId : /\ Created(i)' = Created(i) /\ Stamp(i)' = Stamp(i)
                        /\ intent'[i].nonce = intent[i].nonce
    BY <2>1 DEF Created, Stamp
  <2>3. ASSUME NEW i \in TxId, Created(i)'
        PROVE  /\ born'[i] <= epoch'[From(i)]
               /\ born'[i] = epoch'[From(i)] => /\ intent'[i].nonce <= nonces'[From(i)]
                                                /\ Below(Stamp(i), clock[From(i)])'
    <3>1. CASE From(i) = n
      BY <1>1, <2>1, <2>2, <2>3, <3>1 DEF StampedBelow
    <3>2. CASE From(i) # n
      BY <1>1, <2>1, <2>2, <2>3, <3>2 DEF StampedBelow, Below
    <3> QED
      BY <3>1, <3>2
  <2> QED
    BY <1>3, <2>1, <2>2, <2>3 DEF StampedBelow
<1>6. CASE Still
  <2>1. \A i \in TxId : /\ Created(i)' = Created(i) /\ Stamp(i)' = Stamp(i)
                        /\ intent'[i].nonce = intent[i].nonce
    BY <1>6 DEF Still, Created, Stamp
  <2>2. /\ UNCHANGED <<clock, epoch, born>>
        /\ \A n \in Node : nonces[n] <= nonces'[n]
    BY <1>6 DEF Still
  <2>3. \A n \in Node : nonces'[n] \in Nat
    BY NextType DEF TypeOK
  <2>4. StampedBelow'
    BY <1>1, <2>1, <2>2, <2>3 DEF StampedBelow, Below
  <2> QED
    BY <1>3, <2>1, <2>2, <2>4
<1> QED
  BY <1>2, <1>4, <1>5, <1>6, ClockSteps

\* The intents of one sender between two restarts have one order, in their nonces
\* and in their clocks, though a refused send takes a nonce without a tick and the
\* chain moves the nonce (TransactionManager.ts:92-100, NonceManager.ts:49-58).
THEOREM NonceFollowsClockHolds == Spec => []NonceFollowsClock
<1>1. Init => StampedBelow /\ OneOrder
  BY DEF Init, StampedBelow, OneOrder, Created, NoIntent
<1> QED
  BY <1>1, StartedInit, StartedNext, NonceNext, OneOrderFollows, TypeCorrect, PTL DEF Spec

\* The inductive invariant of the other half: a device's own component is the
\* largest of its kind anywhere, so a component that reaches a stamp's own shows
\* that the intent is known.
NoRestart == \A n \in Node : epoch[n] = 0

OwnIsLargest ==
    \A m \in Node :
        /\ \A n \in Node : clock[n][m] <= clock[m][m]
        /\ \A i \in TxId : Created(i) => Stamp(i)[m] <= clock[m][m]

ReachedIsKnown ==
    \A i \in TxId : Created(i) =>
        \A n \in Node : Stamp(i)[From(i)] <= clock[n][From(i)] => i \in known[n]

ReachedIsCause ==
    \A i, j \in TxId :
        /\ i # j /\ Created(i) /\ Created(j)
        /\ Stamp(i)[From(i)] <= Stamp(j)[From(i)]
        => i \in causes[j]

Causal == OwnIsLargest /\ ReachedIsKnown /\ ReachedIsCause

LEMMA TickComponents ==
    ASSUME NEW c \in Clocks, NEW n \in Node, NEW m \in Node
    PROVE  Increment(c, n)[m] = IF m = n THEN c[m] + 1 ELSE c[m]
BY DEF Increment, Clocks

LEMMA MergeComponents ==
    ASSUME NEW c \in Clocks, NEW d \in Clocks, NEW m \in Node
    PROVE  /\ Merge(c, d)[m] = c[m] \/ Merge(c, d)[m] = d[m]
           /\ c[m] <= Merge(c, d)[m]
BY DEF Merge, Clocks

LEMMA CausalFollows == TypeOK /\ (NoRestart => Causal) => HappenedBeforeIsCausal
<1> SUFFICES ASSUME TypeOK, NoRestart, Causal, NEW i \in TxId, NEW j \in TxId,
                    Created(i), Created(j), HappenedBefore(Stamp(i), Stamp(j))
             PROVE  i \in causes[j]
  BY DEF HappenedBeforeIsCausal, NoRestart, Stamp
<1>1. Stamp(i) \in Clocks /\ Stamp(j) \in Clocks /\ From(i) \in Node
  BY StampType, OrderType
<1>2. Below(Stamp(i), Stamp(j)) /\ ~Below(Stamp(j), Stamp(i))
  BY <1>1, BeforeIsBelow, BeforeIsStrict
<1>3. i # j
  BY <1>2
<1> QED
  BY <1>1, <1>2, <1>3 DEF Causal, ReachedIsCause, Below

LEMMA CreateCausal ==
    ASSUME TypeOK, Started, Causal, NEW j \in TxId, CreateTransferIntent(j)
    PROVE  Causal'
<1> DEFINE s == From(j)
           tick == Increment(clock[s], s)
<1>1. /\ s \in Node /\ Created(j)' /\ Stamp(j)' = tick /\ causes'[j] = known[s]
      /\ \A i \in TxId \ {j} : /\ Created(i)' = Created(i) /\ Stamp(i)' = Stamp(i)
                               /\ causes'[i] = causes[i]
      /\ \A n \in Node \ {s} : clock'[n] = clock[n] /\ known'[n] = known[n]
      /\ clock'[s] = tick /\ known'[s] = known[s] \cup {j}
  BY CreateEffect
<1>2. /\ \A n, m \in Node : clock[n][m] \in Nat
      /\ \A i \in TxId, m \in Node : Stamp(i)[m] \in Nat
      /\ \A i \in TxId : From(i) \in Node
  BY StampType, OrderType DEF Clocks
<1>3. \A m \in Node : tick[m] = IF m = s THEN clock[s][s] + 1 ELSE clock[s][m]
  BY <1>1, StampType, TickComponents
<1>4. \A m \in Node : clock'[m][m] = IF m = s THEN clock[s][s] + 1 ELSE clock[m][m]
  BY <1>1, <1>3
<1>5. /\ \A n, m \in Node : clock[n][m] <= clock[m][m]
      /\ \A i \in TxId, m \in Node : Created(i) => Stamp(i)[m] <= clock[m][m]
  BY DEF Causal, OwnIsLargest
<1>6. ASSUME NEW m \in Node, NEW n \in Node PROVE clock'[n][m] <= clock'[m][m]
  <2>1. CASE n = s
    BY <1>1, <1>2, <1>3, <1>4, <1>5, <2>1
  <2>2. CASE n # s
    BY <1>1, <1>2, <1>4, <1>5, <2>2
  <2> QED
    BY <2>1, <2>2
<1>7. ASSUME NEW m \in Node, NEW i \in TxId, Created(i)'
      PROVE  Stamp(i)'[m] <= clock'[m][m]
  <2>1. CASE i = j
    BY <1>1, <1>2, <1>3, <1>4, <1>5, <2>1
  <2>2. CASE i # j
    BY <1>1, <1>2, <1>4, <1>5, <1>7, <2>2
  <2> QED
    BY <2>1, <2>2
<1>8. ASSUME NEW i \in TxId \ {j}, Created(i), Stamp(i)[From(i)] <= tick[From(i)]
      PROVE  i \in known[s]
  <2>1. Stamp(i)[From(i)] <= clock[s][From(i)]
    BY <1>1, <1>2, <1>3, <1>5, <1>8
  <2> QED
    BY <1>1, <1>8, <2>1 DEF Causal, ReachedIsKnown
<1>9. ASSUME NEW i \in TxId, Created(i)', NEW n \in Node,
             Stamp(i)'[From(i)] <= clock'[n][From(i)]
      PROVE  i \in known'[n]
  <2>1. CASE n = s
    BY <1>1, <1>8, <1>9, <2>1
  <2>2. CASE n # s /\ i # j
    BY <1>1, <1>9, <2>2 DEF Causal, ReachedIsKnown
  <2>3. CASE n # s /\ i = j
    <3>1. Stamp(i)'[From(i)] = clock[s][s] + 1 /\ clock'[n][From(i)] = clock[n][s]
      BY <1>1, <1>3, <2>3
    <3> QED
      BY <1>1, <1>2, <1>5, <1>9, <3>1
  <2> QED
    BY <2>1, <2>2, <2>3
<1>10. ASSUME NEW i \in TxId, NEW k \in TxId, i # k, Created(i)', Created(k)',
              Stamp(i)'[From(i)] <= Stamp(k)'[From(i)]
       PROVE  i \in causes'[k]
  <2>1. CASE k = j
    BY <1>1, <1>8, <1>10, <2>1
  <2>2. CASE i = j
    <3>1. Stamp(i)'[From(i)] = clock[s][s] + 1 /\ Stamp(k)'[From(i)] = Stamp(k)[s]
      BY <1>1, <1>3, <1>10, <2>2
    <3>2. Created(k) /\ Stamp(k)[s] <= clock[s][s]
      BY <1>1, <1>5, <1>10, <2>2
    <3> QED
      BY <1>1, <1>2, <1>10, <3>1, <3>2
  <2>3. CASE i # j /\ k # j
    BY <1>1, <1>10, <2>3 DEF Causal, ReachedIsCause
  <2> QED
    BY <2>1, <2>2, <2>3
<1>11. OwnIsLargest'
  BY <1>6, <1>7 DEF OwnIsLargest
<1>12. ReachedIsKnown'
  BY <1>9 DEF ReachedIsKnown
<1>13. ReachedIsCause'
  BY <1>10 DEF ReachedIsCause
<1> QED
  BY <1>11, <1>12, <1>13 DEF Causal

LEMMA ReceiveCausal ==
    ASSUME TypeOK, Started, Causal, NEW k \in Node, NEW id \in TxId, ReceiveIntent(k, id)
    PROVE  Causal'
<1>1. /\ Created(id) /\ UNCHANGED <<intent, causes>>
      /\ \A m \in Node \ {k} : clock'[m] = clock[m] /\ known'[m] = known[m]
      /\ \/ clock'[k] = clock[k] /\ known'[k] = known[k]
         \/ /\ clock'[k] = Merge(clock[k], Stamp(id))
            /\ known'[k] = known[k] \cup {id} \cup causes[id]
  BY ReceiveEffect
<1>2. /\ \A n, m \in Node : clock[n][m] \in Nat
      /\ \A i \in TxId, m \in Node : Stamp(i)[m] \in Nat
      /\ \A i \in TxId : From(i) \in Node
  BY StampType, OrderType DEF Clocks
<1>3. \A i \in TxId : Created(i)' = Created(i) /\ Stamp(i)' = Stamp(i)
  BY <1>1 DEF Created, Stamp
<1>4. /\ \A n, m \in Node : clock[n][m] <= clock[m][m]
      /\ \A i \in TxId, m \in Node : Created(i) => Stamp(i)[m] <= clock[m][m]
  BY DEF Causal, OwnIsLargest
<1>5. ASSUME NEW m \in Node
      PROVE  /\ clock'[k][m] = clock[k][m] \/ clock'[k][m] = Stamp(id)[m]
             /\ clock[k][m] <= clock'[k][m]
  BY <1>1, <1>2, StampType, MergeComponents
<1>6. \A m \in Node : clock'[m][m] = clock[m][m]
  <2>1. clock'[k][k] = clock[k][k]
    BY <1>1, <1>2, <1>4, <1>5
  <2> QED
    BY <1>1, <2>1
<1>7. OwnIsLargest'
  <2>1. \A n, m \in Node : clock'[n][m] <= clock[m][m]
    BY <1>1, <1>4, <1>5
  <2> QED
    BY <1>3, <1>4, <1>6, <2>1 DEF OwnIsLargest
<1>8. ASSUME NEW i \in TxId, Created(i), NEW n \in Node,
             Stamp(i)[From(i)] <= clock'[n][From(i)]
      PROVE  i \in known'[n]
  <2>1. CASE n # k
    BY <1>1, <1>8, <2>1 DEF Causal, ReachedIsKnown
  <2>2. CASE n = k /\ clock'[k] = clock[k] /\ known'[k] = known[k]
    BY <1>8, <2>2 DEF Causal, ReachedIsKnown
  <2>3. CASE /\ n = k /\ known'[k] = known[k] \cup {id} \cup causes[id]
    <3>1. CASE Stamp(i)[From(i)] <= clock[k][From(i)]
      BY <1>8, <2>3, <3>1 DEF Causal, ReachedIsKnown
    <3>2. CASE Stamp(i)[From(i)] <= Stamp(id)[From(i)]
      BY <1>1, <1>8, <2>3, <3>2 DEF Causal, ReachedIsCause
    <3> QED
      BY <1>2, <1>5, <1>8, <2>3, <3>1, <3>2
  <2> QED
    BY <1>1, <2>1, <2>2, <2>3
<1>9. ReachedIsKnown'
  BY <1>3, <1>8 DEF ReachedIsKnown
<1>10. ReachedIsCause'
  BY <1>1, <1>3 DEF Causal, ReachedIsCause
<1> QED
  BY <1>7, <1>9, <1>10 DEF Causal

LEMMA CausalNext ==
    TypeOK /\ Started /\ (NoRestart => Causal) /\ [Next]_vars => (NoRestart' => Causal')
<1> SUFFICES ASSUME TypeOK, Started, NoRestart => Causal, [Next]_vars, NoRestart'
             PROVE  Causal'
  OBVIOUS
<1>1. ASSUME NEW j \in TxId, CreateTransferIntent(j) PROVE Causal'
  <2>1. NoRestart
    BY <1>1, CreateEffect DEF NoRestart
  <2> QED
    BY <1>1, <2>1, CreateCausal
<1>2. ASSUME NEW n \in Node, NEW id \in TxId, ReceiveIntent(n, id) PROVE Causal'
  <2>1. NoRestart
    BY <1>2, ReceiveEffect DEF NoRestart
  <2> QED
    BY <1>2, <2>1, ReceiveCausal
<1>3. ASSUME NEW n \in Node, Restart(n) PROVE FALSE
  <2>1. epoch[n] \in Nat /\ epoch'[n] = epoch[n] + 1 /\ epoch'[n] = 0
    BY <1>3, RestartEffect DEF TypeOK, NoRestart
  <2> QED
    BY <2>1
<1>4. CASE Still
  <2>1. NoRestart
    BY <1>4 DEF NoRestart, Still
  <2>2. /\ \A i \in TxId : Created(i)' = Created(i) /\ Stamp(i)' = Stamp(i)
        /\ UNCHANGED <<clock, known, causes>>
    BY <1>4 DEF Still, Created, Stamp
  <2>3. OwnIsLargest /\ ReachedIsKnown /\ ReachedIsCause
    BY <2>1 DEF Causal
  <2>4. OwnIsLargest'
    BY <2>2, <2>3 DEF OwnIsLargest
  <2>5. ReachedIsKnown'
    BY <2>2, <2>3 DEF ReachedIsKnown
  <2>6. ReachedIsCause'
    BY <2>2, <2>3 DEF ReachedIsCause
  <2> QED
    BY <2>4, <2>5, <2>6 DEF Causal
<1> QED
  BY <1>1, <1>2, <1>3, <1>4, ClockSteps

\* While no device restarts, what happened before by the clocks was known to the
\* sender: unrelated intents are never ordered, though a clock is merged only when
\* a signature fits and ticked before it is made (TransactionManager.ts:100, 224-225).
THEOREM HappenedBeforeIsCausalHolds == Spec => []HappenedBeforeIsCausal
<1>1. ASSUME Init PROVE Causal
  <2>1. /\ \A i \in TxId : ~Created(i)
        /\ \A n \in Node : clock[n] = ZeroClock
    BY <1>1 DEF Init, Created, NoIntent
  <2>2. \A m, n \in Node : clock[n][m] = 0
    BY <2>1 DEF ZeroClock
  <2> QED
    BY <2>1, <2>2 DEF Causal, OwnIsLargest, ReachedIsKnown, ReachedIsCause
<1> QED
  BY <1>1, StartedInit, StartedNext, CausalNext, CausalFollows, TypeCorrect, PTL DEF Spec
-----------------------------------------------------------------------------
(* Receipts *)

\* A receipt is signed, published and attached only for what was credited.
ReceiptFlow ==
    /\ \A n \in Node : receipting[n] \subseteq everCredited
    /\ receipts \subseteq everCredited
    /\ \A n \in Node : \A r \in Filed(store[n]) :
          r.status = "RECEIPTED" => r.id \in everCredited

LEMMA ReceiptNext == TypeOK /\ ReceiptFlow /\ [Next]_vars => ReceiptFlow'
<1> SUFFICES ASSUME TypeOK, ReceiptFlow, [Next]_vars PROVE ReceiptFlow'
  OBVIOUS
<1> USE DEF nonceVars, callVars, receiveVars, historyVars
<1>1. /\ store \in [Node -> Stores(TxId)] /\ receipting \in [Node -> SUBSET TxId]
      /\ receipts \in SUBSET TxId /\ everCredited \in SUBSET TxId
      /\ MaxSeenTx \in Nat /\ \A id \in TxId : From(id) \in Node
  BY OrderType, BoundsAssumption DEF TypeOK
<1>2. ASSUME NEW n \in Node, NEW st, NEW tx,
             store' = [store EXCEPT ![n] = st],
             Filed(st) \subseteq Filed(store[n]) \cup {tx},
             tx.status = "RECEIPTED" => tx.id \in everCredited,
             everCredited \subseteq everCredited',
             receipts' \subseteq everCredited',
             \A m \in Node : receipting'[m] \subseteq everCredited'
      PROVE  ReceiptFlow'
  <2>1. ASSUME NEW m \in Node, NEW r \in Filed(store'[m]), r.status = "RECEIPTED"
        PROVE  r.id \in everCredited'
    <3>1. CASE m # n
      BY <1>1, <1>2, <2>1, <3>1 DEF ReceiptFlow
    <3>2. CASE m = n
      <4>1. r \in Filed(store[n]) \/ r = tx
        BY <1>1, <1>2, <2>1, <3>2
      <4> QED
        BY <1>2, <2>1, <4>1 DEF ReceiptFlow
    <3> QED
      BY <3>1, <3>2
  <2>2. \A m \in Node : Filed(store[m])' = Filed(store'[m])
    BY DEF Filed
  <2> QED
    BY <1>2, <2>1, <2>2 DEF ReceiptFlow
<1>3. ASSUME UNCHANGED <<store, receipts, receipting, everCredited>> PROVE ReceiptFlow'
  BY <1>3 DEF ReceiptFlow, Filed
<1>4. ASSUME NEW id \in TxId, NEW sigOk \in BOOLEAN, FinishSigning(id, sigOk)
      PROVE  ReceiptFlow'
  <2> DEFINE tx == [id |-> id, status |-> "SIGNED"]
             st == AddTransaction(store[From(id)], tx, MaxSeenTx)
  <2>1. tx \in Records(TxId) /\ tx.status # "RECEIPTED"
    BY DEF Records, Status
  <2>2. Filed(st) \subseteq Filed(store[From(id)]) \cup {tx}
    BY <1>1, <2>1, AddTransactionFiled
  <2>3. /\ store' = [store EXCEPT ![From(id)] = st]
        /\ UNCHANGED <<receipts, receipting, everCredited>>
    BY <1>4 DEF FinishSigning
  <2> HIDE DEF tx, st
  <2> QED
    BY <1>1, <1>2, <2>1, <2>2, <2>3 DEF ReceiptFlow
<1>5. ASSUME NEW id \in TxId, PublishReturns(id) PROVE ReceiptFlow'
  <2> DEFINE tx == [id |-> id, status |-> "GOSSIPED"]
             st == UpdateTransactionStatus(store[From(id)], id, "GOSSIPED")
  <2>1. Filed(st) \subseteq Filed(store[From(id)]) \cup {tx} /\ tx.status # "RECEIPTED"
    BY <1>1, UpdateTransactionStatusFiled DEF Status
  <2>2. /\ store' = [store EXCEPT ![From(id)] = st]
        /\ UNCHANGED <<receipts, receipting, everCredited>>
    BY <1>5 DEF PublishReturns
  <2> HIDE DEF tx, st
  <2> QED
    BY <1>1, <1>2, <2>1, <2>2 DEF ReceiptFlow
<1>6. ASSUME NEW n \in Node, NEW id \in TxId, CreditIntent(n, id) PROVE ReceiptFlow'
  <2> DEFINE tx == [id |-> id, status |-> "VERIFIED"]
             st == AddTransaction(store[n], tx, MaxSeenTx)
  <2>1. tx \in Records(TxId) /\ tx.status # "RECEIPTED"
    BY DEF Records, Status
  <2>2. Filed(st) \subseteq Filed(store[n]) \cup {tx}
    BY <1>1, <2>1, AddTransactionFiled
  <2>3. /\ store' = [store EXCEPT ![n] = st]
        /\ receipting' = [receipting EXCEPT ![n] = receipting[n] \cup {id}]
        /\ everCredited' = everCredited \cup {id} /\ receipts' = receipts
    BY <1>6 DEF CreditIntent
  <2>4. \A m \in Node : receipting'[m] \subseteq everCredited'
    BY <1>1, <2>3 DEF ReceiptFlow
  <2> HIDE DEF tx, st
  <2> QED
    BY <1>1, <1>2, <2>1, <2>2, <2>3, <2>4 DEF ReceiptFlow
<1>7. ASSUME NEW n \in Node, NEW id \in TxId, StoreForRelay(n, id) PROVE ReceiptFlow'
  <2> DEFINE tx == [id |-> id, status |-> "GOSSIPED"]
             st == AddTransaction(store[n], tx, MaxSeenTx)
  <2>1. tx \in Records(TxId) /\ tx.status # "RECEIPTED"
    BY DEF Records, Status
  <2>2. Filed(st) \subseteq Filed(store[n]) \cup {tx}
    BY <1>1, <2>1, AddTransactionFiled
  <2>3. /\ store' = [store EXCEPT ![n] = st]
        /\ UNCHANGED <<receipts, receipting, everCredited>>
    BY <1>7 DEF StoreForRelay
  <2> HIDE DEF tx, st
  <2> QED
    BY <1>1, <1>2, <2>1, <2>2, <2>3 DEF ReceiptFlow
<1>8. ASSUME NEW n \in Node, NEW id \in TxId, PublishReceipt(n, id) PROVE ReceiptFlow'
  <2>1. /\ id \in receipting[n] /\ receipts' = receipts \cup {id}
        /\ receipting' = [receipting EXCEPT ![n] = receipting[n] \ {id}]
        /\ UNCHANGED <<store, everCredited>>
    BY <1>8 DEF PublishReceipt
  <2>2. \A m \in Node : receipting'[m] \subseteq receipting[m]
    BY <1>1, <2>1
  <2> QED
    BY <2>1, <2>2 DEF ReceiptFlow, Filed
<1>9. ASSUME NEW n \in Node, NEW id \in TxId, ReceiveReceipt(n, id) PROVE ReceiptFlow'
  <2> DEFINE tx == [id |-> id, status |-> "RECEIPTED"]
             st == AttachReceipt(store[n], id)
  <2>1. Filed(st) \subseteq Filed(store[n]) \cup {tx}
    BY <1>1, AttachReceiptFiled
  <2>2. /\ id \in receipts /\ store' = [store EXCEPT ![n] = st] /\ tx.id = id
        /\ UNCHANGED <<receipts, receipting, everCredited>>
    BY <1>9 DEF ReceiveReceipt, ReceiptArrives
  <2> HIDE DEF tx, st
  <2> QED
    BY <1>1, <1>2, <2>1, <2>2 DEF ReceiptFlow
<1>10. ASSUME NEW n \in Node, NEW id \in TxId, SettleDebit(n, id) PROVE ReceiptFlow'
  <2> DEFINE tx == [id |-> id, status |-> "SETTLED"]
             st == UpdateTransactionStatus(store[n], id, "SETTLED")
  <2>1. Filed(st) \subseteq Filed(store[n]) \cup {tx} /\ tx.status # "RECEIPTED"
    BY <1>1, UpdateTransactionStatusFiled DEF Status
  <2>2. /\ store' = [store EXCEPT ![n] = st]
        /\ UNCHANGED <<receipts, receipting, everCredited>>
    BY <1>10 DEF SettleDebit
  <2> HIDE DEF tx, st
  <2> QED
    BY <1>1, <1>2, <2>1, <2>2 DEF ReceiptFlow
<1>11. ASSUME NEW n \in Node, Restart(n) PROVE ReceiptFlow'
  <2>1. /\ store' = [store EXCEPT ![n] = EmptyStore]
        /\ receipting' = [receipting EXCEPT ![n] = {}]
        /\ UNCHANGED <<receipts, everCredited>>
    BY <1>11 DEF Restart
  <2>2. Filed(EmptyStore) = {}
    BY DEF Filed, EmptyStore, ToSet
  <2>3. \A m \in Node : /\ receipting'[m] \subseteq receipting[m]
                        /\ Filed(store'[m]) \subseteq Filed(store[m])
    BY <1>1, <2>1, <2>2
  <2>4. \A m \in Node : Filed(store[m])' = Filed(store'[m])
    BY DEF Filed
  <2> QED
    BY <2>1, <2>3, <2>4 DEF ReceiptFlow
<1>12. ASSUME NEW id \in TxId,
              CreateTransferIntent(id) \/ RejectInsufficient(id) \/ SigningFails(id)
                 \/ Publish(id)
       PROVE  ReceiptFlow'
  BY <1>3, <1>12
     DEF CreateTransferIntent, RejectInsufficient, SigningFails, Publish
<1>13. ASSUME NEW n \in Node, NEW id \in TxId, ReceiveIntent(n, id) PROVE ReceiptFlow'
  BY <1>3, <1>13 DEF ReceiveIntent
<1>14. ASSUME NEW n \in Node, NEW c \in ChainNonces[n], SyncFromChain(n, c)
       PROVE  ReceiptFlow'
  BY <1>3, <1>14 DEF SyncFromChain
<1>15. CASE UNCHANGED vars
  BY <1>3, <1>15 DEF vars
<1> QED
  BY <1>4, <1>5, <1>6, <1>7, <1>8, <1>9, <1>10, <1>11, <1>12, <1>13, <1>14, <1>15
     DEF Next

\* A record is RECEIPTED only for an intent its receiver credited, whatever order
\* receipts, restarts and the sender's own awaits come in
\* (TransactionManager.ts:279-299, 317-323).
THEOREM ReceiptMeansCreditedHolds == Spec => []ReceiptMeansCredited
<1>1. Init => ReceiptFlow
  BY DEF Init, ReceiptFlow, Filed, EmptyStore, ToSet
<1>2. ReceiptFlow => ReceiptMeansCredited
  <2> SUFFICES ASSUME ReceiptFlow, NEW n \in Node, NEW k \in Lists,
                      NEW i \in DOMAIN store[n].lists[k],
                      store[n].lists[k][i].status = "RECEIPTED"
               PROVE  store[n].lists[k][i].id \in everCredited
    BY DEF ReceiptMeansCredited
  <2>1. store[n].lists[k][i] \in Filed(store[n])
    BY DEF Filed, ToSet
  <2> QED
    BY <2>1 DEF ReceiptFlow
<1> QED
  BY <1>1, <1>2, ReceiptNext, TypeCorrect, PTL DEF Spec
=============================================================================
