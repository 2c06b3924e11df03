------------------------------ MODULE Payments ------------------------------
(***************************************************************************)
(* services/transaction/TransactionManager.ts and NonceManager.ts on every *)
(* device of the mesh, over the ledger and transaction slices of its store.*)
(*                                                                         *)
(* JavaScript runs one callback at a time, so a step is what runs between  *)
(* two awaits.  A call to `send' is named by the id its transaction gets;  *)
(* Order fixes its arguments.  The mesh (GossipProtocol, module Gossip)    *)
(* hands a published message to any device, any number of times, in any    *)
(* order, or never; to its publisher only after that one restarted and     *)
(* lost the mark it keeps of its own messages.  Nothing is written to      *)
(* disk, so a restart takes a device back to an empty store.               *)
(***************************************************************************)
EXTENDS VectorClock, LocalLedger, TransactionSlice

CONSTANTS
    TxId,         \* the calls to send
    Order,        \* [TxId -> [from, to : Node, amount : Nat \ {0}]], their arguments
    Initial,      \* [Node -> Nat], the balances that setInitialBalance puts in place
    MaxSeen,      \* NonceManager.maxSeenCache (10000 in the code)
    MaxSeenTx,    \* MAX_SEEN_TX_CACHE of the transaction slice (1000)
    ChainNonces,  \* [Node -> SUBSET Nat], what the chain may answer a device
    MaxRestarts,  \* [Node -> Nat], bounds on the restarts of each device
    MaxCredits    \* bound on how often a forgotten id is credited again

ASSUME OrderAssumption ==
    Order \in [TxId -> [from : Node, to : Node, amount : Nat \ {0}]]
ASSUME InitialAssumption == Initial \in [Node -> Nat]
\* A mesh has so many devices, and they make so many calls.
ASSUME FinitenessAssumption == IsFiniteSet(Node) /\ IsFiniteSet(TxId)
ASSUME BoundsAssumption ==
    /\ MaxSeen \in Nat \ {0} /\ MaxSeenTx \in Nat \ {0}
    /\ ChainNonces \in [Node -> SUBSET Nat]
    /\ MaxRestarts \in [Node -> Nat] /\ MaxCredits \in Nat

From(id) == Order[id].from
To(id) == Order[id].to
Amount(id) == Order[id].amount

VARIABLES
    nonces,     \* NonceManager.nonces, at the device's own address
    seen,       \* NonceManager.seenTxIds, oldest first
    clock,      \* TransactionManager.vectorClock
    ledger,     \* the ledger slice
    store,      \* the transaction slice
    call,       \* where each call to send stands
    intent,     \* the intent it signs: nonce, vectorClock, and if the signature fits
    published,  \* the intents given to the mesh
    receipts,   \* the ids whose receipt was given to the mesh
    verifying,  \* intents verified, the handler not yet resumed
    receipting, \* intents credited, the receipt being signed
    \* History, read by no action:
    epoch,      \* the restarts of a device
    born,       \* the epoch of the sender in which the call started
    refused,    \* the calls whose debit was refused
    credits,    \* how often a device moved its balance up for an id
    everCredited, \* ids credited by their receiver, on any day
    forgotten,  \* ids that fell out of a device's seen cache
    opening,    \* the balance the present store began with
    known,      \* ids a device created or verified
    causes      \* what the sender knew when it created the intent

nonceVars == <<nonces, seen>>
callVars == <<call, intent, published>>
receiveVars == <<receipts, verifying, receipting>>
historyVars == <<epoch, born, refused, credits, everCredited, forgotten, opening,
                 known, causes>>
vars == <<nonceVars, clock, ledger, store, callVars, receiveVars, historyVars>>

CallStates == {"idle", "signing", "signed", "publishing", "sent", "rejected", "lost"}
Intents == [nonce : Nat, vectorClock : Clocks, sigOk : BOOLEAN]
NoIntent == [nonce |-> 0, vectorClock |-> ZeroClock, sigOk |-> FALSE]

TypeOK ==
    /\ nonces \in [Node -> Nat]
    /\ seen \in [Node -> Seq(TxId)]
    /\ clock \in [Node -> Clocks]
    /\ ledger \in [Node -> Ledgers(TxId)]
    /\ store \in [Node -> Stores(TxId)]
    /\ call \in [TxId -> CallStates]
    /\ intent \in [TxId -> Intents]
    /\ published \in SUBSET TxId
    /\ receipts \in SUBSET TxId
    /\ verifying \in [Node -> SUBSET TxId]
    /\ receipting \in [Node -> SUBSET TxId]
    /\ epoch \in [Node -> Nat]
    /\ born \in [TxId -> Nat]
    /\ refused \in SUBSET TxId
    /\ credits \in [Node -> [TxId -> Nat]]
    /\ everCredited \in SUBSET TxId
    /\ forgotten \in [Node -> SUBSET TxId]
    /\ opening \in [Node -> Nat]
    /\ known \in [Node -> SUBSET TxId]
    /\ causes \in [TxId -> SUBSET TxId]

Init ==
    /\ nonces = [n \in Node |-> 0]
    /\ seen = [n \in Node |-> <<>>]
    /\ clock = [n \in Node |-> ZeroClock]
    /\ ledger = [n \in Node |-> [EmptyLedger EXCEPT !.balance = Initial[n]]]
    /\ store = [n \in Node |-> EmptyStore]
    /\ call = [id \in TxId |-> "idle"]
    /\ intent = [id \in TxId |-> NoIntent]
    /\ published = {} /\ receipts = {}
    /\ verifying = [n \in Node |-> {}]
    /\ receipting = [n \in Node |-> {}]
    /\ epoch = [n \in Node |-> 0]
    /\ born = [id \in TxId |-> 0]
    /\ refused = {}
    /\ credits = [n \in Node |-> [id \in TxId |-> 0]]
    /\ everCredited = {}
    /\ forgotten = [n \in Node |-> {}]
    /\ opening = Initial
    /\ known = [n \in Node |-> {}]
    /\ causes = [id \in TxId |-> {}]
-----------------------------------------------------------------------------
(* NonceManager *)

\* getNextNonce answers the stored nonce plus one, and stores that.
NextNonce(n) == nonces[n] + 1

\* Mutant: the dedup check is dropped.
NeverDuplicate(n, id) == FALSE

IsDuplicate(n, id) == id \in ToSet(seen[n])

\* Mutant: the id is not remembered before the await.
MarkSeenLate(n, id) == seen[n]

\* markSeen: a Set keeps its insertion order, the oldest ids are dropped.
MarkSeen(n, id) == Add(seen[n], id, MaxSeen)

\* Mutant: the chain's answer replaces the local nonce.
ChainNonceWins(n, chainNonce) == chainNonce

EffectiveNonce(n, chainNonce) ==
    IF chainNonce >= nonces[n] THEN chainNonce ELSE nonces[n]

\* syncFromChain, from the answer on: the local nonce is read after the await.
SyncFromChain(n, chainNonce) ==
    /\ nonces' = [nonces EXCEPT ![n] = EffectiveNonce(n, chainNonce)]
    /\ UNCHANGED <<seen, clock, ledger, store, callVars, receiveVars, historyVars>>
-----------------------------------------------------------------------------
(* Sending *)

\* createTransferIntent up to `await signMessage': the nonce is taken before the
\* balance is looked at, and the clock is incremented after.
CreateTransferIntent(id) ==
    LET n == From(id)
        tick == Increment(clock[n], n)
    IN  /\ call[id] = "idle"
        /\ HasEnoughBalance(ledger[n], Amount(id))
        /\ nonces' = [nonces EXCEPT ![n] = NextNonce(n)]
        /\ clock' = [clock EXCEPT ![n] = tick]
        /\ intent' = [intent EXCEPT ![id] = [nonce |-> NextNonce(n),
                                             vectorClock |-> tick, sigOk |-> FALSE]]
        /\ call' = [call EXCEPT ![id] = "signing"]
        /\ born' = [born EXCEPT ![id] = epoch[n]]
        /\ causes' = [causes EXCEPT ![id] = known[n]]
        /\ known' = [known EXCEPT ![n] = @ \cup {id}]
        /\ UNCHANGED <<seen, ledger, store, published, receiveVars, epoch, refused,
                       credits, everCredited, forgotten, opening>>

\* ... 'Insufficient local balance' is thrown with the nonce already taken.
RejectInsufficient(id) ==
    LET n == From(id)
    IN  /\ call[id] = "idle"
        /\ ~HasEnoughBalance(ledger[n], Amount(id))
        /\ nonces' = [nonces EXCEPT ![n] = NextNonce(n)]
        /\ call' = [call EXCEPT ![id] = "rejected"]
        /\ UNCHANGED <<seen, clock, ledger, store, intent, published, receiveVars,
                       historyVars>>

\* signMessage throws: the nonce and the clock tick are spent.
SigningFails(id) ==
    /\ call[id] = "signing"
    /\ call' = [call EXCEPT ![id] = "rejected"]
    /\ UNCHANGED <<nonceVars, clock, ledger, store, intent, published, receiveVars,
                   historyVars>>

\* After the await: Date.now() is read a second time, and only if it gives the
\* value that was signed does the signature fit the intent (sigOk).  What debit
\* returns is ignored, so an unfunded intent is stored and sent all the same.
FinishSigning(id, sigOk) ==
    LET n == From(id)
    IN  /\ call[id] = "signing"
        /\ intent' = [intent EXCEPT ![id].sigOk = sigOk]
        /\ ledger' = [ledger EXCEPT ![n] = Debit(@, id, Amount(id))]
        /\ store' = [store EXCEPT
               ![n] = AddTransaction(@, [id |-> id, status |-> "SIGNED"], MaxSeenTx)]
        /\ refused' = IF HasEnoughBalance(ledger[n], Amount(id))
                      THEN refused ELSE refused \cup {id}
        /\ call' = [call EXCEPT ![id] = "signed"]
        /\ UNCHANGED <<nonceVars, clock, published, receiveVars, epoch, born, credits,
                       everCredited, forgotten, opening, known, causes>>

\* Mutant: the intent is broadcast while it is being signed.
PublishEarly(id) ==
    /\ call[id] \in {"signing", "signed"}
    /\ published' = published \cup {id}
    /\ intent' = [intent EXCEPT ![id].sigOk = TRUE]
    /\ UNCHANGED <<nonceVars, clock, ledger, store, call, receiveVars, historyVars>>

\* broadcastTransferIntent up to the await on the mesh.
Publish(id) ==
    /\ call[id] = "signed"
    /\ published' = published \cup {id}
    /\ call' = [call EXCEPT ![id] = "publishing"]
    /\ UNCHANGED <<nonceVars, clock, ledger, store, intent, receiveVars, historyVars>>

\* ... and from there: GOSSIPED, whatever the status has become meanwhile.
PublishReturns(id) ==
    LET n == From(id)
    IN  /\ call[id] = "publishing"
        /\ store' = [store EXCEPT ![n] = UpdateTransactionStatus(@, id, "GOSSIPED")]
        /\ call' = [call EXCEPT ![id] = "sent"]
        /\ UNCHANGED <<nonceVars, clock, ledger, intent, published, receiveVars,
                       historyVars>>
-----------------------------------------------------------------------------
(* Receiving *)

\* Mutant: the clock is merged before the signature is looked at.
MergedUnverified(n, id) == Merge(clock[n], intent[id].vectorClock)

\* The clock after verifyTransferIntent: merged only if the signature fits.
ClockVerified(n, id) ==
    IF intent[id].sigOk THEN Merge(clock[n], intent[id].vectorClock) ELSE clock[n]

\* What the mesh hands to the handlers (module Mesh): what was published, as often as it
\* likes, but nothing of its own to a device that remembers having published it, as it
\* does until it restarts.
IntentArrives(n, id) == id \in published /\ (n # From(id) \/ born[id] # epoch[n])
ReceiptArrives(n, id) == id \in receipts /\ (n # To(id) \/ epoch[n] > 0)

\* handleIncomingTransferIntent up to `await verifyTransferIntent', whose body runs
\* before the await: the id is marked seen even if the signature is then refused,
\* and the clock is merged only if it is not.
ReceiveIntent(n, id) ==
    /\ IntentArrives(n, id)
    /\ ~IsDuplicate(n, id)
    /\ seen' = [seen EXCEPT ![n] = MarkSeen(n, id)]
    /\ forgotten' = [forgotten EXCEPT
           ![n] = @ \cup (ToSet(seen[n]) \ ToSet(MarkSeen(n, id)))]
    /\ clock' = [clock EXCEPT ![n] = ClockVerified(n, id)]
    /\ IF intent[id].sigOk
       THEN /\ verifying' = [verifying EXCEPT ![n] = @ \cup {id}]
            /\ known' = [known EXCEPT ![n] = @ \cup {id} \cup causes[id]]
       ELSE UNCHANGED <<verifying, known>>
    /\ UNCHANGED <<nonces, ledger, store, callVars, receipts, receipting, epoch, born,
                   refused, credits, everCredited, opening, causes>>

\* The handler resumes on the receiver: credit, store as VERIFIED, and sendReceipt
\* up to its signMessage.
CreditIntent(n, id) ==
    /\ id \in verifying[n] /\ n = To(id)
    /\ credits[n][id] < MaxCredits
    /\ ledger' = [ledger EXCEPT ![n] = Credit(@, id, Amount(id))]
    /\ store' = [store EXCEPT
           ![n] = AddTransaction(@, [id |-> id, status |-> "VERIFIED"], MaxSeenTx)]
    /\ verifying' = [verifying EXCEPT ![n] = @ \ {id}]
    /\ receipting' = [receipting EXCEPT ![n] = @ \cup {id}]
    /\ credits' = [credits EXCEPT ![n][id] = @ + 1]
    /\ everCredited' = everCredited \cup {id}
    /\ UNCHANGED <<nonceVars, clock, callVars, receipts, epoch, born, refused, forgotten,
                   opening, known, causes>>

\* Mutant: a relay answers with a receipt as the receiver does.
ReceiptFromRelay(n, id) ==
    /\ id \in verifying[n] /\ n # To(id)
    /\ verifying' = [verifying EXCEPT ![n] = @ \ {id}]
    /\ receipting' = [receipting EXCEPT ![n] = @ \cup {id}]
    /\ UNCHANGED <<nonceVars, clock, ledger, store, callVars, receipts, historyVars>>

\* The handler resumes on a relay.
StoreForRelay(n, id) ==
    /\ id \in verifying[n] /\ n # To(id)
    /\ store' = [store EXCEPT
           ![n] = AddTransaction(@, [id |-> id, status |-> "GOSSIPED"], MaxSeenTx)]
    /\ verifying' = [verifying EXCEPT ![n] = @ \ {id}]
    /\ UNCHANGED <<nonceVars, clock, ledger, callVars, receipts, receipting, historyVars>>

\* sendReceipt after signMessage.
PublishReceipt(n, id) ==
    /\ id \in receipting[n]
    /\ receipts' = receipts \cup {id}
    /\ receipting' = [receipting EXCEPT ![n] = @ \ {id}]
    /\ UNCHANGED <<nonceVars, clock, ledger, store, callVars, verifying, historyVars>>

\* handleIncomingReceipt, of a receipt that To(id) published.
ReceiveReceipt(n, id) ==
    /\ ReceiptArrives(n, id)
    /\ store' = [store EXCEPT ![n] = AttachReceipt(@, id)]
    /\ UNCHANGED <<nonceVars, clock, ledger, callVars, receiveVars, historyVars>>
-----------------------------------------------------------------------------
(* The environment of the two services *)

IsUnsettledDebit(n, id) ==
    \E e \in ToSet(Unsettled(ledger[n])) : e.txId = id /\ e.type = "DEBIT"

\* SettlementService.settleOnChain reaches its end (module Settlement says when).
SettleDebit(n, id) ==
    /\ IsUnsettledDebit(n, id)
    /\ ledger' = [ledger EXCEPT ![n] = MarkSettled(@, id)]
    /\ store' = [store EXCEPT ![n] = UpdateTransactionStatus(@, id, "SETTLED")]
    /\ UNCHANGED <<nonceVars, clock, callVars, receiveVars, historyVars>>

\* The app is killed and started again: every singleton and the store are new.
Restart(n) ==
    /\ epoch[n] < MaxRestarts[n]
    /\ epoch' = [epoch EXCEPT ![n] = @ + 1]
    /\ nonces' = [nonces EXCEPT ![n] = 0]
    /\ seen' = [seen EXCEPT ![n] = <<>>]
    /\ clock' = [clock EXCEPT ![n] = ZeroClock]
    /\ ledger' = [ledger EXCEPT ![n] = EmptyLedger]
    /\ store' = [store EXCEPT ![n] = EmptyStore]
    /\ call' = [id \in TxId |->
                   IF From(id) = n /\ call[id] \in {"signing", "signed", "publishing"}
                   THEN "lost" ELSE call[id]]
    /\ verifying' = [verifying EXCEPT ![n] = {}]
    /\ receipting' = [receipting EXCEPT ![n] = {}]
    /\ credits' = [credits EXCEPT ![n] = [id \in TxId |-> 0]]
    /\ forgotten' = [forgotten EXCEPT ![n] = {}]
    /\ opening' = [opening EXCEPT ![n] = 0]
    /\ known' = [known EXCEPT ![n] = {}]
    /\ UNCHANGED <<intent, published, receipts, born, refused, everCredited, causes>>

Next ==
    \/ \E id \in TxId :
          \/ CreateTransferIntent(id)
          \/ RejectInsufficient(id)
          \/ SigningFails(id)
          \/ \E sigOk \in BOOLEAN : FinishSigning(id, sigOk)
          \/ Publish(id)
          \/ PublishReturns(id)
    \/ \E n \in Node, id \in TxId :
          \/ ReceiveIntent(n, id)
          \/ CreditIntent(n, id)
          \/ StoreForRelay(n, id)
          \/ PublishReceipt(n, id)
          \/ ReceiveReceipt(n, id)
          \/ SettleDebit(n, id)
    \/ \E n \in Node :
          \/ Restart(n)
          \/ \E chainNonce \in ChainNonces[n] : SyncFromChain(n, chainNonce)

Spec == Init /\ [][Next]_vars
-----------------------------------------------------------------------------
(* Properties *)

Created(id) == intent[id].nonce # 0

\* The seen cache guards the balance: as long as an id has not fallen out of
\* NonceManager's cache, the balance moved up at most once for it, however often
\* the mesh delivers it and wherever the handlers stand
\* (isDuplicate and markSeen before the await, TransactionManager.ts:262-265).
CreditedAtMostOnce ==
    \A n \in Node, id \in TxId :
        id \notin forgotten[n] =>
            credits[n][id] + (IF id \in verifying[n] THEN 1 ELSE 0) <= 1

SumOf(l, type) ==
    MapThenSumSet(LAMBDA i : IF l.entries[i].type = type THEN l.entries[i].amount ELSE 0,
                  DOMAIN l.entries)

\* The balance is what the history says, though the two are written by separate
\* dispatches and only the history is deduplicated (LocalLedger.ts:52-69): so only
\* until an id is forgotten.
BalanceMatchesHistory ==
    \A n \in Node :
        forgotten[n] = {} =>
            ledger[n].balance + SumOf(ledger[n], "DEBIT")
                = opening[n] + SumOf(ledger[n], "CREDIT")

\* Two intents of one sender, between two restarts: the nonces differ, and their
\* order is the order of the vector clocks, although failed sends use up a nonce
\* without a clock tick, sends overlap and the chain moves the nonce
\* (TransactionManager.ts:92-100, NonceManager.ts:49-58).
NonceFollowsClock ==
    \A i, j \in TxId :
        /\ i # j /\ From(i) = From(j) /\ born[i] = born[j]
        /\ Created(i) /\ Created(j)
        => /\ intent[i].nonce # intent[j].nonce
           /\ intent[i].nonce < intent[j].nonce
                 <=> HappenedBefore(intent[i].vectorClock, intent[j].vectorClock)

\* ARCHITECTURE.md's causality invariant for intents: one that the sender had
\* created or verified, directly or through others, happened before.
CausesHappenedBefore ==
    \A id \in TxId : \A c \in causes[id] :
        HappenedBefore(intent[c].vectorClock, intent[id].vectorClock)

\* ... and the other half, while no device restarts: what happened before by the
\* clocks was known to the sender, so an unrelated intent is never ordered.
HappenedBeforeIsCausal ==
    (\A n \in Node : epoch[n] = 0) =>
        \A i, j \in TxId :
            /\ Created(i) /\ Created(j)
            /\ HappenedBefore(intent[i].vectorClock, intent[j].vectorClock)
            => i \in causes[j]

\* Across two devices: a CREDIT on the receiver answers to a DEBIT on the sender.
\* The exceptions are the code's: the sender restarted since, or its debit was
\* refused and the refusal ignored (TransactionManager.ts:134).
CreditHasDebit ==
    \A n \in Node, id \in TxId :
        HasEntry(ledger[n], id, "CREDIT") =>
            \/ HasEntry(ledger[From(id)], id, "DEBIT")
            \/ id \in refused
            \/ born[id] # epoch[From(id)]

\* A receipt on the sender's record means the receiver was credited, and never
\* that a relay answered or that the receiver only marked the id as seen.
ReceiptMeansCredited ==
    \A n \in Node, k \in Lists : \A i \in DOMAIN store[n].lists[k] :
        store[n].lists[k][i].status = "RECEIPTED"
            => store[n].lists[k][i].id \in everCredited

Total(f) == MapThenSumSet(LAMBDA n : f[n], Node)

\* No money from nothing, over the whole mesh, while no device restarts or forgets:
\* what the balances hold beyond the opening supply is what unfunded intents paid.
SupplyIsKept ==
    (\A n \in Node : epoch[n] = 0 /\ forgotten[n] = {}) =>
        Total([n \in Node |-> ledger[n].balance])
            <= Total(Initial)
               + MapThenSumSet(LAMBDA id : Amount(id), everCredited \cap refused)

\* "Full send flow: create intent, sign, debit, broadcast" (TransactionManager.ts:177):
\* what was broadcast since the last restart was debited.  The code does not keep it.
PublishedIsDebited ==
    \A id \in published :
        born[id] = epoch[From(id)] => HasEntry(ledger[From(id)], id, "DEBIT")
=============================================================================
