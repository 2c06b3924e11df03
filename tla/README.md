# Off-Grid: models, checks and proofs

Off-Grid is a React Native app for payments without a network: phones form a Bluetooth
mesh, a payment is a signed intent that is flooded through it, every device keeps its own
ledger, and whoever gets online later lets a small backend send the debits to Algorand.
This directory models the services below the screens in TLA+, checks them with TLC and
proves the most important invariants with TLAPS. Paths are those of the repository: the
app's sources are in `src/`, the backend's in `backend/src/`.

## 1. The system

JavaScript runs one callback at a time. There are no data races, but every `await`, timer
and library callback is a point where other code runs, and state read before it may be
stale after it. Between devices, messages are lost, repeated, delayed and reordered.
Nothing but the wallet's keys is written to disk.

| Component | State | Operations | Interacts with |
|---|---|---|---|
| `TransactionManager` | the vector clock; handlers | `send` (create, sign, debit, broadcast), intent and receipt handlers | NonceManager, LocalLedger, transactionSlice, WalletService (sign), GossipProtocol (publish, onMessage) |
| `NonceManager` | nonce per address, bounded set of seen ids | `getNextNonce`, `syncFromChain`, `isDuplicate`, `markSeen` | TransactionManager; the backend's nonce route |
| `VectorClock` | map from address to counter | `increment`, `merge`, comparisons | TransactionManager |
| `LocalLedger`, `ledgerSlice` | balances, entries newest first | `credit`, `debit`, `markSettled`, `getUnsettled` | TransactionManager, SettlementService |
| `transactionSlice` | pending, verified and settled lists | `addTransaction`, `updateTransactionStatus`, `attachReceipt` | TransactionManager, SettlementService |
| `GossipProtocol` | seen messages, time of the last forward | `publish`, `handleIncoming`, `forward`, `clearSeenCache` | ConnectionManager, MessageChunker, the handlers |
| `MessageChunker` | reassembly buffers, cleanup timer | `chunk`, `receiveChunk`, `clear`, `destroy` | GossipProtocol (`chunk` only) |
| `ConnectionManager` | entry per peer with its retry and heartbeat timers | `connect`, `disconnect`, `disconnectAll`, `sendToDevice`, `broadcastToAll` | BleService |
| `BleService` | the BLE library's connected devices | scan, connect, disconnect, write | react-native-ble-plx |
| `DeviceDiscoveryService` | last-seen times, scan and cleanup intervals | `startContinuousDiscovery`, `stopDiscovery`, `destroy` | BleService |
| `MeshTopologyManager`, `meshSlice` | list of peers with the time each was last seen | `initialize`, `stop`, `announcePresence`, heartbeats, cleanup | GossipProtocol |
| `SettlementService` | running, processing | `start`, `stop`, `processSettlement` | LocalLedger, BackendService |
| `SettlementServiceFactory` | monitoring, checks under way | `startMonitoring`, `stopMonitoring`, manual trigger | SettlementService, BackendService |
| `BackendService`, backend routes | none of its own; the chain | `settleTx`, `getTxStatus`, `checkHealth`, balance, nonce, faucet | Algorand |
| `WalletService`, `SecureStorageService` | the wallet; key, mnemonic and address in the keychain | create, import, load, sign, clear | TransactionManager, screens |
| `KeyExchangeService`, `EncryptionService` | key pair, sessions per peer | exchange, rotate, derive, encrypt | no other service |
| Onboarding screens, `AppNavigator`, `uiSlice` | the stack of screens, loading flags, `isOnboarding` | create, import, verify, get started, go back | WalletService |
| Main screens | the store | render, `send`, manual sync | TransactionManager, SettlementServiceFactory |
| Contracts, deployment scripts | - | - | used by neither app nor backend |

What makes each correct, and what is hard about it:

- **Payments.** A payment is credited at most once however often it is delivered; a credit
  answers a debit; nonces and vector clocks agree; the clocks order exactly what is
  causally related; the balance is what the history says. Hard: sends and handlers overlap at
  every await, caches forget, devices restart with nothing.
- **Gossip.** No handler runs twice for a message the device remembers; every device of a
  connected mesh is reached; packets die out. Hard: dedup, ttl, the rate limit's timers and
  the bounded cache interact.
- **Connections.** No peer is stranded in a state that nothing will change; a lost link is
  noticed; retrying ends; a peer that was left stays away. Hard: calls overlap
  without a lock, and timers outlive the entries that hold them.
- **Topology.** A live peer stays in the list, a gone peer leaves it, the list is bounded.
  Hard: three kinds of timers at any phase, and messages that are lost or late.
- **Chunking.** What is put together is what was sent; nothing complete is lost to the
  cleanup, nothing incomplete stays. Hard: chunks in any order, repeated, and late.
- **Settlement.** One payment per attempt, one worker at a time, nothing is settled that was not
  paid, and debits are settled in the end. Hard: timeouts whose request went through.
- **Wallet and onboarding.** Three keychain entries behave as one; what is reported to be there
  can be loaded; whoever is in the main app has a wallet that is stored and backed up.
  Hard: each of three writes may fail or be the last before a crash, and a screen can be
  left while its handler awaits.
- **Key exchange and encryption.** Two devices that use each other's present keys hold one
  secret and understand each other. Hard: cached sessions, rotation, keys that arrive late.
- **Discovery.** Its timers run exactly when it is on, and no device is lost that keeps
  being found. Hard: a stop at any moment of a scan, scans that outlive it.

### Wiring

The services are complete, but at this commit little starts them: no code calls
`TransactionManager.initialize`, `setSelfId`, `setInitialBalance`, `ConnectionManager.connect`,
`MessageChunker.receiveChunk`, `WalletService.loadWallet`, `hasWallet` or `clearWallet`, anything
of `MeshTopologyManager`, `DeviceDiscoveryService`, `KeyExchangeService` or
`EncryptionService`, and no data listener of `BleService` is tied to
`GossipProtocol.handleIncoming`. Sending before `initialize` ends in a TypeError, the
clock being null. The models take each service as its own interface offers it: they
start when its `initialize` has run, and its callers are free to call in any order.

## 2. Modules

| Module | Models | Composed from |
|---|---|---|
| `VectorClock` | `services/ledger/VectorClock.ts` as operators on functions | - |
| `LocalLedger` | `services/ledger/LocalLedger.ts`, `store/ledgerSlice.ts` | - |
| `SeenCache` | the bounded, insertion-ordered sets of `NonceManager` and `GossipProtocol` | - |
| `TransactionSlice` | `store/transactionSlice.ts` | `SeenCache` |
| `Payments` | `TransactionManager.ts`, `NonceManager.ts` on all devices | `VectorClock`, `LocalLedger`, `TransactionSlice` |
| `Mesh` | abstract: what a handler may expect of the mesh | - |
| `Gossip` | `GossipProtocol.ts` on all devices, chunking and writing | `SeenCache`; implements `Mesh` |
| `Connections` | `ConnectionManager.ts` over `BleService.ts` on one device | - |
| `Topology` | `MeshTopologyManager.ts`, `store/meshSlice.ts` on one device | - |
| `Chunker` | `MessageChunker.ts` at one receiver | - |
| `Payout` | abstract: what the owner of a ledger may expect of its settlement | - |
| `Settlement` | `SettlementService.ts`, its factory, `BackendService.ts`, the backend's settle and tx routes, the chain | implements `Payout` |
| `Vault` | abstract: a keychain with one entry | - |
| `Wallet` | `WalletService.ts` over `SecureStorageService.ts` | implements `Vault` |
| `Onboarding` | the six onboarding screens, `AppNavigator.tsx`, `uiSlice.ts` | `Wallet` |
| `KeyExchange` | `KeyExchangeService.ts` on devices that hand their keys over | - |
| `Cipher` | `EncryptionService.ts` as operators on sequences of bytes | - |
| `SecureChannel` | what one device encrypts and another decrypts | `KeyExchange`, `Cipher` |
| `Discovery` | `DeviceDiscoveryService.ts` with the scanning half of `BleService.ts` | - |
| `PaymentsProofs`, `GossipProofs`, `ConnectionsProofs`, `TopologyProofs`, `SettlementProofs`, `WalletProofs` | theorems | the modules they name, with what those use |
| `Device` | the services of one device that share no state, side by side | `Chunker`, `Onboarding`, `SecureChannel`, `Discovery` |
| `DeviceProofs` | theorems | `Device`, with the theorems of `WalletProofs` |
| `DataProofs` | lemmas about the seen cache, sums over finite sets, and folds over sequences | `SeenCache` |

`MC...` modules give the constants their values for TLC. `PROJECT.json` maps every definition
to its lines of source; `Mutant:` in a comment marks a definition that is a deliberate
bug, used only to see that a property notices it.

### How state and actions correspond to the code

**Payments.** A step is what runs between two awaits. A call of `send` passes through
`CreateTransferIntent` (nonce taken, balance looked at, clock ticked, up to `await
signMessage`), `FinishSigning` (debit, store; what `debit` returns is ignored), `Publish`
and `PublishReturns`. `RejectInsufficient` and `SigningFails` are its two ways to throw. An
intent comes in by `ReceiveIntent` (dedup, mark, verify, merge the clock) and then
`CreditIntent` on the receiver or `StoreForRelay` on a relay; `PublishReceipt` and
`ReceiveReceipt` complete it. `Date.now()` is read twice while an intent is built, so
whether the signature fits it is a choice (`sigOk`). The mesh is abstract here: it hands a
published message to any device any number of times or never, but none of its own to the
publisher (`IntentArrives`, `ReceiptArrives`, as in `Mesh`); `Gossip` says what it really does. `Restart` empties everything, because everything is in memory, although
`ledgerSlice.ts:2` calls the ledger persisted.

**Gossip.** `Accept` is `handleIncoming` from the dedup to the forward, or to the timer of the
rate limit; `Resume` is what happens after that timer. Packets on the air and forwards
that wait are bags, so that copies count. Chunks of a large message travel as the code
lets them: the receiver parses each as if it were a message, so that it has neither type
nor ttl and is forwarded once with a ttl of `NaN`, which JSON turns into `null`.

**Mesh** is the promise: a device's handlers see a message only if it was published, never
its own and never one the device remembers. `Gossip!Promise` maps `remembered` to the
message ids in the seen cache.

**Connections.** `entry` is the map of connections. Calls that await the BLE library are
counted, because nothing keeps them from overlapping. Deleting an entry clears none of
its timers, and `scheduleReconnect` overwrites a `retryTimer` that runs: such timers are
counted in `stray` and fire like any other.

**Topology.** Time passes in ticks. The list maps a peer to the ticks since its `lastSeen`. Timers
count down and no tick passes one that is due. The messages of the other devices are in
`air` with their age. `registerPeer` checks the length before it looks whether the peer is
listed. `initialize` on a device whose timers run sets new ones and forgets the old ones, which
no `stop` clears: a cleanup timer among those (`leaked`) fires in any phase. The other devices
are taken to initialize once between two stops, so that each sends one row of heartbeats.

**Chunker.** Messages are short sequences of characters, the MTU is two. `Arrive` is
`receiveChunk`, which a chunk may reach more than once; `ArriveForeign` feeds it chunks
of another make. After `Destroy` no timer runs, while `receiveChunk` still works.

**Settlement.** Each call of `processSettlement` that got past `isProcessing` is a worker, and
two names are there for it, so that "only one at a time" is checked and not assumed. The
POST, the backend's handling of it and each poll are separate steps; a POST that the app
gave up is an orphan which the backend may still carry out. A batch is a set of which the
newest entry goes next: `entries` has each debit once, so that its place decides. A dropped
payment may be reported as pending for a while, until the node has forgotten it.

**Payout** is the promise: a debit comes to be owed, is paid once and once more for each attempt
that was lost before, and is marked once, after it was paid. `Settlement!P` maps `paid` to the
number of payments the chain has for a debit and `lost` to the attempts that threw; batches,
polls, monitor and checks are gone.

**Wallet.** `account` is what is in memory, `stored` the keychain. `SetUp` runs to the await on the first
write, as `createWallet` and `importWallet` both do; each `Stored` is one answered write and what runs
up to the next, `SetUpFails` a refused one. `ClearWallet`, `Cleared` and `ClearFails` are the
same for the resets. A getter of `SecureStorageService` answers null also when the keychain
throws (`Answers`). `Restart` leaves only the keychain. `result` and `erased` record how the
promise of the last call was settled: returned, or threw.

**Vault** is the promise: one wallet or none can be loaded. A set-up puts its wallet there, and
tells its caller so by returning (`Return`, with `result` "returned") only if it is there; one that
fails or is given up says that it did (`GiveUp`, "threw") and may leave its wallet or the one before.
Likewise an erasure takes away what is there, and returns (`EraseReturns`) only when nothing is.
The two outcomes are told apart by `result` and `erased`, which `Wallet` sets where the code
returns or throws, so a step of the code maps to one of them only. What is killed leaves what is there.
Set-ups that overlap one another, or an erasure, are promised less: they may return without
their wallet, or put it there while the erasure goes on.

**Onboarding** adds the stack of screens to `Wallet`. A handler sets `busy` and calls
the set-up; it returns to whatever is on the screen by then. `navigate` goes back to a
screen that is on the stack already, which is react-navigation's doing and not in the
repository. `backedUp` records whose phrase was entered, `ImportWallet` included.

**KeyExchange.** A key pair is its number on its device, a shared secret the pair of key
pairs it comes from. `DeriveSharedSecret(n, m, k)` may be given any key `m` ever had. `Cipher`
is `EncryptionService` byte for byte, with the widths and the exclusive or as constants;
`SecureChannel` feeds it the secrets of two sessions.

**Device** puts the five components side by side. They share no state, so a behaviour is one of
the component that `part` names.

**Discovery.** Each call of `startContinuousDiscovery` has a first scan and then its own
intervals; the two fields of the service hold those of the last one (`held`). The BLE library
runs one scan, `listener`; a scan that was stopped or taken over keeps its timeout (`left`).
A scan that reports an error is over by the library's doing: `BleService` stops nothing then.
Timers count down in ticks, as in `Topology`.

## 3. What is checked

| Run | Shows | Bounds, and why they are enough |
|---|---|---|
| `payments_race` | Clocks are exactly causality (`HappenedBeforeIsCausal`), nonces follow clocks (`NonceFollowsClock`), credits answer debits (`CreditHasDebit`), money comes only from refused debits (`SupplyIsKept`) | two devices, three payments of which one is unfunded, a chain that answers below or above the nonce: sends of one device overlap, cross with a payment back, and the nonce moves between |
| `payments_forget` | `CreditedAtMostOnce`, `BalanceMatchesHistory`, `ReceiptMeansCredited` | three devices, caches of one id, so that the second payment evicts the first and a replay is credited again; at most two credits of an id |
| `payments_restart` | `TypeOK`, `CausesHappenedBefore`, `CreditHasDebit` | three devices, the middle one, which is receiver, sender and relay, restarts once |
| `payments_overspend` (violated) | `PublishedIsDebited`: an unfunded intent is broadcast | as `payments_race` |
| `gossip_flood` | `EventuallyHandled`: the flood reaches all | a triangle with a tail, where the first copy may come the long way; ttl as long as the longest way; a chunked message in between |
| `gossip_evict` | `KeepsPromise` (implements `Mesh`), `NoStorm`, `Quiet`, `TypeOK` | a ring with caches of one id and two messages, so that packets go round past devices that forgot them; one lost packet, link or cache |
| `gossip_large` (violated) | `LargeEventuallyHandled`: chunks reach no handler | one message in two chunks |
| `connections` | `NeverStranded`, `PartedStaysParted`, `LossIsNoticed`, `RetriesEnd`, `TypeOK` | two peers, four calls, two lost links, two retries: enough for a call during another of the same peer, for a sweep over both peers and for a stray timer that meets a new entry |
| `topology` | `LiveIsKept`, `GoneIsRemoved`, `TypeOK` | two peers and room for one; a tick is 7.5 s, which keeps the code's ratio of heartbeat, cleanup and timeout; one heartbeat lost in a row and one tick of delay are the most that 45 s can bear |
| `device` | *Chunker*: `Intact`, `ArrivedIsReturned`, `StaleIsDropped` | a message of three chunks with a short last one, one of a single full chunk, and foreign chunks out of range, of another length and empty; a tick is 15 s |
| | *Wallet*: `ReportedCanLoad`, `KeepsVault` (implements `Vault`); *Onboarding*: `BackedUp` | two accounts: set-ups overlap each other, an erasure and a load, every call may fail, and the app may be killed at each await, any number of times. `KeepsVault` has two mutants: a reset in another order, and a refused write that is caught, after which the set-up returns with nothing stored |
| | *KeyExchange*: `SecretsAgree`; *SecureChannel*: `PeersUnderstand` | two devices, three key pairs each, so that a key may be late by two rotations; a session is as old as two ticks when it expires. Bytes of two bits, keys of three bytes, IVs of two, the library's exclusive or, and texts of none, one and four bytes: a text is longer than key and IV, whose lengths have no common factor |
| | *Discovery*: `RunsOnlyWhenOn`, `LostWasMissed` | two overlapping starts, one peer; a tick is 4 s or a little more: scan 2, period 3, cleanup 6, timeout 11, which keep the code's order of 10, 12, 22.5 and 45 s, the cleanup after a scan and a period included |
| | all: `DeviceTypeOK` | the five components share no state: a behaviour is one of the component that `part` names |
| `settlement` | `KeepsPayout` (implements `Payout`), `OnePaymentPerAttempt`, `WorkIsUnsettled`, `HaltedStaysOff`, `EventuallySettled`, `TypeOK` | three debits, one hopeless, a batch of two, two polls instead of 20, one fault |
| `settlement_twice` (violated) | `PaidOnce`: a debit is paid twice | as `settlement` |

Every property of a passing run has a mutant of the code that it catches, listed in
`PROJECT.json`. `CHECK_DEADLOCK FALSE` stands in the configurations where the system comes to
rest, each with the reason.

Some properties carry a condition, and the condition is a fact about the code.
`CreditedAtMostOnce` and `BalanceMatchesHistory` hold only while the id is in the cache:
the history is deduplicated, the balance is not. `CreditHasDebit` and `SupplyIsKept` exempt
debits that were refused, `HappenedBeforeIsCausal` needs that no device restarts.
`PartedStaysParted` speaks of a peer that was left with nothing of its under way.
`EventuallySettled` needs fewer hopeless debits than a batch holds, `EventuallyHandled` a ttl of at
least the number of devices minus one: with `DEFAULT_TTL` 7, a chain of nine devices is
too long. `LiveIsKept` counts heartbeats, and announcements only of peers that were not
listed. `HaltedStaysOff` speaks of a stop with no connectivity check under way, `RunsOnlyWhenOn`
and `LostWasMissed` of no stop during a first scan, `BackedUp` of set-ups that do not overlap. The models
reach the cases left out, and the code does not keep the promise there (the list of
disagreements below says how). `ReportedCanLoad` exempts an erasure that was cut short or met a set-up.
`KeepsPayout` says that a debit marked was paid, not that the payment was confirmed. `SecretsAgree` needs that both sessions are under
present keys: a session under a replaced key is served until it expires.

### Fairness

- *Gossip*: what was written arrives or is lost, writes return, timers fire.
- *Connections*: timers fire and the library answers every call; that a connect ever
  succeeds is not assumed.
- *Topology*: time goes on, timers fire, those no field holds included, a message arrives or
  is lost within its delay.
- *Settlement*: requests are answered or time out (`BackendService` aborts them after 8 s),
  timers fire, promises resume. None is assumed for the chain: a payment may stay
  pending for longer than the app polls.

Each is weak fairness of something that the JavaScript event loop, the BLE library's
timeout or an `AbortController` brings about. `Payments` and the components of `device`
state safety only.

### Disagreements between the code and what is said of it

Shown by a run:

- `TransactionManager.ts:134` (`payments_overspend`): the unfunded broadcast.
- `GossipProtocol.ts:69` (`gossip_large`): the lost large messages.
- `SettlementService.ts:92` (`settlement_twice`): the double payment.

Met while modelling, without a run of their own:

- `TransactionManager.ts:127`: the time is read once for what is signed and once for the
  intent; when a millisecond passes in between, all receivers refuse the payment.
- `transactionSlice.ts:97`: a receipt changes the status and leaves the record in the pending list,
  where `types/transaction.ts:74-75` puts only CREATED, SIGNED and GOSSIPED; a publish that
  returns after the receipt overwrites RECEIPTED with GOSSIPED.
- `GossipProtocol.ts:164`: a forward that waited does not look at the window again, so that
  several are sent at once.
- `SettlementService.ts:123`: after 20 polls a payment counts as settled without a confirmation.
- `SettlementService.ts:73`: as many hopeless debits as a batch holds starve all older ones.
- `ConnectionManager.ts:68`: `disconnect` is undone by a connect under way or by a stray timer.
- `MeshTopologyManager.ts:73`: when the list is full a listed peer's announcement is ignored.
- `MessageChunker.ts:171`: an incomplete message lives for up to two timeouts, where
  `ARCHITECTURE.md:778` has one; and `CHUNK_HEADER_SIZE` is far less than what the JSON of a
  chunk adds, so that a full chunk does not fit the MTU.
- `SettlementServiceFactory.ts:36`: a connectivity check under way starts the service again after
  `stopMonitoring`, with no monitor left to stop it.
- `DeviceDiscoveryService.ts:45`: `stopDiscovery` during the first scan comes before the intervals
  exist: they are set afterwards, and a second start overwrites the fields that hold them, so that
  nothing can clear them any more.
- `ImportWalletScreen.tsx:41`: who leaves the import while it is awaited and creates a wallet lands in
  the main app when the import returns, with the created wallet in use and its phrase never shown.
- `MeshTopologyManager.ts:62`: a second `initialize` leaks the timers of the first.
- `SecureStorageService.ts:109`: a `clearAll` cut short after the phrase leaves the address, so that
  `hasWallet` reports a wallet that cannot be loaded.
- `CreateWalletScreen.tsx:33`: who goes back while a wallet is created and sets up another may verify
  the phrase of one wallet and use the other.
- `WalletService.ts:57`: the account index, which `ImportWalletScreen.tsx` asks for and checks, is ignored.
- `WalletService.ts:85`, `134`: nothing calls `loadWallet` or `hasWallet`, so that after a restart the user is
  back at the Welcome screen although the wallet is stored.
- `EncryptionService.ts:21` says AES-256-GCM; the code, and its own comment at line 37, have an
  exclusive or.

## 4. What is proved

For all devices, peers, topologies, payments and bounds that satisfy the named assumptions
of the modules:

| Theorem | Says |
|---|---|
| `PaymentsProofs!TypeCorrect` | the payment services keep their types |
| `PaymentsProofs!CreditedOnce` | `CreditedAtMostOnce` |
| `PaymentsProofs!CreditAnswersDebit` | `CreditHasDebit` |
| `PaymentsProofs!CausesHappenedBeforeHolds` | `CausesHappenedBefore` |
| `PaymentsProofs!NonceFollowsClockHolds` | `NonceFollowsClock` |
| `PaymentsProofs!HappenedBeforeIsCausalHolds` | `HappenedBeforeIsCausal` |
| `PaymentsProofs!ReceiptMeansCreditedHolds` | `ReceiptMeansCredited` |
| `PaymentsProofs!BalanceMatchesHistoryHolds` | `BalanceMatchesHistory` |
| `PaymentsProofs!SupplyIsKeptHolds` | `SupplyIsKept` |
| `GossipProofs!TypeCorrect` | caches, packets and waiting forwards keep their types (`TypeOK`) |
| `GossipProofs!CarriedAlways` | every packet on the way is well formed and of a published message |
| `GossipProofs!Refinement` | `Gossip` implements `Mesh` (`KeepsPromise`) |
| `GossipProofs!NoStormAlways` | `NoStorm` |
| `ConnectionsProofs!TypeCorrect` | the connection entries keep their types and the retry limit |
| `ConnectionsProofs!NeverStrandedAlways` | `NeverStranded` |
| `ConnectionsProofs!PartedAlways` | `PartedStaysParted` |
| `TopologyProofs!TypeCorrect` | the list of peers keeps its types and its limit (`TypeOK`) |
| `TopologyProofs!LiveIsKeptAlways` | `LiveIsKept` |
| `SettlementProofs!TypeCorrect` | the settlement keeps its types (`TypeOK`) |
| `SettlementProofs!WorkIsUnsettledAlways` | `WorkIsUnsettled` |
| `SettlementProofs!SettledWasPaidAlways` | `SettledWasPaid`: what is settled has a payment, which `KeepsPayout` implies |
| `SettlementProofs!OnePaymentAlways` | `OnePaymentPerAttempt` |
| `SettlementProofs!PayoutIsKept` | `Settlement` implements `Payout` (`KeepsPayout`) |
| `SettlementProofs!HaltedStaysOffAlways` | `HaltedStaysOff` |
| `WalletProofs!TypeCorrect` | memory, keychain and calls keep their types |
| `WalletProofs!ReportedCanLoadAlways` | `ReportedCanLoad` |
| `WalletProofs!VaultIsKept` | `Wallet` implements `Vault` (`KeepsVault`): one entry, and set-ups and erasures that return only when done |
| `WalletProofs!BackedUpAlways` | `BackedUp` |
| `DeviceProofs!ExchangeTypesAlways` | keys and sessions keep their types |
| `DeviceProofs!SecretsAgreeAlways` | `SecretsAgree` |
| `DeviceProofs!PeersUnderstandAlways` | `PeersUnderstand` |
| `DeviceProofs!DiscoveryTypesAlways` | the starts, scans and timers of the discovery keep their types |
| `DeviceProofs!RunsOnlyWhenOnAlways` | `RunsOnlyWhenOn` |
| `DeviceProofs!LostWasMissedAlways` | `LostWasMissed` |
| `DeviceProofs!ChunkerTypesAlways` | the buffers keep their types, and none is complete or empty |
| `DeviceProofs!IntactAlways` | `Intact` |
| `DeviceProofs!ArrivedIsReturnedAlways` | `ArrivedIsReturned` |
| `DeviceProofs!StaleIsDroppedAlways` | `StaleIsDropped` |
| `DeviceProofs!DeviceRunsItsServices` | `Device` is each of its components by itself |
| `DeviceProofs!DeviceTypesAlways` | `DeviceTypeOK` |
| `DeviceProofs!DeviceKeepsAll` | the other properties of run `device`, of `Device` as a whole |

Assumptions are only those of the modules that declare the constants (`OrderAssumption`,
`BoundsAssumption`, `GossipAssumption`, `ConnectionsAssumption`, `SettlementAssumption`...), which
TLC evaluates in every run. Four say more than what kind of value a constant is:

- `FinitenessAssumption` (`Payments`, `Gossip`): finitely many devices, and payments, without
  which the sums mean nothing.
- `DiscoveryAssumption`: two periods and two scans fit into the timeout, one of each into the
  time between two cleanups. The code's 10, 12, 22.5 and 45 s satisfy it.
- `ForeignAssumption` (`Chunker`): a chunk carries nothing that tells whose it is, so `Intact` can
  only hold if a chunk of another make that fits among those of a message is one of them
  or empty, and such chunks do not make up a message themselves.
- `XorAssumption` (`Cipher`): three laws of JavaScript's `^` on bytes. `ByteXor` is a constant because
  the library's exclusive or is a recursive operator, which the provers cannot use; the run
  gives `ByteXor` that operator, and TLC finds that it has the laws.

The arguments:

- *CreditedOnce.* The property is not inductive: it says nothing of an id that was credited
  and then is no longer in the cache. The invariant adds that an id that was credited, or
  whose handler waits, is in the seen cache or among those forgotten (`SeenGuards`). With
  it, `ReceiveIntent` finds no earlier credit, because `isDuplicate` and `markSeen` come
  before the await. `DataProofs` says what adding to a bounded cache keeps and drops.
- *CreditAnswersDebit.* Two chains of facts: on the sender, from a call that has been signed
  to its debit or its refusal (`SendFlow`); on the receiver, from a credit back to an intent that was
  published (`ReceiveFlow`). A restart of the sender breaks the first chain, which the
  property exempts by epochs.
- *Clocks.* `ClockSteps` sorts every step of `Payments` into four kinds: one that stamps an intent,
  one that takes an intent in and may merge its clock, a restart, and one that touches no clock
  and no stamp and lowers no nonce counter. `CausesHappenedBefore` needs that what a device knows is below its clock
  (`KnownIsBelow`), which a merge and a tick keep and a restart makes empty. `NonceFollowsClock`
  needs that what a sender stamped since its last restart is not above its counter and its clock
  (`StampedBelow`), so that the next stamp is above all of it in both. `HappenedBeforeIsCausal`, the
  converse of the first, holds only while nobody restarts: a device's own component is then
  the largest anywhere (`OwnIsLargest`), so that a component that reaches a stamp's own shows
  that the intent is known or a cause (`ReachedIsKnown`, `ReachedIsCause`).
- *NoStorm.* `NoStorm` alone says nothing of what is still on its way. `Traced` gives each copy
  on the air, each forward that waits and each call of a handler a way of its own: `A` is the
  ways whose last hop is on the air, `H` those whose last hop was handled, `L` what is left of
  the timers of those in `H` that wait. All but the last hop of each is in `H` and no longer
  waits (`Grown`), so a forward only leads to ways that are new (`ForwardGrows`), and a packet that
  is lost or dropped takes its way with it. What a forgetful cache lets through again has then come along
  another way. In the end `SumOfParts` adds up the calls device by device and `SumOfCover` the
  ways by their hops.
- *ReceiptMeansCredited.* `ReceiptFlow` follows the receipt from the await of its signature through the
  mesh to the record, wherever the reducers of `transactionSlice` move that record.
- *Sums.* `MapThenSumSet` is a recursive function, and the library's induction theorems take an
  operator that the provers cannot instantiate. `DataProofs` has the two inductions it needs
  over sets instead, of naturals and of the subsets of a finite set, from the fact that
  `<` on the naturals is well-founded; from them, how a sum changes with one member and with one value.
- *BalanceMatchesHistory.* Not inductive by itself: balance and history are written by two dispatches,
  and only the second looks for duplicates. `Accounted` says where an id in a history comes
  from: the device credited it, or it is a call of its own, which never waits as an intent to
  credit. So, while nothing was forgotten, what is debited or credited is new to the
  history (`NewToHistory`), and both sides change alike.
- *SupplyIsKept.* `SupplyBound` counts what is under way with the balances: a payment that was
  debited and that nobody was credited for yet (`UnderWay`). A debit moves its amount from the one to the
  other, the credit moves it on, and a credit without a debit is of a refused one.
- *Gossip's types.* `Bagged`: the bags are bags, and the waiting forwards are finitely many, or
  nothing could be said of the bag that a tick makes of them.
- *Refinement.* `CarriedAlways` provides that what arrives was published. A step of
  `Accept` that calls a handler maps to `Mesh!Handle`, trimming and clearing to
  `Mesh!Forget`, everything else stutters.
- *Connections.* The invariant is `TypeOK`, `Moving` and `Parted` for each peer. `Moving` is
  `NeverStranded` itself; it is inductive because each call gives an entry its new state in
  the same step as its timer or its await. `Parted` needs that a parted peer has no call
  and no timer at all, which rules out each action that could revive it. Since an action
  touches one peer, the lemma `OnePeer` reduces each step to that peer.
- *LiveIsKept.* The age of a live peer's entry is made up of the heartbeats missed since one arrived, of
  the one on its way and of the phase of the peer's timer (`Young`); of each peer at most one
  heartbeat is on its way, and it left before the present phase began, because it is gone
  before the next is due (`OneBeat`). With the assumption on the timeout, no live entry is stale
  when the cleanup timer fires (`YoungIsFresh`).
- *Settlement.* `Sane` says of each worker how its job, its request and `isProcessing` fit
  together: a job that polls has the hash of a payment of its entry, a request that was
  answered has one too, and no other worker is at work while `isProcessing` is set. With it,
  nothing but the one worker settles an entry of the batch (`WorkIsUnsettled`), and what it
  settles was paid. For the payments of a debit, `Counted` counts the one of the attempt under way
  apart: payments and orphans are at most the failures, and one more when the debit is
  settled or its attempt has paid. `OnePaymentPerAttempt` itself is not inductive, since it
  does not say that an entry about to be posted has no payment beyond its failures.
  `Halt` adds to `HaltedStaysOff` that monitoring is off and no check is under way.
- *PayoutIsKept.* `Owed` adds to this that whatever is attempted, or may still be paid for an attempt
  given up, is in the ledger. Then an answer of the backend, or an orphan carried out, maps
  to `Pay`: by `Counted` no payment is there yet beyond the attempts lost, since the debit is
  not both settled and open, and an orphan itself counts. A poll that marks maps to `Settle`, an attempt
  that throws to `Lose`, a debit to `Owe`, and every other step stutters.
- *ReportedCanLoad* and *VaultIsKept.* Writes happen in the order key, phrase, address, and so do resets.
  Unless an erasure was cut short or met a set-up, `InOrder` says what each stage finds stored. For set-ups
  and erasures that met nothing, `Kept` says that what was written is still there, and `TakenAway` that
  what was taken away has not come back; `Single` that an entry holds one account. `Loadable` changes in one step of the three,
  which maps to `Put` or `Forget`. The third write of a set-up that met nothing maps to `Return`, for
which `Kept` says that the phrase written before is still what is loaded; the third reset likewise
to `EraseReturns`, by `TakenAway`. A refusal maps to `GiveUp` or `EraseFails`; the others stutter.
- *BackedUp.* Every step of the screens is a step of `Wallet`, whose invariant is used as it is. To it
  comes what each screen on the stack rests on (`Fits`): from the recovery phrase on, and
  unless two set-ups have met, the three entries hold the account in memory, none is being
  written, and the phrase shown is that account's. The stack is in order of the flow
  (`Ordered`), so that going back only uncovers an earlier screen.
- *SecretsAgree.* `FreshSecrets`: the secret of a session is that of the own present key and of the peer's key
  the session names, because `rotateKeys` drops the sessions of the key before. Two
  sessions under present keys then have the secret of the same two keys.
- *PeersUnderstand.* Folding a secret and mixing it four times gives a key of bytes: `FoldType` shows of any
  fold that it has the type of its steps, by induction over the sets of places that `FoldLeft`
  recurses on. `XorTwice` follows from the laws: key and IV, taken once more, give the byte back;
  `DecryptUndoesEncrypt` does the same along the text, behind the IV that is split off. That both sides derive
  one key is *SecretsAgree*.
- *RunsOnlyWhenOn.* As long as no stop fell into a first scan, there is one start or none (`OneStart`),
  and the fields that `stopDiscovery` clears are that start's.
- *LostWasMissed.* `Bounded` gives the age a report may have, from the scans that have ended since and from
  the phase of the start's timers. It needs that only the running start listens, with a scan
  that has not timed out (`ListensForRunning`), that the scan of a round begins with the round
  (`InStep`), and that a report is heard while a scan listens (`FoundWhileListening`).
- *Intact.* Each text in a buffer came in a chunk of that message, place and length (`BufferOK`). With
  `ForeignAssumption`, a complete buffer without an empty place then holds the pieces that
  `chunk` made (`CompleteIsText`), and these add up to the text for every text and MTU (`PiecesMakeText`).
- *ArrivedIsReturned.* Until it is returned, each piece of a message of which nothing was lost is on its
  way or buffered (`Pending`), and the buffer is no older than any piece on its way (`Whole`): so
  the cleanup cannot drop it, and the last piece to arrive completes it.
- *StaleIsDropped.* `Aging`: the age of a buffer and what is left of the cleanup timer are at most two
  timeouts together.
- *The device.* A step of `Device` is a step of each component or leaves it alone (`DeviceSteps`), so
  that its behaviours are behaviours of each, and what is proved of a component holds of
  it. Only for the screens something is to be said: they move alone or with their
  wallet, so `ScreensInv` asks for `UiInv` while they are what moves, and for `isOnboarding` otherwise.

Only model-checked: all liveness (`EventuallyHandled`, `Quiet`, `LossIsNoticed`, `RetriesEnd`,
`GoneIsRemoved`, `EventuallySettled`), which is out of the prover's reach. Every invariant and
every other property of the passing runs is proved.

## 5. What is not modelled

- `TransactionSerializer`: JSON only; a payload it rejects is a lost message.
- The backend's balance, nonce and faucet routes: they keep no state; the nonce's answer is
  free in `Payments`.
- The main screens: they render the store, and their calls (`send`, manual sync) are the free inputs of
  `Payments` and `Settlement`. The balance and faucet handlers of Settings do nothing without an
  address in the store, and no code sets one.
- `walletSlice`: none of its actions is dispatched.
- `BleService.destroy` and the monitor of incoming data: no code reaches them.
- Contracts and deployment scripts: used by neither app nor backend.
- Cryptography: a signature either fits the intent or does not; ECDH gives both sides the same
  secret, keccak256 some bytes of it.
- The JSON form of chunks and messages, except where it decides what happens (`NaN` as `null` in `Gossip`).

## 6. Plan

Done: the payment core, the mesh below it, connections, topology and chunking, settlement,
the wallet under its screens, key exchange and encryption, and discovery. What would add most
from here:

1. An abstract `Payment` that each transfer implements (created, debited, credited, receipted).
2. Once the app wires discovery to connections and data to the mesh, the composition of
   `Discovery`, `Connections`, `Chunker` and `Gossip` on one device; `Device` would then have steps
   of several components at once.
