------------------------------- MODULE Wallet -------------------------------
(***************************************************************************)
(* services/wallet/WalletService.ts over SecureStorageService.ts: the      *)
(* account in memory and the three keychain entries that a set-up writes,  *)
(* loadWallet reads and clearWallet resets one after the other, each of    *)
(* which may fail, with the app killed at any await.                       *)
(*                                                                         *)
(* An account stands for its key, phrase and address; what may be missing  *)
(* is a set of at most one.  A keychain call takes effect when it is       *)
(* answered.  At most one call of clearWallet, one of loadWallet and one   *)
(* set-up of each account are under way.                                   *)
(***************************************************************************)
EXTENDS Naturals

CONSTANT Account  \* the accounts that are generated or imported

VARIABLES
    account,  \* account and accountAddress
    stored,   \* the keychain
    setup,    \* which write the set-up of each account waits for, 0 for none
    clearing, \* which reset clearWallet waits for, 0 for none
    loading,  \* which entry loadWallet waits for
    result,   \* history: how the promise of each account's last set-up was settled
    erased,   \* history: likewise of the last clearWallet
    crossed,  \* history: the set-ups that met another or a clearWallet
    torn      \* history: a clearWallet is under way, was cut short or met a set-up

resultVars == <<result, erased>>
walletVars == <<account, stored, setup, clearing, loading, resultVars, crossed, torn>>

Item == {"pk", "mnemonic", "address"}
Results == {"none", "returned", "threw"}
NoResult == [w \in Account |-> "none"]

TypeOK ==
    /\ account \in SUBSET Account
    /\ stored \in [Item -> SUBSET Account]
    /\ setup \in [Account -> 0 .. 3] /\ clearing \in 0 .. 3
    /\ loading \in {"none", "mnemonic", "pk"}
    /\ result \in [Account -> Results] /\ erased \in Results
    /\ crossed \in SUBSET Account /\ torn \in BOOLEAN

Init ==
    /\ account = {}
    /\ stored = [i \in Item |-> {}]
    /\ setup = [w \in Account |-> 0] /\ clearing = 0
    /\ loading = "none"
    /\ result = NoResult /\ erased = "none"
    /\ crossed = {} /\ torn = FALSE
-----------------------------------------------------------------------------
(* createWallet and importWallet *)

\* Mutant: the address is written first.
AddressFirst == <<"address", "pk", "mnemonic">>

StoreOrder == <<"pk", "mnemonic", "address">>

Active == {w \in Account : setup[w] > 0}
Meet(new) ==
    crossed' = IF Active = {} /\ clearing = 0 THEN {} ELSE crossed \cup Active \cup new

\* Up to the await on the first write: the account is in memory before any is stored.
SetUp(w) ==
    /\ setup[w] = 0
    /\ account' = {w}
    /\ setup' = [setup EXCEPT ![w] = 1]
    /\ result' = [result EXCEPT ![w] = "none"]
    /\ Meet({w})
    /\ UNCHANGED <<stored, clearing, loading, erased, torn>>

\* From an answered write on: the call goes on to the next, or returns.
GoOn(w) ==
    /\ setup' = [setup EXCEPT ![w] = IF @ = 3 THEN 0 ELSE @ + 1]
    /\ result' = IF setup[w] = 3 THEN [result EXCEPT ![w] = "returned"] ELSE result

\* The keychain has taken an entry.
Stored(w) ==
    /\ setup[w] > 0
    /\ stored' = [stored EXCEPT ![StoreOrder[setup[w]]] = {w}]
    /\ GoOn(w)
    /\ torn' = (torn /\ (setup[w] < 3 \/ w \in crossed))
    /\ UNCHANGED <<account, clearing, loading, erased, crossed>>

\* Mutant: a refused write is caught where it is made, and the call goes on.
RefusalCaught(w) ==
    /\ setup[w] > 0
    /\ GoOn(w)
    /\ UNCHANGED <<account, stored, clearing, loading, erased, crossed, torn>>

\* The keychain refuses: the call throws, and the account stays in memory.
SetUpFails(w) ==
    /\ setup[w] > 0
    /\ setup' = [setup EXCEPT ![w] = 0]
    /\ result' = [result EXCEPT ![w] = "threw"]
    /\ UNCHANGED <<account, stored, clearing, loading, erased, crossed, torn>>
-----------------------------------------------------------------------------
(* clearWallet *)

\* Mutant: the phrase goes before the key.
PhraseFirst == <<"mnemonic", "pk", "address">>

ClearOrder == <<"pk", "mnemonic", "address">>

ClearWallet ==
    /\ clearing = 0
    /\ account' = {}
    /\ clearing' = 1 /\ erased' = "none"
    /\ Meet({})
    /\ torn' = TRUE
    /\ UNCHANGED <<stored, setup, loading, result>>

Cleared ==
    /\ clearing > 0
    /\ stored' = [stored EXCEPT ![ClearOrder[clearing]] = {}]
    /\ clearing' = IF clearing = 3 THEN 0 ELSE clearing + 1
    /\ erased' = IF clearing = 3 THEN "returned" ELSE erased
    /\ torn' = (clearing < 3 \/ crossed # {})
    /\ UNCHANGED <<account, setup, loading, result, crossed>>

\* A reset fails, and those after it are not tried.
ClearFails ==
    /\ clearing > 0
    /\ clearing' = 0 /\ erased' = "threw"
    /\ UNCHANGED <<account, stored, setup, loading, result, crossed, torn>>
-----------------------------------------------------------------------------
(* loadWallet and hasWallet *)

LoadWallet ==
    /\ loading = "none"
    /\ loading' = "mnemonic"
    /\ UNCHANGED <<account, stored, setup, clearing, resultVars, crossed, torn>>

\* What a getter answers: the entry, or null also for a keychain that throws.
Answers(item) == {stored[item], {}}

\* The phrase is preferred; without one the key is asked for.
MnemonicRead(found) ==
    /\ loading = "mnemonic"
    /\ IF found = {} THEN loading' = "pk" /\ UNCHANGED account
                     ELSE loading' = "none" /\ account' = found
    /\ UNCHANGED <<stored, setup, clearing, resultVars, crossed, torn>>

\* Without a key either, loadWallet answers null and the memory stays as it is.
PrivateKeyRead(found) ==
    /\ loading = "pk"
    /\ loading' = "none"
    /\ account' = IF found = {} THEN account ELSE found
    /\ UNCHANGED <<stored, setup, clearing, resultVars, crossed, torn>>

\* The account that loadWallet finds in a keychain that answers.
Loadable == IF stored["mnemonic"] # {} THEN stored["mnemonic"] ELSE stored["pk"]

HasWallet == stored["address"] # {}

\* The app is killed and started again: the keychain is all that is left.
Restart ==
    /\ account' = {} /\ loading' = "none"
    /\ setup' = [w \in Account |-> 0] /\ clearing' = 0
    /\ result' = NoResult /\ erased' = "none"
    /\ crossed' = {}
    /\ UNCHANGED <<stored, torn>>

Next ==
    \/ \E w \in Account : SetUp(w) \/ Stored(w) \/ SetUpFails(w)
    \/ ClearWallet \/ Cleared \/ ClearFails
    \/ LoadWallet
    \/ \E found \in Answers("mnemonic") : MnemonicRead(found)
    \/ \E found \in Answers("pk") : PrivateKeyRead(found)
    \/ Restart

Spec == Init /\ [][Next]_walletVars
-----------------------------------------------------------------------------
(* Properties *)

\* What hasWallet reports can be loaded: the address is stored only with the phrase and
\* the key of some account.  It takes the order of the three writes
\* (WalletService.ts:38-40, 66-68), for overlapping set-ups too.  A clearWallet that was
\* cut short, or that met a set-up, is no longer covered: it resets the address last.
ReportedCanLoad ==
    (HasWallet /\ ~torn) => (stored["mnemonic"] # {} /\ stored["pk"] # {})

V == INSTANCE Vault WITH wallet <- Loadable, under <- Active, erasing <- clearing > 0

\* Three writes behave as one: what loadWallet finds changes only to an account whose
\* set-up is under way or met the erasure, or to nothing; a set-up or erasure that met
\* nothing returns, rather than throws, only with its account, or nothing, to be found;
\* and a restart changes nothing.  It takes that loadWallet prefers the phrase
\* (WalletService.ts:88), which is written after the key, that clearAll resets the key
\* before it (SecureStorageService.ts:109-112), and that a refused write or reset ends the
\* call (WalletService.ts:47, 74).
KeepsVault == V!Spec
=============================================================================
