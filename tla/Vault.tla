-------------------------------- MODULE Vault --------------------------------
(***************************************************************************)
(* What a user may rely on of the keychain: which wallet the next          *)
(* loadWallet would find, whatever writes have failed and whenever the app *)
(* was killed, and what a set-up or an erasure says of it by returning.    *)
(***************************************************************************)
CONSTANT Account

VARIABLES
    wallet,  \* the wallet loadWallet would find: a set of at most one
    under,   \* the wallets being set up
    erasing, \* whether the wallet is being erased
    result,  \* how the last set-up of each account ended, for its caller
    erased,  \* how the last erasure ended
    crossed  \* the set-ups that met another set-up or an erasure

vars == <<wallet, under, erasing, result, erased, crossed>>

NoResult == [w \in Account |-> "none"]

Init ==
    /\ wallet = {} /\ under = {} /\ erasing = FALSE /\ crossed = {}
    /\ result = NoResult /\ erased = "none"

Quiet == under = {} /\ ~erasing

Meet(new) == crossed' = IF Quiet THEN {} ELSE crossed \cup under \cup new

SetUp(w) ==
    /\ w \notin under
    /\ under' = under \cup {w}
    /\ result' = [result EXCEPT ![w] = "none"]
    /\ Meet({w})
    /\ UNCHANGED <<wallet, erasing, erased>>

\* A wallet comes to be found while it is being set up, or while the wallet it met
\* is being erased.
Put(w) ==
    /\ w \in under \/ (erasing /\ w \in crossed)
    /\ wallet' = {w}
    /\ UNCHANGED <<under, erasing, result, erased, crossed>>

\* A set-up that met nothing returns only when its wallet would be found.
Return(w) ==
    /\ w \in under
    /\ w \in crossed \/ wallet = {w}
    /\ under' = under \ {w}
    /\ result' = [result EXCEPT ![w] = "returned"]
    /\ UNCHANGED <<wallet, erasing, erased, crossed>>

\* A set-up that fails may leave its wallet or the one before, and says that it failed.
GiveUp(w) ==
    /\ w \in under
    /\ under' = under \ {w}
    /\ result' = [result EXCEPT ![w] = "threw"]
    /\ UNCHANGED <<wallet, erasing, erased, crossed>>

Erase ==
    /\ ~erasing
    /\ erasing' = TRUE
    /\ erased' = "none"
    /\ Meet({})
    /\ UNCHANGED <<wallet, under, result>>

Forget ==
    /\ erasing
    /\ wallet' = {}
    /\ UNCHANGED <<under, erasing, result, erased, crossed>>

\* An erasure that met no set-up returns only when nothing would be found.
EraseReturns ==
    /\ erasing
    /\ crossed # {} \/ wallet = {}
    /\ erasing' = FALSE /\ erased' = "returned"
    /\ UNCHANGED <<wallet, under, result, crossed>>

EraseFails ==
    /\ erasing
    /\ erasing' = FALSE /\ erased' = "threw"
    /\ UNCHANGED <<wallet, under, result, crossed>>

\* The app is killed: what would be found stays, and no caller is left.
Restart ==
    /\ under' = {} /\ erasing' = FALSE /\ crossed' = {}
    /\ result' = NoResult /\ erased' = "none"
    /\ UNCHANGED wallet

Next ==
    \/ \E w \in Account : SetUp(w) \/ Put(w) \/ Return(w) \/ GiveUp(w)
    \/ Erase \/ Forget \/ EraseReturns \/ EraseFails
    \/ Restart

Spec == Init /\ [][Next]_vars
=============================================================================
