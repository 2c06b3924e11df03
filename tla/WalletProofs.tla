---------------------------- MODULE WalletProofs ----------------------------
(***************************************************************************)
(* Proofs about Wallet, for any accounts: its types, that what hasWallet   *)
(* reports can be loaded, that the keychain's three entries behave as the  *)
(* one wallet of Vault, and that the screens of Onboarding end in the main *)
(* app only with a wallet that is stored and backed up.                    *)
(***************************************************************************)
EXTENDS Onboarding, SequenceTheorems, TLAPS

(* The inductive invariant *)

\* An entry holds one account or none.
Single == \A i \in Item : stored[i] = {} \/ \E w \in Account : stored[i] = {w}

\* A set-up that met nothing is alone.
Alone == \A w \in Active \ crossed : Active = {w} /\ clearing = 0

\* What a set-up that met nothing has stored is still there.
Kept ==
    \A w \in Active \ crossed :
        /\ setup[w] >= 2 => stored["pk"] = {w}
        /\ setup[w] = 3 => stored["mnemonic"] = {w}

\* What came back after its reset is of a set-up that met the erasure.
TakenAway ==
    /\ clearing >= 2 => stored["pk"] \subseteq crossed
    /\ clearing = 3 => stored["mnemonic"] \subseteq crossed

\* Unless a clearWallet is to blame, the entries come in their order.
InOrder ==
    ~torn =>
        /\ clearing = 0
        /\ stored["address"] # {} => stored["pk"] # {} /\ stored["mnemonic"] # {}
        /\ \A w \in Account : /\ setup[w] >= 2 => stored["pk"] # {}
                              /\ setup[w] = 3 => stored["mnemonic"] # {}

IInv == TypeOK /\ Single /\ Alone /\ Kept /\ TakenAway /\ InOrder

(* Types *)

LEMMA TypeOKInit == Init => TypeOK
<1> SUFFICES ASSUME Init PROVE TypeOK
  OBVIOUS
<1>1. stored \in [Item -> SUBSET Account]
  BY DEF Init
<1>2. setup \in [Account -> 0 .. 3] /\ clearing \in 0 .. 3
  BY DEF Init
<1>3. account \in SUBSET Account /\ crossed \in SUBSET Account
  BY DEF Init
<1>4. loading \in {"none", "mnemonic", "pk"} /\ torn \in BOOLEAN
  BY DEF Init
<1>5. result \in [Account -> Results] /\ erased \in Results
  BY DEF Init, NoResult, Results
<1> QED
  BY <1>1, <1>2, <1>3, <1>4, <1>5 DEF TypeOK

LEMMA TypeOKNext == TypeOK /\ [Next]_walletVars => TypeOK'
<1> SUFFICES ASSUME TypeOK, [Next]_walletVars PROVE TypeOK'
  OBVIOUS
<1> USE DEF TypeOK, Item, Results, resultVars
<1>1. ASSUME NEW w \in Account, SetUp(w) PROVE TypeOK'
  BY <1>1 DEF SetUp, Meet, Active
<1>2. ASSUME NEW w \in Account, Stored(w) PROVE TypeOK'
  <2>1. StoreOrder[setup[w]] \in Item
    BY <1>2 DEF Stored, StoreOrder
  <2>2. (IF setup[w] = 3 THEN 0 ELSE setup[w] + 1) \in 0 .. 3
    BY <1>2 DEF Stored
  <2> QED
    BY <1>2, <2>1, <2>2 DEF Stored, GoOn
<1>3. ASSUME NEW w \in Account, SetUpFails(w) PROVE TypeOK'
  BY <1>3 DEF SetUpFails
<1>4. ASSUME ClearWallet PROVE TypeOK'
  BY <1>4 DEF ClearWallet, Meet, Active
<1>5. ASSUME Cleared PROVE TypeOK'
  <2>1. ClearOrder[clearing] \in Item
    BY <1>5 DEF Cleared, ClearOrder
  <2> QED
    BY <1>5, <2>1 DEF Cleared
<1>6. ASSUME ClearFails \/ LoadWallet PROVE TypeOK'
  BY <1>6 DEF ClearFails, LoadWallet
<1>7. ASSUME NEW found \in Answers("mnemonic"), MnemonicRead(found) PROVE TypeOK'
  BY <1>7 DEF MnemonicRead, Answers
<1>8. ASSUME NEW found \in Answers("pk"), PrivateKeyRead(found) PROVE TypeOK'
  BY <1>8 DEF PrivateKeyRead, Answers
<1>9. ASSUME Restart PROVE TypeOK'
  BY <1>9 DEF Restart, NoResult
<1>10. ASSUME UNCHANGED walletVars PROVE TypeOK'
  BY <1>10 DEF walletVars
<1> QED
  BY <1>1, <1>2, <1>3, <1>4, <1>5, <1>6, <1>7, <1>8, <1>9, <1>10 DEF Next

\* Whatever writes fail and whenever the app is killed, the state keeps its types.
THEOREM TypeCorrect == Spec => []TypeOK
<1> QED
  BY TypeOKInit, TypeOKNext, PTL DEF Spec

LEMMA IInvInit == Init => IInv
<1> SUFFICES ASSUME Init PROVE IInv
  OBVIOUS
<1>1. TypeOK
  BY TypeOKInit
<1>2. Active = {}
  BY DEF Init, Active
<1>3. Single
  BY DEF Init, Single
<1>4. Alone /\ Kept
  BY <1>2 DEF Alone, Kept
<1>5. TakenAway
  BY DEF Init, TakenAway
<1>6. InOrder
  BY DEF Init, InOrder, Item
<1> QED
  BY <1>1, <1>3, <1>4, <1>5, <1>6 DEF IInv

(* What the writes and resets do *)

\* A set-up writes its entries in the order of WalletService.ts:38-40.
LEMMA StoredEffect ==
    ASSUME TypeOK, NEW w \in Account, Stored(w)
    PROVE  /\ setup[w] = 1 => stored' = [stored EXCEPT !["pk"] = {w}]
           /\ setup[w] = 2 => stored' = [stored EXCEPT !["mnemonic"] = {w}]
           /\ setup[w] = 3 => stored' = [stored EXCEPT !["address"] = {w}]
           /\ setup[w] \in 1 .. 3
           /\ setup'[w] = IF setup[w] = 3 THEN 0 ELSE setup[w] + 1
           /\ \A v \in Account \ {w} : setup'[v] = setup[v]
           /\ clearing' = clearing /\ crossed' = crossed /\ erased' = erased
           /\ setup[w] # 3 => result' = result
           /\ setup[w] = 3 => result' = [result EXCEPT ![w] = "returned"]
<1>1. setup[w] \in 1 .. 3
  BY DEF TypeOK, Stored
<1>2. StoreOrder[1] = "pk" /\ StoreOrder[2] = "mnemonic" /\ StoreOrder[3] = "address"
  BY DEF StoreOrder
<1>3. stored' = [stored EXCEPT ![StoreOrder[setup[w]]] = {w}]
  BY DEF Stored
<1>4. /\ setup'[w] = IF setup[w] = 3 THEN 0 ELSE setup[w] + 1
      /\ \A v \in Account \ {w} : setup'[v] = setup[v]
      /\ clearing' = clearing /\ crossed' = crossed /\ erased' = erased
      /\ setup[w] # 3 => result' = result
      /\ setup[w] = 3 => result' = [result EXCEPT ![w] = "returned"]
  BY DEF TypeOK, Stored, GoOn
<1> QED
  BY <1>1, <1>2, <1>3, <1>4

\* clearAll resets them in the order of SecureStorageService.ts:109-112.
LEMMA ClearedEffect ==
    ASSUME TypeOK, Cleared
    PROVE  /\ clearing = 1 => stored' = [stored EXCEPT !["pk"] = {}] /\ clearing' = 2
           /\ clearing = 2 => stored' = [stored EXCEPT !["mnemonic"] = {}] /\ clearing' = 3
           /\ clearing = 3 => stored' = [stored EXCEPT !["address"] = {}] /\ clearing' = 0
           /\ clearing \in 1 .. 3 /\ setup' = setup /\ crossed' = crossed /\ result' = result
           /\ erased' = IF clearing = 3 THEN "returned" ELSE erased
<1>1. /\ clearing \in 1 .. 3 /\ setup' = setup /\ crossed' = crossed /\ result' = result
      /\ erased' = IF clearing = 3 THEN "returned" ELSE erased
  BY DEF TypeOK, Cleared
<1>2. ClearOrder[1] = "pk" /\ ClearOrder[2] = "mnemonic" /\ ClearOrder[3] = "address"
  BY DEF ClearOrder
<1>3. stored' = [stored EXCEPT ![ClearOrder[clearing]] = {}]
  BY DEF Cleared
<1>4. clearing' = IF clearing = 3 THEN 0 ELSE clearing + 1
  BY DEF Cleared
<1>5. /\ clearing = 1 => clearing' = 2
      /\ clearing = 2 => clearing' = 3
      /\ clearing = 3 => clearing' = 0
  BY <1>4
<1> QED
  BY <1>1, <1>2, <1>3, <1>5

\* Who sets up an account, or erases one, meets all that is under way.
LEMMA MeetEffect ==
    ASSUME NEW new, Meet(new), Active # {} \/ clearing # 0
    PROVE  crossed' = crossed \cup Active \cup new
  BY DEF Meet

(* The set-ups *)

LEMMA SetUpKeeps ==
    ASSUME IInv, NEW w \in Account, SetUp(w)
    PROVE  Single' /\ Alone' /\ Kept' /\ TakenAway' /\ InOrder'
<1>1. /\ setup' = [setup EXCEPT ![w] = 1] /\ setup[w] = 0
      /\ UNCHANGED <<stored, clearing, torn>>
      /\ Meet({w})
  BY DEF SetUp
<1>2. Active' = Active \cup {w}
  BY <1>1 DEF IInv, TypeOK, Active
<1>3. CASE Active = {} /\ clearing = 0
  <2>1. crossed' = {} /\ Active' = {w}
    BY <1>1, <1>2, <1>3 DEF Meet
  <2>2. Alone'
    BY <1>1, <1>3, <2>1 DEF Alone
  <2>3. Kept'
    BY <1>1, <2>1 DEF Kept, IInv, TypeOK
  <2>4. TakenAway'
    BY <1>1, <1>3 DEF TakenAway
  <2> QED
    BY <1>1, <2>2, <2>3, <2>4 DEF IInv, TypeOK, Single, InOrder
<1>4. CASE Active # {} \/ clearing # 0
  <2>1. crossed' = crossed \cup Active \cup {w}
    BY <1>1, <1>4, MeetEffect
  <2>2. Active' \ crossed' = {}
    BY <1>2, <2>1
  <2>3. Alone' /\ Kept'
    BY <2>2 DEF Alone, Kept
  <2>4. TakenAway'
    BY <1>1, <2>1 DEF TakenAway, IInv
  <2> QED
    BY <1>1, <2>3, <2>4 DEF IInv, TypeOK, Single, InOrder
<1> QED
  BY <1>3, <1>4

LEMMA StoredKeeps ==
    ASSUME IInv, NEW w \in Account, Stored(w)
    PROVE  Single' /\ Alone' /\ Kept' /\ TakenAway' /\ InOrder'
<1>0. TypeOK
  BY DEF IInv
<1>1. /\ setup[w] = 1 => stored' = [stored EXCEPT !["pk"] = {w}]
      /\ setup[w] = 2 => stored' = [stored EXCEPT !["mnemonic"] = {w}]
      /\ setup[w] = 3 => stored' = [stored EXCEPT !["address"] = {w}]
      /\ setup[w] \in 1 .. 3
      /\ setup'[w] = IF setup[w] = 3 THEN 0 ELSE setup[w] + 1
      /\ \A v \in Account \ {w} : setup'[v] = setup[v]
      /\ clearing' = clearing /\ crossed' = crossed
  BY <1>0, StoredEffect
<1>2. torn' = (torn /\ (setup[w] < 3 \/ w \in crossed))
  BY DEF Stored
<1>3. w \in Active /\ Active' \subseteq Active /\ (setup[w] < 3 => w \in Active')
  BY <1>0, <1>1 DEF Active, TypeOK
<1>4. w \notin crossed => (Active = {w} /\ clearing = 0)
  BY <1>3 DEF IInv, Alone
<1>5. \A i \in Item : stored'[i] = stored[i] \/ stored'[i] = {w}
  BY <1>0, <1>1 DEF TypeOK
<1>6. Single'
  BY <1>5 DEF IInv, Single
<1>7. Alone'
  BY <1>1, <1>3 DEF IInv, Alone
<1>8. Kept'
  <2> SUFFICES ASSUME NEW v \in Active' \ crossed'
               PROVE  /\ setup'[v] >= 2 => stored'["pk"] = {v}
                      /\ setup'[v] = 3 => stored'["mnemonic"] = {v}
    BY DEF Kept
  <2>1. v \in Active \ crossed /\ v \in Account
    BY <1>1, <1>3 DEF Active
  <2>2. v = w /\ setup[w] < 3
    BY <1>0, <1>1, <1>3, <2>1 DEF IInv, Alone, Active
  <2> QED
    BY <1>0, <1>1, <2>1, <2>2 DEF IInv, Kept, TypeOK, Item
<1>9. TakenAway'
  <2>1. stored'["pk"] = stored["pk"] \/ stored'["pk"] = {w}
    BY <1>5 DEF Item
  <2>2. stored'["mnemonic"] = stored["mnemonic"] \/ stored'["mnemonic"] = {w}
    BY <1>5 DEF Item
  <2> QED
    BY <1>1, <1>4, <2>1, <2>2 DEF IInv, TakenAway
<1>10. InOrder'
  <2> SUFFICES ASSUME ~torn'
               PROVE  /\ clearing' = 0
                      /\ stored'["address"] # {} =>
                             stored'["pk"] # {} /\ stored'["mnemonic"] # {}
                      /\ \A v \in Account : /\ setup'[v] >= 2 => stored'["pk"] # {}
                                            /\ setup'[v] = 3 => stored'["mnemonic"] # {}
    BY DEF InOrder
  <2>1. CASE ~torn
    <3>1. clearing' = 0
      BY <1>1, <2>1 DEF IInv, InOrder
    <3>2. /\ stored["pk"] # {} => stored'["pk"] # {}
          /\ stored["mnemonic"] # {} => stored'["mnemonic"] # {}
      BY <1>5 DEF Item
    <3>3. stored'["address"] # {} => stored'["pk"] # {} /\ stored'["mnemonic"] # {}
      <4>1. CASE setup[w] = 3
        BY <2>1, <3>2, <4>1 DEF IInv, InOrder
      <4>2. CASE setup[w] # 3
        <5>1. stored'["address"] = stored["address"]
          BY <1>0, <1>1, <4>2 DEF TypeOK, Item
        <5> QED
          BY <2>1, <3>2, <5>1 DEF IInv, InOrder
      <4> QED
        BY <4>1, <4>2
    <3>4. ASSUME NEW v \in Account \ {w}
          PROVE  /\ setup'[v] >= 2 => stored'["pk"] # {}
                 /\ setup'[v] = 3 => stored'["mnemonic"] # {}
      BY <1>1, <2>1, <3>2, <3>4 DEF IInv, InOrder
    <3>5. /\ setup'[w] >= 2 => stored'["pk"] # {}
          /\ setup'[w] = 3 => stored'["mnemonic"] # {}
      <4>1. CASE setup[w] = 1
        BY <1>0, <1>1, <4>1 DEF TypeOK, Item
      <4>2. CASE setup[w] = 2
        <5>1. stored["pk"] # {}
          BY <2>1, <4>2 DEF IInv, InOrder
        <5>2. stored'["mnemonic"] = {w}
          BY <1>0, <1>1, <4>2 DEF TypeOK, Item
        <5> QED
          BY <3>2, <5>1, <5>2
      <4>3. CASE setup[w] = 3
        BY <1>1, <4>3
      <4> QED
        BY <1>1, <4>1, <4>2, <4>3
    <3> QED
      BY <3>1, <3>3, <3>4, <3>5
  <2>2. CASE torn
    <3>1. setup[w] = 3 /\ w \notin crossed
      <4>1. setup[w] \in 1 .. 3 /\ ~(setup[w] < 3) /\ w \notin crossed
        BY <1>1, <1>2, <2>2
      <4> QED
        BY <4>1
    <3>2. Active = {w} /\ clearing = 0
      BY <1>4, <3>1
    <3>3. stored["pk"] = {w} /\ stored["mnemonic"] = {w}
      BY <1>3, <3>1 DEF IInv, Kept
    <3>4. stored'["pk"] # {} /\ stored'["mnemonic"] # {}
      BY <1>5, <3>3 DEF Item
    <3> QED
      BY <1>1, <3>2, <3>4
  <2> QED
    BY <2>1, <2>2
<1> QED
  BY <1>6, <1>7, <1>8, <1>9, <1>10

LEMMA SetUpFailsKeeps ==
    ASSUME IInv, NEW w \in Account, SetUpFails(w)
    PROVE  Single' /\ Alone' /\ Kept' /\ TakenAway' /\ InOrder'
<1>1. /\ setup' = [setup EXCEPT ![w] = 0]
      /\ UNCHANGED <<stored, clearing, crossed, torn>>
  BY DEF SetUpFails
<1>2. Active' = Active \ {w} /\ \A v \in Account \ {w} : setup'[v] = setup[v]
  BY <1>1 DEF IInv, TypeOK, Active
<1>3. Alone'
  BY <1>1, <1>2 DEF IInv, Alone
<1>4. Kept'
  BY <1>1, <1>2 DEF IInv, Kept, Active
<1>5. InOrder'
  BY <1>1 DEF IInv, InOrder, TypeOK
<1> QED
  BY <1>1, <1>3, <1>4, <1>5 DEF IInv, Single, TakenAway

(* The erasure *)

LEMMA ClearWalletKeeps ==
    ASSUME IInv, ClearWallet
    PROVE  Single' /\ Alone' /\ Kept' /\ TakenAway' /\ InOrder'
<1>1. clearing = 0 /\ clearing' = 1 /\ Meet({}) /\ torn' /\ UNCHANGED <<stored, setup>>
  BY DEF ClearWallet
<1>2. Active' = Active
  BY <1>1 DEF Active
<1>3. Active' \ crossed' = {}
  BY <1>1, <1>2, MeetEffect
<1>4. Alone' /\ Kept'
  BY <1>3 DEF Alone, Kept
<1> QED
  BY <1>1, <1>4 DEF IInv, Single, TakenAway, InOrder

LEMMA ClearedKeeps ==
    ASSUME IInv, Cleared
    PROVE  Single' /\ Alone' /\ Kept' /\ TakenAway' /\ InOrder'
<1>0. TypeOK
  BY DEF IInv
<1>1. /\ clearing = 1 => stored' = [stored EXCEPT !["pk"] = {}] /\ clearing' = 2
      /\ clearing = 2 => stored' = [stored EXCEPT !["mnemonic"] = {}] /\ clearing' = 3
      /\ clearing = 3 => stored' = [stored EXCEPT !["address"] = {}] /\ clearing' = 0
      /\ clearing \in 1 .. 3 /\ setup' = setup /\ crossed' = crossed
  BY <1>0, ClearedEffect
<1>2. torn' = (clearing < 3 \/ crossed # {})
  BY DEF Cleared
<1>3. Active' = Active
  BY <1>1 DEF Active
<1>4. Active \ crossed = {}
  BY <1>1 DEF IInv, Alone
<1>5. Alone' /\ Kept'
  BY <1>1, <1>3, <1>4 DEF Alone, Kept
<1>6. \A i \in Item : stored'[i] = stored[i] \/ stored'[i] = {}
  BY <1>0, <1>1 DEF TypeOK
<1>7. Single'
  BY <1>6 DEF IInv, Single
<1>8. TakenAway'
  <2>1. clearing = 1 => stored'["pk"] = {}
    BY <1>0, <1>1 DEF TypeOK, Item
  <2>2. clearing = 2 => stored'["mnemonic"] = {} /\ stored'["pk"] = stored["pk"]
    BY <1>0, <1>1 DEF TypeOK, Item
  <2> QED
    BY <1>1, <2>1, <2>2 DEF IInv, TakenAway
<1>9. InOrder'
  <2> SUFFICES ASSUME ~torn'
               PROVE  /\ clearing' = 0 /\ stored'["address"] = {}
                      /\ \A v \in Account : setup'[v] = 0
    BY DEF InOrder
  <2>1. clearing = 3 /\ crossed = {}
    <3>1. clearing \in 1 .. 3 /\ ~(clearing < 3) /\ crossed = {}
      BY <1>1, <1>2
    <3> QED
      BY <3>1
  <2>2. stored'["address"] = {}
    BY <1>0, <1>1, <2>1 DEF TypeOK, Item
  <2>3. \A v \in Account : setup[v] = 0
    BY <1>0, <1>4, <2>1 DEF TypeOK, Active
  <2> QED
    BY <1>1, <2>1, <2>2, <2>3
<1> QED
  BY <1>5, <1>7, <1>8, <1>9

(* All steps *)

LEMMA IInvNext == IInv /\ [Next]_walletVars => IInv'
<1> SUFFICES ASSUME IInv, [Next]_walletVars PROVE IInv'
  OBVIOUS
<1> DEFINE Rest == Single /\ Alone /\ Kept /\ TakenAway /\ InOrder
<1>0. TypeOK'
  BY TypeOKNext DEF IInv
<1>1. ASSUME NEW w \in Account, SetUp(w) PROVE Rest'
  BY <1>1, SetUpKeeps
<1>2. ASSUME NEW w \in Account, Stored(w) PROVE Rest'
  BY <1>2, StoredKeeps
<1>3. ASSUME NEW w \in Account, SetUpFails(w) PROVE Rest'
  BY <1>3, SetUpFailsKeeps
<1>4. ASSUME ClearWallet PROVE Rest'
  BY <1>4, ClearWalletKeeps
<1>5. ASSUME Cleared PROVE Rest'
  BY <1>5, ClearedKeeps
<1>6. ASSUME ClearFails PROVE Rest'
  <2>1. clearing' = 0 /\ UNCHANGED <<stored, setup, crossed, torn>>
    BY <1>6 DEF ClearFails
  <2>2. Active' = Active
    BY <2>1 DEF Active
  <2> QED
    BY <2>1, <2>2 DEF IInv, Single, Alone, Kept, TakenAway, InOrder
<1>7. ASSUME UNCHANGED <<stored, setup, clearing, crossed, torn>> PROVE Rest'
  <2>1. Active' = Active
    BY <1>7 DEF Active
  <2> QED
    BY <1>7, <2>1 DEF IInv, Single, Alone, Kept, TakenAway, InOrder
<1>8. ASSUME Restart PROVE Rest'
  <2>1. /\ clearing' = 0 /\ setup' = [w \in Account |-> 0] /\ UNCHANGED <<stored, torn>>
    BY <1>8 DEF Restart
  <2>2. Active' = {}
    BY <2>1 DEF Active
  <2> QED
    BY <2>1, <2>2 DEF IInv, Single, Alone, Kept, TakenAway, InOrder
<1>9. ASSUME NEW found, MnemonicRead(found) \/ PrivateKeyRead(found) PROVE Rest'
  BY <1>7, <1>9 DEF MnemonicRead, PrivateKeyRead
<1>10. ASSUME LoadWallet \/ UNCHANGED walletVars PROVE Rest'
  BY <1>7, <1>10 DEF LoadWallet, walletVars
<1>11. Rest'
  BY <1>1, <1>2, <1>3, <1>4, <1>5, <1>6, <1>8, <1>9, <1>10 DEF Next
<1> QED
  BY <1>0, <1>11 DEF IInv

THEOREM IInvAlways == Spec => []IInv
  BY IInvInit, IInvNext, PTL DEF Spec

\* What hasWallet reports can be loaded (WalletService.ts:38-40), for any accounts and
\* however many set-ups overlap.
THEOREM ReportedCanLoadAlways == Spec => []ReportedCanLoad
<1>1. IInv => ReportedCanLoad
  BY DEF IInv, InOrder, ReportedCanLoad, HasWallet
<1> QED
  BY <1>1, IInvAlways, PTL

(* The keychain as one wallet *)

LEMMA InitKeepsVault == Init => V!Init
<1> SUFFICES ASSUME Init PROVE V!Init
  OBVIOUS
<1>1. Active = {} /\ Loadable = {} /\ ~(clearing > 0) /\ crossed = {}
  BY DEF Init, Active, Loadable, Item
<1>2. result = V!NoResult /\ erased = "none"
  BY DEF Init, NoResult, V!NoResult
<1> QED
  BY <1>1, <1>2 DEF V!Init

\* What is met is the same for both specifications.
LEMMA MeetIsMet ==
    ASSUME TypeOK, NEW new, Meet(new)
    PROVE  V!Meet(new)
  BY DEF TypeOK, Meet, V!Meet, V!Quiet

LEMMA StepKeepsVault == IInv /\ [Next]_walletVars => [V!Next]_V!vars
<1> SUFFICES ASSUME IInv, [Next]_walletVars PROVE V!Next \/ UNCHANGED V!vars
  OBVIOUS
<1>0. TypeOK
  BY DEF IInv
<1> DEFINE Same == UNCHANGED <<stored, setup, clearing, result, erased, crossed>>
<1>a. ASSUME UNCHANGED stored PROVE Loadable' = Loadable
  BY <1>a DEF Loadable
<1>b. ASSUME UNCHANGED setup PROVE Active' = Active
  BY <1>b DEF Active
<1>1. ASSUME NEW w \in Account, SetUp(w) PROVE V!SetUp(w)
  <2>1. /\ setup' = [setup EXCEPT ![w] = 1] /\ setup[w] = 0
        /\ result' = [result EXCEPT ![w] = "none"]
        /\ UNCHANGED <<stored, clearing, erased>> /\ Meet({w})
    BY <1>1 DEF SetUp
  <2>2. Active' = Active \cup {w} /\ w \notin Active
    BY <1>0, <2>1 DEF TypeOK, Active
  <2>3. V!Meet({w})
    BY <1>0, <2>1, MeetIsMet
  <2> QED
    BY <1>a, <2>1, <2>2, <2>3 DEF V!SetUp
<1>2. ASSUME NEW w \in Account, Stored(w)
      PROVE  V!Put(w) \/ V!Return(w) \/ UNCHANGED V!vars
  <2>1. /\ setup[w] = 1 => stored' = [stored EXCEPT !["pk"] = {w}]
        /\ setup[w] = 2 => stored' = [stored EXCEPT !["mnemonic"] = {w}]
        /\ setup[w] = 3 => stored' = [stored EXCEPT !["address"] = {w}]
        /\ setup[w] \in 1 .. 3
        /\ setup'[w] = IF setup[w] = 3 THEN 0 ELSE setup[w] + 1
        /\ \A v \in Account \ {w} : setup'[v] = setup[v]
        /\ clearing' = clearing /\ crossed' = crossed /\ erased' = erased
        /\ setup[w] # 3 => result' = result
        /\ setup[w] = 3 => result' = [result EXCEPT ![w] = "returned"]
    BY <1>0, <1>2, StoredEffect
  <2>2. w \in Active
    BY <2>1 DEF Active
  <2>3. CASE setup[w] = 3
    <3>1. Loadable' = Loadable
      BY <1>0, <2>1, <2>3 DEF TypeOK, Item, Loadable
    <3>2. Active' = Active \ {w}
      BY <1>0, <2>1, <2>3 DEF TypeOK, Active
    <3>3. w \in crossed \/ Loadable = {w}
      BY <2>2, <2>3 DEF IInv, Kept, Loadable
    <3> QED
      BY <2>1, <2>2, <2>3, <3>1, <3>2, <3>3 DEF V!Return
  <2>4. CASE setup[w] # 3
    <3>1. Active' = Active
      BY <1>0, <2>1, <2>4 DEF TypeOK, Active
    <3>2. Loadable' = Loadable \/ Loadable' = {w}
      BY <1>0, <2>1, <2>4 DEF TypeOK, Item, Loadable
    <3> QED
      BY <2>1, <2>2, <2>4, <3>1, <3>2 DEF V!Put, V!vars
  <2> QED
    BY <2>3, <2>4
<1>3. ASSUME NEW w \in Account, SetUpFails(w) PROVE V!GiveUp(w)
  <2>1. /\ setup' = [setup EXCEPT ![w] = 0] /\ setup[w] > 0
        /\ result' = [result EXCEPT ![w] = "threw"]
        /\ UNCHANGED <<stored, clearing, erased, crossed>>
    BY <1>3 DEF SetUpFails
  <2>2. Active' = Active \ {w} /\ w \in Active
    BY <1>0, <2>1 DEF TypeOK, Active
  <2> QED
    BY <1>a, <2>1, <2>2 DEF V!GiveUp
<1>4. ASSUME ClearWallet PROVE V!Erase
  <2>1. /\ clearing = 0 /\ clearing' = 1 /\ erased' = "none" /\ Meet({})
        /\ UNCHANGED <<stored, setup, result>>
    BY <1>4 DEF ClearWallet
  <2>2. V!Meet({})
    BY <1>0, <2>1, MeetIsMet
  <2> QED
    BY <1>a, <1>b, <2>1, <2>2 DEF V!Erase
<1>5. ASSUME Cleared PROVE V!Next \/ UNCHANGED V!vars
  <2>1. /\ clearing = 1 => stored' = [stored EXCEPT !["pk"] = {}] /\ clearing' = 2
        /\ clearing = 2 => stored' = [stored EXCEPT !["mnemonic"] = {}] /\ clearing' = 3
        /\ clearing = 3 => stored' = [stored EXCEPT !["address"] = {}] /\ clearing' = 0
        /\ clearing \in 1 .. 3 /\ setup' = setup /\ crossed' = crossed /\ result' = result
        /\ erased' = IF clearing = 3 THEN "returned" ELSE erased
    BY <1>0, <1>5, ClearedEffect
  <2>2. Active' = Active /\ clearing > 0
    BY <1>b, <2>1
  <2>3. CASE clearing = 1
    <3>1. Loadable' = Loadable \/ Loadable' = {}
      BY <1>0, <2>1, <2>3 DEF TypeOK, Item, Loadable
    <3> QED
      BY <2>1, <2>2, <2>3, <3>1 DEF V!Forget, V!Next, V!vars
  <2>4. CASE clearing = 2
    <3>1. Loadable' = stored["pk"]
      BY <1>0, <2>1, <2>4 DEF TypeOK, Item, Loadable
    <3>2. CASE stored["pk"] = {}
      BY <2>1, <2>2, <2>4, <3>1, <3>2 DEF V!Forget, V!Next
    <3>3. CASE stored["pk"] # {}
      <4>1. PICK w \in Account : stored["pk"] = {w}
        BY <3>3 DEF IInv, Single, Item
      <4>2. w \in crossed
        BY <2>4, <4>1 DEF IInv, TakenAway
      <4> QED
        BY <2>1, <2>2, <2>4, <3>1, <4>1, <4>2 DEF V!Put, V!Next
    <3> QED
      BY <3>2, <3>3
  <2>5. CASE clearing = 3
    <3>1. Loadable' = Loadable
      BY <1>0, <2>1, <2>5 DEF TypeOK, Item, Loadable
    <3>2. crossed # {} \/ Loadable = {}
      BY <2>5 DEF IInv, TakenAway, Loadable
    <3> QED
      BY <2>1, <2>2, <2>5, <3>1, <3>2 DEF V!EraseReturns, V!Next
  <2> QED
    BY <2>1, <2>3, <2>4, <2>5
<1>6. ASSUME ClearFails PROVE V!EraseFails
  BY <1>a, <1>b, <1>6 DEF ClearFails, V!EraseFails
<1>7. ASSUME Same PROVE UNCHANGED V!vars
  BY <1>a, <1>b, <1>7 DEF V!vars
<1>8. ASSUME Restart PROVE V!Restart
  <2>1. /\ clearing' = 0 /\ setup' = [w \in Account |-> 0] /\ crossed' = {}
        /\ result' = V!NoResult /\ erased' = "none"
        /\ UNCHANGED stored
    BY <1>8 DEF Restart, NoResult, V!NoResult
  <2>2. Active' = {}
    BY <2>1 DEF Active
  <2> QED
    BY <1>a, <2>1, <2>2 DEF V!Restart
<1>9. ASSUME NEW found, MnemonicRead(found) \/ PrivateKeyRead(found)
      PROVE  UNCHANGED V!vars
  BY <1>7, <1>9 DEF MnemonicRead, PrivateKeyRead, resultVars
<1>10. ASSUME LoadWallet \/ UNCHANGED walletVars PROVE UNCHANGED V!vars
  BY <1>7, <1>10 DEF LoadWallet, walletVars, resultVars
<1> QED
  BY <1>1, <1>2, <1>3, <1>4, <1>5, <1>6, <1>8, <1>9, <1>10 DEF Next, V!Next

\* The three keychain entries implement one wallet (WalletService.ts:38-40, 87-88 and
\* SecureStorageService.ts:109-112), for any accounts, whatever writes and resets fail,
\* whenever the app is killed, and however set-ups and erasures overlap.  And what a caller
\* is told is true: a set-up that met nothing returns, rather than throws, only with its
\* account to be found, and an erasure that met nothing only with none.
THEOREM VaultIsKept == Spec => KeepsVault
  BY InitKeepsVault, StepKeepsVault, IInvAlways, PTL DEF Spec, KeepsVault, V!Spec
-----------------------------------------------------------------------------
(* The stack of onboarding screens *)

\* How far along the onboarding a screen is.
Level(name) == CASE name = "Welcome" -> 1
                 [] name \in {"CreateWallet", "ImportWallet"} -> 2
                 [] name = "RecoveryPhrase" -> 3
                 [] OTHER -> 4

\* The screens of a stack come in their order, and above a phrase's check is nothing.
Ordered(s) ==
    /\ \A i, j \in 1 .. Len(s) : j < i => Level(s[j].name) < Level(s[i].name)
    /\ \A i \in 1 .. Len(s) :
          Level(s[i].name) = 4 => i > 1 /\ s[i - 1].name = "RecoveryPhrase"

\* A screen that stands on the first k of a stack.
On(t, s, k, r) ==
    /\ t \in Seq(Routes) /\ Len(t) = k + 1 /\ t[k + 1] = r
    /\ \A i \in 1 .. k : t[i] = s[i]

LEMMA LevelType == \A name : Level(name) \in 1 .. 4
BY DEF Level

LEMMA PutOn ==
    ASSUME NEW s \in Seq(Routes), NEW k \in 0 .. Len(s), NEW r \in Routes
    PROVE  On(Append(SubSeq(s, 1, k), r), s, k, r)
<1>1. Len(s) \in Nat /\ \A i \in 1 .. k : s[i] \in Routes
  BY LenProperties, ElementOfSeq
<1>2. /\ SubSeq(s, 1, k) \in Seq(Routes) /\ Len(SubSeq(s, 1, k)) = k
      /\ \A i \in 1 .. k : SubSeq(s, 1, k)[i] = s[i]
  BY <1>1, SubSeqProperties
<1> QED
  BY <1>1, <1>2, AppendProperties DEF On

\* The order is kept by a screen further along than those it stands on.
LEMMA OnKeepsOrder ==
    ASSUME NEW s \in Seq(Routes), Ordered(s), NEW k \in 0 .. Len(s), NEW r, NEW t,
           On(t, s, k, r),
           \A i \in 1 .. k : Level(s[i].name) < Level(r.name),
           Level(r.name) = 4 => k > 0 /\ s[k].name = "RecoveryPhrase"
    PROVE  Ordered(t)
<1>1. k \in Nat /\ Len(s) \in Nat /\ Len(t) = k + 1 /\ 1 .. k \subseteq 1 .. Len(s)
  BY LenProperties DEF On
<1>2. t[k + 1] = r /\ \A i \in 1 .. k : t[i] = s[i]
  BY DEF On
<1>3. ASSUME NEW i \in 1 .. Len(t), NEW j \in 1 .. Len(t), j < i
      PROVE  Level(t[j].name) < Level(t[i].name)
  <2>1. j \in 1 .. k /\ t[j] = s[j]
    BY <1>1, <1>2, <1>3
  <2>2. CASE i = k + 1
    BY <1>2, <2>1, <2>2
  <2>3. CASE i # k + 1
    <3>1. i \in 1 .. k /\ t[i] = s[i]
      BY <1>1, <1>2, <2>3
    <3> QED
      BY <1>1, <1>3, <2>1, <3>1 DEF Ordered
  <2> QED
    BY <2>2, <2>3
<1>4. ASSUME NEW i \in 1 .. Len(t), Level(t[i].name) = 4
      PROVE  i > 1 /\ t[i - 1].name = "RecoveryPhrase"
  <2>1. CASE i = k + 1
    <3>1. k > 0 /\ s[k].name = "RecoveryPhrase" /\ k \in 1 .. k /\ i - 1 = k
      BY <1>1, <1>2, <1>4, <2>1
    <3> QED
      BY <1>1, <1>2, <2>1, <3>1
  <2>2. CASE i # k + 1
    <3>1. i \in 1 .. k /\ t[i] = s[i]
      BY <1>1, <1>2, <2>2
    <3>2. i > 1 /\ s[i - 1].name = "RecoveryPhrase"
      BY <1>1, <1>4, <3>1 DEF Ordered
    <3>3. i - 1 \in 1 .. k
      BY <1>1, <3>1, <3>2
    <3> QED
      BY <1>2, <3>2, <3>3
  <2> QED
    BY <2>1, <2>2
<1> QED
  BY <1>3, <1>4 DEF Ordered

\* navigate puts its screen on those below the one of its name, or on all.
LEMMA NavigatedOn ==
    ASSUME NEW s \in Seq(Routes), Ordered(s), NEW route \in Routes
    PROVE  \/ /\ \A i \in 1 .. Len(s) : s[i].name # route.name
              /\ On(Navigated(s, route), s, Len(s), route)
           \/ \E k \in 0 .. Len(s) - 1, r \in Routes :
                 /\ s[k + 1].name = route.name
                 /\ r.name = route.name /\ r.phrase = route.phrase
                 /\ On(Navigated(s, route), s, k, r)
<1> DEFINE places == {i \in DOMAIN s : s[i].name = route.name}
<1>1. DOMAIN s = 1 .. Len(s) /\ Len(s) \in Nat
  BY LenProperties
<1>2. CASE places = {}
  <2>1. Append(SubSeq(s, 1, Len(s)), route) = Append(s, route)
    <3>1. SubSeq(s, 1, Len(s)) = s
      BY SubSeqFull
    <3> QED
      BY <3>1
  <2>2. Navigated(s, route) = Append(SubSeq(s, 1, Len(s)), route)
    BY <1>2, <2>1 DEF Navigated
  <2>3. On(Append(SubSeq(s, 1, Len(s)), route), s, Len(s), route)
    BY <1>1, PutOn
  <2>4. \A i \in 1 .. Len(s) : s[i].name # route.name
    BY <1>1, <1>2
  <2> QED
    BY <2>2, <2>3, <2>4
<1>3. CASE places # {}
  <2>1. PICK p \in DOMAIN s : s[p].name = route.name
    BY <1>3
  <2>2. ASSUME NEW q \in DOMAIN s, s[q].name = route.name PROVE q = p
    <3>1. ~(p < q) /\ ~(q < p)
      BY <1>1, <2>1, <2>2, LevelType DEF Ordered
    <3> QED
      BY <1>1, <3>1
  <2>3. places = {p}
    BY <2>1, <2>2
  <2>4. Max(places) = p
    BY <1>1, <2>3 DEF Max
  <2> DEFINE r == [s[p] EXCEPT !.phrase = route.phrase]
  <2>5. s[p] \in Routes
    BY <1>1, ElementOfSeq
  <2>6. r \in Routes /\ r.name = route.name /\ r.phrase = route.phrase
    BY <2>1, <2>5 DEF Routes
  <2>7. Navigated(s, route) = Append(SubSeq(s, 1, p - 1), r)
    BY <1>3, <2>4 DEF Navigated
  <2>8. p - 1 \in 0 .. Len(s) - 1 /\ p - 1 \in 0 .. Len(s) /\ (p - 1) + 1 = p
    BY <1>1
  <2> HIDE DEF r
  <2>9. On(Navigated(s, route), s, p - 1, r)
    BY <2>6, <2>7, <2>8, PutOn
  <2> QED
    BY <2>1, <2>6, <2>8, <2>9
<1> QED
  BY <1>2, <1>3
-----------------------------------------------------------------------------
(* Onboarding *)

\* All three entries of the keychain hold the account in memory, and nothing will change it.
Settled == Active = {} /\ \A i \in Item : stored[i] = account

\* What a screen that stands for a phrase, or follows one, rests on.
Fits(r) ==
    Level(r.name) >= 3 =>
        /\ account # {}
        /\ crossed = {} => /\ Settled
                           /\ r.name = "WalletReady" => account \subseteq backedUp
                           /\ r.name # "WalletReady" => account \subseteq r.phrase

\* What the main app rests on.
Done ==
    ~isOnboarding =>
        /\ screens = <<>>
        /\ account # {}
        /\ crossed = {} => Settled /\ account \subseteq backedUp

\* A set-up has put its account in memory, and it stays there unless another meets it.
InMemory == \A w \in Active : account # {} /\ (crossed = {} => account = {w})

UiInv ==
    /\ UiTypeOK /\ clearing = 0
    /\ Ordered(screens) /\ \A i \in 1 .. Len(screens) : Fits(screens[i])
    /\ Done /\ InMemory

\* The screens call the wallet's set-ups and nothing else of it.
LEMMA UiIsWallet == [UiNext]_onboardingVars => [Next]_walletVars
<1> SUFFICES ASSUME [UiNext]_onboardingVars PROVE [Next]_walletVars
  OBVIOUS
<1>1. ASSUME NEW w \in Account,
             HandleCreate(w) \/ HandleImport(w) \/ KeychainWrites(w) \/ CreateReturns(w)
                \/ ImportReturns(w) \/ HandlerFails(w)
      PROVE  \E v \in Account : SetUp(v) \/ Stored(v) \/ SetUpFails(v)
  BY <1>1 DEF HandleCreate, HandleImport, Press, KeychainWrites, CreateReturns,
     ImportReturns, HandlerFails
<1>2. ASSUME NEW from, NEW name, Open(from, name) PROVE UNCHANGED walletVars
  BY <1>2 DEF Open
<1>3. ASSUME GoBack \/ HandleVerify \/ GetStarted PROVE UNCHANGED walletVars
  BY <1>3 DEF GoBack, HandleVerify, GetStarted
<1>4. ASSUME AppRestart PROVE Restart
  BY <1>4 DEF AppRestart
<1>5. CASE UNCHANGED onboardingVars
  BY <1>5 DEF onboardingVars
<1> QED
  BY <1>1, <1>2, <1>3, <1>4, <1>5 DEF UiNext, Next

\* A screen shown is the last of the stack.
LEMMA ShownIsLast ==
    ASSUME UiInv, NEW name, Shows(name)
    PROVE  /\ Len(screens) \in Nat \ {0} /\ Len(screens) \in 1 .. Len(screens)
           /\ Last(screens) = screens[Len(screens)]
           /\ screens[Len(screens)].name = name /\ Last(screens) \in Routes
           /\ isOnboarding
<1>1. screens \in Seq(Routes) /\ screens # <<>>
  BY DEF UiInv, UiTypeOK, Shows
<1>2. Len(screens) \in Nat /\ Len(screens) # 0
  BY <1>1, LenProperties, EmptySeq
<1> QED
  BY <1>1, <1>2, ElementOfSeq DEF Shows, Last, UiInv, Done

\* A screen put on the stack keeps what the stack rests on.
LEMMA OnFits ==
    ASSUME NEW t, NEW s, NEW k \in Nat, NEW r, On(t, s, k, r),
           \A i \in 1 .. k : Fits(s[i]), Fits(r)
    PROVE  \A i \in 1 .. Len(t) : Fits(t[i])
BY DEF On

LEMMA UiInvInit == UiInit => UiInv
<1> SUFFICES ASSUME UiInit PROVE UiInv
  OBVIOUS
<1>1. Route("Welcome", {}) \in Routes
  BY DEF Route, Routes, Names
<1>2. UiTypeOK
  BY <1>1 DEF UiInit, UiTypeOK
<1>3. Len(screens) = 1 /\ screens[1].name = "Welcome"
  BY DEF UiInit, Route
<1>4. Ordered(screens) /\ \A i \in 1 .. Len(screens) : Fits(screens[i])
  BY <1>3 DEF Ordered, Fits, Level
<1>5. Done /\ InMemory /\ clearing = 0
  BY DEF UiInit, Init, Done, InMemory, Active
<1> QED
  BY <1>2, <1>4, <1>5 DEF UiInv

\* Opening a screen, or going back from one.
LEMMA MovesKeep ==
    ASSUME UiInv,
           \/ Open("Welcome", "CreateWallet") \/ Open("Welcome", "ImportWallet")
           \/ Open("RecoveryPhrase", "VerifyPhrase")
           \/ GoBack
    PROVE  UiInv'
<1>1. /\ UNCHANGED <<walletVars, isOnboarding, importing, known, backedUp>>
      /\ screens # <<>>
  BY DEF Open, GoBack, Shows
<1>2. /\ screens \in Seq(Routes) /\ Ordered(screens) /\ isOnboarding
      /\ \A i \in 1 .. Len(screens) : Fits(screens[i])
  BY <1>1 DEF UiInv, UiTypeOK, Done
<1>3. Len(screens) \in Nat \ {0}
  BY <1>1, <1>2, LenProperties, EmptySeq
<1>4. ASSUME screens' \in Seq(Routes), Ordered(screens'),
             \A i \in 1 .. Len(screens') : Fits(screens'[i])
      PROVE  UiInv'
  <2>1. UiTypeOK' /\ clearing' = 0
    BY <1>1, <1>4 DEF UiInv, UiTypeOK, walletVars
  <2>2. Active' = Active /\ Settled' = Settled
    BY <1>1 DEF Active, Settled, walletVars
  <2>3. InMemory' /\ Done'
    BY <1>1, <1>2, <2>2 DEF UiInv, InMemory, Done, walletVars
  <2>4. \A i \in 1 .. Len(screens') : Fits(screens[i])'
    BY <1>1, <1>4, <2>2 DEF Fits, walletVars
  <2> QED
    BY <1>4, <2>1, <2>3, <2>4 DEF UiInv
<1>5. ASSUME NEW from, NEW name, Open(from, name),
             \/ from = "Welcome" /\ name \in {"CreateWallet", "ImportWallet"}
             \/ from = "RecoveryPhrase" /\ name = "VerifyPhrase"
      PROVE  UiInv'
  <2> DEFINE route == Route(name, Last(screens).phrase)
  <2>1. /\ Last(screens) = screens[Len(screens)] /\ Last(screens) \in Routes
        /\ Last(screens).name = from /\ Len(screens) \in 1 .. Len(screens)
        /\ screens' = Navigated(screens, route)
    BY <1>5, ShownIsLast DEF Open
  <2>2. route \in Routes /\ route.name = name /\ route.phrase = Last(screens).phrase
    BY <1>5, <2>1 DEF Route, Routes, Names
  <2>3. \A i \in 1 .. Len(screens) : Level(screens[i].name) < Level(name)
    <3>1. Level(from) < Level(name)
      BY <1>5 DEF Level
    <3>2. ASSUME NEW i \in 1 .. Len(screens) PROVE Level(screens[i].name) <= Level(from)
      <4>1. CASE i = Len(screens)
        BY <2>1, <4>1, LevelType
      <4>2. CASE i # Len(screens)
        <5>1. i < Len(screens)
          BY <1>3, <4>2
        <5>2. Level(screens[i].name) < Level(screens[Len(screens)].name)
          BY <1>2, <2>1, <5>1 DEF Ordered
        <5> QED
          BY <2>1, <5>2, LevelType
      <4> QED
        BY <4>1, <4>2
    <3> QED
      BY <3>1, <3>2, LevelType
  <2>4. \A i \in 1 .. Len(screens) : screens[i].name # name
    BY <2>3, LevelType
  <2>5. On(screens', screens, Len(screens), route)
    <3> HIDE DEF route
    <3>1. \A k \in 0 .. Len(screens) - 1 : k + 1 \in 1 .. Len(screens)
      BY <1>3
    <3> QED
      BY <1>2, <2>1, <2>2, <2>4, <3>1, NavigatedOn
  <2>6. Fits(route)
    <3>1. CASE from = "Welcome"
      BY <1>5, <2>2, <3>1 DEF Fits, Level
    <3>2. CASE from = "RecoveryPhrase"
      <4>1. Fits(Last(screens))
        BY <1>2, <2>1
      <4> QED
        BY <1>5, <2>1, <2>2, <3>2, <4>1 DEF Fits, Level
    <3> QED
      BY <1>5, <3>1, <3>2
  <2> HIDE DEF route
  <2>7. screens' \in Seq(Routes)
    BY <2>5 DEF On
  <2>8. Level(route.name) = 4 => Len(screens) > 0 /\ screens[Len(screens)].name = "RecoveryPhrase"
    BY <1>3, <1>5, <2>1, <2>2 DEF Level
  <2>9. Ordered(screens')
    <3>1. Len(screens) \in 0 .. Len(screens)
      BY <1>3
    <3> QED
      BY <1>2, <2>2, <2>3, <2>5, <2>8, <3>1, OnKeepsOrder
  <2>10. \A i \in 1 .. Len(screens') : Fits(screens'[i])
    BY <1>2, <1>3, <2>5, <2>6, OnFits
  <2> QED
    BY <1>4, <2>7, <2>9, <2>10
<1>6. ASSUME GoBack PROVE UiInv'
  <2> DEFINE k == Len(screens) - 1
  <2>1. /\ k \in 0 .. Len(screens) /\ 1 .. k \subseteq 1 .. Len(screens)
        /\ screens' = SubSeq(screens, 1, k)
    BY <1>3, <1>6 DEF GoBack, Front
  <2>2. \A i \in 1 .. k : screens[i] \in Routes
    BY <1>2, <2>1, ElementOfSeq
  <2>3. /\ screens' \in Seq(Routes) /\ Len(screens') = k
        /\ \A i \in 1 .. k : screens'[i] = screens[i]
    <3>1. k \in Nat /\ 1 \in Int /\ k \in Int
      BY <1>3
    <3> HIDE DEF k
    <3>2. /\ SubSeq(screens, 1, k) \in Seq(Routes) /\ Len(SubSeq(screens, 1, k)) = k
          /\ \A i \in 1 .. k : SubSeq(screens, 1, k)[i] = screens[i]
      BY <2>2, <3>1, SubSeqProperties
    <3> QED
      BY <2>1, <3>2
  <2>4. \A i \in 1 .. Len(screens') : Fits(screens'[i])
    BY <1>2, <2>1, <2>3
  <2>5. Ordered(screens')
    <3>1. \A i \in 1 .. k : i \in 1 .. Len(screens) /\ (i > 1 => i - 1 \in 1 .. k)
      BY <1>3
    <3> HIDE DEF k
    <3>2. \A i, j \in 1 .. k :
             j < i => Level(screens'[j].name) < Level(screens'[i].name)
      BY <1>2, <2>3, <3>1 DEF Ordered
    <3>3. \A i \in 1 .. k :
             Level(screens'[i].name) = 4 => i > 1 /\ screens'[i - 1].name = "RecoveryPhrase"
      BY <1>2, <2>3, <3>1 DEF Ordered
    <3> QED
      BY <2>3, <3>2, <3>3 DEF Ordered
  <2> QED
    BY <1>4, <2>3, <2>4, <2>5
<1> QED
  BY <1>5, <1>6

\* The last screen shown is one where a wallet is made: no phrase is on the stack.
LEMMA PressKeeps ==
    ASSUME UiInv, IInv, NEW name \in {"CreateWallet", "ImportWallet"}, NEW w \in Account,
           Press(name, w), importing' \in SUBSET Account
    PROVE  UiInv'
<1>1. /\ Len(screens) \in Nat \ {0} /\ Len(screens) \in 1 .. Len(screens)
      /\ screens[Len(screens)].name = name /\ isOnboarding
  BY ShownIsLast DEF Press
<1>2. /\ screens \in Seq(Routes) /\ Ordered(screens) /\ UiTypeOK /\ clearing = 0
  BY DEF UiInv, UiTypeOK
<1>3. /\ SetUp(w) /\ screens' = [screens EXCEPT ![Len(screens)].busy = {w}]
      /\ known' = known \cup {w} /\ UNCHANGED <<isOnboarding, backedUp>>
  BY DEF Press
<1>4. /\ screens' \in Seq(Routes) /\ Len(screens') = Len(screens)
      /\ \A i \in 1 .. Len(screens) : screens'[i].name = screens[i].name
  <2> DEFINE r == [screens[Len(screens)] EXCEPT !.busy = {w}]
  <2>1. screens[Len(screens)] \in Routes
    BY <1>1, <1>2, ElementOfSeq
  <2>2. r \in Routes /\ r.name = screens[Len(screens)].name
    BY <2>1 DEF Routes
  <2>3. screens' = [screens EXCEPT ![Len(screens)] = r]
    BY <1>1, <1>2, <1>3
  <2> HIDE DEF r
  <2> QED
    BY <1>1, <1>2, <2>2, <2>3, ExceptSeq
<1>5. Ordered(screens')
  <2>1. \A i \in 1 .. Len(screens) : i > 1 => i - 1 \in 1 .. Len(screens)
    BY <1>1
  <2> QED
    BY <1>1, <1>2, <1>4, <2>1 DEF Ordered
<1>6. ASSUME NEW i \in 1 .. Len(screens') PROVE Fits(screens[i])'
  <2>1. Level(screens[i].name) <= 2
    <3>1. Level(name) = 2
      BY DEF Level
    <3>2. CASE i = Len(screens)
      BY <1>1, <3>1, <3>2
    <3>3. CASE i # Len(screens)
      <4>1. Level(screens[i].name) < Level(screens[Len(screens)].name)
        BY <1>1, <1>2, <1>4, <1>6, <3>3 DEF Ordered
      <4> QED
        BY <1>1, <3>1, <4>1, LevelType
    <3> QED
      BY <3>2, <3>3
  <2>2. ~(Level(screens'[i].name) >= 3)
    BY <1>4, <1>6, <2>1, LevelType
  <2> QED
    BY <2>2 DEF Fits
<1>7. UiTypeOK' /\ clearing' = 0
  BY <1>2, <1>3, <1>4 DEF UiTypeOK, SetUp
<1>8. Done'
  BY <1>1, <1>3 DEF Done
<1>9. InMemory'
  <2>1. account' = {w} /\ setup' = [setup EXCEPT ![w] = 1] /\ Meet({w})
    BY <1>3 DEF SetUp
  <2>2. crossed' = {} => Active = {}
    BY <1>2, <2>1 DEF Meet
  <2>3. Active' \subseteq Active \cup {w}
    BY <2>1 DEF IInv, TypeOK, Active
  <2> QED
    BY <2>1, <2>2, <2>3 DEF InMemory
<1> QED
  BY <1>4, <1>5, <1>6, <1>7, <1>8, <1>9 DEF UiInv

\* What a set-up that met nothing has done when it returns.
LEMMA ReturnSettles ==
    ASSUME UiInv, IInv, NEW w \in Account, Stored(w), setup[w] = 3
    PROVE  /\ UNCHANGED <<account, crossed, clearing>> /\ account # {}
           /\ Active' = Active \ {w}
           /\ crossed = {} => Settled' /\ account = {w}
<1>1. /\ stored' = [stored EXCEPT !["address"] = {w}] /\ setup'[w] = 0
      /\ \A v \in Account \ {w} : setup'[v] = setup[v]
      /\ clearing' = clearing /\ crossed' = crossed
  BY StoredEffect DEF IInv
<1>2. w \in Active /\ account' = account
  BY DEF Active, Stored
<1>3. Active' = Active \ {w}
  BY <1>1 DEF Active
<1>4. ASSUME crossed = {} PROVE Settled' /\ account = {w}
  <2>1. account = {w} /\ Active = {w} /\ stored["pk"] = {w} /\ stored["mnemonic"] = {w}
    BY <1>2, <1>4 DEF UiInv, InMemory, IInv, Alone, Kept
  <2>2. \A i \in Item : stored'[i] = {w}
    BY <1>1, <2>1 DEF IInv, TypeOK, Item
  <2> QED
    BY <1>2, <1>3, <2>1, <2>2 DEF Settled
<1> QED
  BY <1>1, <1>2, <1>3, <1>4 DEF UiInv, InMemory

\* While a set-up that met nothing is under way, no phrase is on the stack, and the
\* main app is not there.
LEMMA AloneIsEarly ==
    ASSUME UiInv, NEW w \in Active, crossed = {}
    PROVE  isOnboarding /\ \A i \in 1 .. Len(screens) : ~(Level(screens[i].name) >= 3)
BY DEF UiInv, UiTypeOK, Fits, Done, Settled

\* setLoading(false) changes neither the names nor the phrases.
LEMMA NotLoadingKeeps ==
    ASSUME UiInv, NEW w
    PROVE  /\ NotLoading(w) \in Seq(Routes) /\ Len(NotLoading(w)) = Len(screens)
           /\ \A i \in 1 .. Len(screens) :
                 /\ NotLoading(w)[i].name = screens[i].name
                 /\ NotLoading(w)[i].phrase = screens[i].phrase
           /\ Ordered(NotLoading(w))
<1> DEFINE s == NotLoading(w)
<1>1. screens \in Seq(Routes) /\ Ordered(screens)
  BY DEF UiInv, UiTypeOK
<1>2. DOMAIN screens = 1 .. Len(screens) /\ Len(screens) \in Nat
  BY <1>1, LenProperties
<1>3. s = [i \in 1 .. Len(screens) |-> [screens[i] EXCEPT !.busy = @ \ {w}]]
  BY <1>2 DEF NotLoading
<1>4. \A i \in 1 .. Len(screens) :
         s[i] \in Routes /\ s[i].name = screens[i].name /\ s[i].phrase = screens[i].phrase
  <2>1. \A i \in 1 .. Len(screens) : screens[i] \in Routes
    BY <1>1, ElementOfSeq
  <2> QED
    BY <1>3, <2>1 DEF Routes
<1>5. s \in Seq(Routes) /\ Len(s) = Len(screens)
  BY <1>2, <1>3, <1>4
<1> HIDE DEF s
<1>6. \A i \in 1 .. Len(screens) : i > 1 => i - 1 \in 1 .. Len(screens)
  BY <1>2
<1>7. Ordered(s)
  BY <1>1, <1>4, <1>5, <1>6 DEF Ordered
<1> QED
  BY <1>4, <1>5, <1>7 DEF s

LEMMA KeychainWritesKeeps ==
    ASSUME UiInv, IInv, NEW w \in Account, KeychainWrites(w)
    PROVE  UiInv'
<1>1. /\ Stored(w) /\ setup[w] < 3 /\ UNCHANGED uiVars
  BY DEF KeychainWrites
<1>2. /\ setup[w] \in 1 .. 3 /\ setup'[w] = IF setup[w] = 3 THEN 0 ELSE setup[w] + 1
      /\ \A v \in Account \ {w} : setup'[v] = setup[v]
      /\ clearing' = clearing /\ crossed' = crossed
  BY <1>1, StoredEffect DEF IInv
<1>3. Active' = Active /\ w \in Active /\ account' = account
  BY <1>1, <1>2 DEF Active, Stored
<1>4. UiTypeOK' /\ clearing' = 0 /\ Ordered(screens') /\ InMemory'
  BY <1>1, <1>2, <1>3 DEF UiInv, UiTypeOK, uiVars, Ordered, InMemory
<1>5. Done'
  BY <1>1, <1>2, <1>3, AloneIsEarly DEF UiInv, Done, uiVars
<1>6. \A i \in 1 .. Len(screens') : Fits(screens[i])'
  BY <1>1, <1>2, <1>3, AloneIsEarly DEF UiInv, Fits, uiVars
<1> QED
  BY <1>4, <1>5, <1>6 DEF UiInv, Ordered

LEMMA CreateReturnsKeeps ==
    ASSUME UiInv, IInv, NEW w \in Account, CreateReturns(w)
    PROVE  UiInv'
<1>1. /\ Stored(w) /\ setup[w] = 3 /\ UNCHANGED <<isOnboarding, importing, known, backedUp>>
      /\ screens' = IF isOnboarding
                    THEN Navigated(NotLoading(w), Route("RecoveryPhrase", {w})) ELSE screens
  BY DEF CreateReturns
<1>2. /\ UNCHANGED <<account, crossed, clearing>> /\ account # {}
      /\ Active' = Active \ {w}
      /\ crossed = {} => Settled' /\ account = {w}
  BY <1>1, ReturnSettles
<1>3. w \in Active
  BY <1>1 DEF Active
<1>4. clearing' = 0 /\ InMemory'
  BY <1>2 DEF UiInv, InMemory
<1>5. CASE ~isOnboarding
  <2>1. crossed # {} /\ screens = <<>> /\ screens' = screens
    BY <1>1, <1>3, <1>5, AloneIsEarly DEF UiInv, Done
  <2>2. UiTypeOK' /\ Ordered(screens') /\ Done'
    BY <1>1, <1>2, <1>5, <2>1 DEF UiInv, UiTypeOK, Done
  <2>3. \A i \in 1 .. Len(screens') : Fits(screens[i])'
    BY <2>1
  <2> QED
    BY <1>4, <2>2, <2>3 DEF UiInv, Ordered
<1>6. CASE isOnboarding
  <2> DEFINE s == NotLoading(w)
             route == Route("RecoveryPhrase", {w})
  <2>1. /\ s \in Seq(Routes) /\ Len(s) = Len(screens) /\ Ordered(s) /\ Len(s) \in Nat
        /\ \A i \in 1 .. Len(s) : s[i].name = screens[i].name /\ s[i].phrase = screens[i].phrase
    BY NotLoadingKeeps, LenProperties DEF UiInv, UiTypeOK
  <2>2. route \in Routes /\ route.name = "RecoveryPhrase" /\ route.phrase = {w}
    BY DEF Route, Routes, Names
  <2>3. screens' = Navigated(s, route)
    BY <1>1, <1>6
  <2> HIDE DEF s, route
  <2>4. \E k \in 0 .. Len(s), r \in Routes :
           /\ r.name = "RecoveryPhrase" /\ r.phrase = {w}
           /\ On(screens', s, k, r)
           /\ \A i \in 1 .. k : Level(s[i].name) < 3
    <3>1. CASE /\ \A i \in 1 .. Len(s) : s[i].name # route.name
               /\ On(Navigated(s, route), s, Len(s), route)
      <4>1. ASSUME NEW i \in 1 .. Len(s) PROVE Level(s[i].name) < 3
        <5>1. Level(s[i].name) # 4
          <6> SUFFICES ASSUME Level(s[i].name) = 4 PROVE FALSE
            OBVIOUS
          <6>1. i > 1 /\ s[i - 1].name = "RecoveryPhrase"
            BY <2>1 DEF Ordered
          <6>2. i - 1 \in 1 .. Len(s)
            BY <2>1, <6>1
          <6> QED
            BY <2>2, <3>1, <6>1, <6>2
        <5>2. Level(s[i].name) # 3
          BY <2>2, <3>1 DEF Level
        <5> QED
          BY <5>1, <5>2, LevelType
      <4>2. Len(s) \in 0 .. Len(s)
        BY <2>1
      <4> QED
        BY <2>2, <2>3, <3>1, <4>1, <4>2
    <3>2. CASE \E k \in 0 .. Len(s) - 1, r \in Routes :
                  /\ s[k + 1].name = route.name
                  /\ r.name = route.name /\ r.phrase = route.phrase
                  /\ On(Navigated(s, route), s, k, r)
      <4>1. PICK k \in 0 .. Len(s) - 1, r \in Routes :
                    /\ s[k + 1].name = route.name
                    /\ r.name = route.name /\ r.phrase = route.phrase
                    /\ On(Navigated(s, route), s, k, r)
        BY <3>2
      <4>2. k \in 0 .. Len(s) /\ k + 1 \in 1 .. Len(s) /\ 1 .. k \subseteq 1 .. Len(s)
        BY <2>1
      <4>3. Level(s[k + 1].name) = 3
        BY <2>2, <4>1 DEF Level
      <4>4. \A i \in 1 .. k : Level(s[i].name) < 3
        <5>1. \A i \in 1 .. k : i < k + 1
          BY <2>1
        <5> QED
          BY <2>1, <4>2, <4>3, <5>1 DEF Ordered
      <4> QED
        BY <2>2, <2>3, <4>1, <4>2, <4>4
    <3> QED
      BY <2>1, <2>2, <3>1, <3>2, NavigatedOn
  <2>5. PICK k \in 0 .. Len(s), r \in Routes :
                /\ r.name = "RecoveryPhrase" /\ r.phrase = {w}
                /\ On(screens', s, k, r)
                /\ \A i \in 1 .. k : Level(s[i].name) < 3
    BY <2>4
  <2>6. Level(r.name) = 3
    BY <2>5 DEF Level
  <2>7. Ordered(screens')
    BY <2>1, <2>5, <2>6, OnKeepsOrder
  <2>8. screens' \in Seq(Routes)
    BY <2>5 DEF On
  <2>9. ASSUME NEW i \in 1 .. Len(screens') PROVE Fits(screens[i])'
    <3>1. CASE i = k + 1
      <4>1. screens'[i] = r
        BY <2>5, <3>1 DEF On
      <4> QED
        BY <1>2, <2>5, <4>1 DEF Fits
    <3>2. CASE i # k + 1
      <4>1. i \in 1 .. k /\ screens'[i] = s[i]
        BY <2>1, <2>5, <3>2 DEF On
      <4>2. ~(Level(screens'[i].name) >= 3)
        BY <2>5, <4>1, LevelType
      <4> QED
        BY <4>2 DEF Fits
    <3> QED
      BY <3>1, <3>2
  <2>10. UiTypeOK' /\ Done'
    BY <1>1, <1>6, <2>8 DEF UiInv, UiTypeOK, Done
  <2> QED
    BY <1>4, <2>7, <2>9, <2>10 DEF UiInv, Ordered
<1> QED
  BY <1>5, <1>6

LEMMA ImportReturnsKeeps ==
    ASSUME UiInv, IInv, NEW w \in Account, ImportReturns(w)
    PROVE  UiInv'
<1>1. /\ Stored(w) /\ setup[w] = 3 /\ UNCHANGED <<importing, known>>
      /\ isOnboarding' = FALSE /\ screens' = <<>> /\ backedUp' = backedUp \cup {w}
  BY DEF ImportReturns, CompleteOnboarding
<1>2. /\ UNCHANGED <<account, crossed, clearing>> /\ account # {}
      /\ Active' = Active \ {w}
      /\ crossed = {} => Settled' /\ account = {w}
  BY <1>1, ReturnSettles
<1>3. UiTypeOK' /\ Ordered(screens') /\ \A i \in 1 .. Len(screens') : Fits(screens[i])'
  <2>1. screens' \in Seq(Routes) /\ 1 .. Len(screens') = {}
    BY <1>1, EmptySeq
  <2>2. UiTypeOK'
    BY <1>1, <2>1 DEF UiInv, UiTypeOK
  <2> QED
    BY <2>1, <2>2 DEF Ordered
<1>4. Done'
  <2>1. crossed = {} => account \subseteq backedUp'
    BY <1>1, <1>2
  <2> QED
    BY <1>1, <1>2, <2>1 DEF Done
<1>5. InMemory' /\ clearing' = 0
  BY <1>1, <1>2 DEF UiInv, InMemory
<1> QED
  BY <1>3, <1>4, <1>5 DEF UiInv, Ordered

LEMMA HandlerFailsKeeps ==
    ASSUME UiInv, IInv, NEW w \in Account, HandlerFails(w)
    PROVE  UiInv'
<1>1. /\ setup[w] > 0 /\ setup' = [setup EXCEPT ![w] = 0]
      /\ UNCHANGED <<account, stored, clearing, crossed>>
      /\ screens' = NotLoading(w) /\ UNCHANGED <<isOnboarding, importing, known, backedUp>>
  BY DEF HandlerFails, SetUpFails
<1>2. w \in Active /\ Active' = Active \ {w}
  BY <1>1 DEF IInv, TypeOK, Active
<1>3. /\ screens' \in Seq(Routes) /\ Len(screens') = Len(screens) /\ Ordered(screens')
      /\ \A i \in 1 .. Len(screens) : /\ screens'[i].name = screens[i].name
                                      /\ screens'[i].phrase = screens[i].phrase
  BY <1>1, NotLoadingKeeps
<1>4. UiTypeOK' /\ clearing' = 0 /\ InMemory'
  BY <1>1, <1>2, <1>3 DEF UiInv, UiTypeOK, InMemory
<1>5. screens = <<>> => screens' = <<>>
  <2>1. screens = <<>> => Len(screens) = 0
    BY EmptySeq
  <2> QED
    BY <1>3, <2>1, EmptySeq
<1>6. Done'
  BY <1>1, <1>2, <1>5, AloneIsEarly DEF UiInv, Done
<1>7. \A i \in 1 .. Len(screens') : Fits(screens[i])'
  BY <1>1, <1>2, <1>3, AloneIsEarly DEF UiInv, Fits
<1> QED
  BY <1>3, <1>4, <1>6, <1>7 DEF UiInv, Ordered

LEMMA HandleVerifyKeeps ==
    ASSUME UiInv, HandleVerify
    PROVE  UiInv'
<1> DEFINE r == Route("WalletReady", {})
           k == Len(screens) - 1
<1>1. /\ screens' = Append(SubSeq(screens, 1, k), r)
      /\ backedUp' = backedUp \cup Last(screens).phrase
      /\ UNCHANGED <<walletVars, isOnboarding, importing, known>> /\ Shows("VerifyPhrase")
  BY DEF HandleVerify, Front
<1>2. /\ Len(screens) \in Nat \ {0} /\ Len(screens) \in 1 .. Len(screens)
      /\ Last(screens) = screens[Len(screens)] /\ Last(screens) \in Routes
      /\ screens[Len(screens)].name = "VerifyPhrase" /\ isOnboarding
      /\ screens \in Seq(Routes) /\ Ordered(screens)
      /\ \A i \in 1 .. Len(screens) : Fits(screens[i])
  BY <1>1, ShownIsLast DEF UiInv, UiTypeOK
<1>3. /\ k \in 0 .. Len(screens) /\ k \in Nat /\ 1 .. k \subseteq 1 .. Len(screens)
      /\ \A i \in 1 .. k : i < Len(screens)
  BY <1>2
<1>4. r \in Routes /\ r.name = "WalletReady" /\ Level(r.name) = 4
  BY DEF Route, Routes, Names, Level
<1>5. Level(screens[Len(screens)].name) = 4
  BY <1>2 DEF Level
<1>6. k > 0 /\ screens[k].name = "RecoveryPhrase"
  BY <1>2, <1>5 DEF Ordered
<1>7. \A i \in 1 .. k : Level(screens[i].name) < 4
  BY <1>2, <1>3, <1>5 DEF Ordered
<1> HIDE DEF r, k
<1>8. On(screens', screens, k, r)
  BY <1>1, <1>2, <1>3, <1>4, PutOn
<1>9. Ordered(screens')
  BY <1>2, <1>3, <1>4, <1>6, <1>7, <1>8, OnKeepsOrder
<1>10. Settled' = Settled /\ Active' = Active /\ account' = account /\ crossed' = crossed
  BY <1>1 DEF Settled, Active, walletVars
<1>11. ASSUME NEW i \in 1 .. Len(screens') PROVE Fits(screens[i])'
  <2>1. CASE i = k + 1
    <3>1. screens'[i] = r
      BY <1>8, <2>1 DEF On
    <3>2. /\ account # {}
          /\ crossed = {} => Settled /\ account \subseteq Last(screens).phrase
      BY <1>2, <1>5 DEF Fits
    <3> QED
      BY <1>1, <1>4, <1>10, <3>1, <3>2 DEF Fits
  <2>2. CASE i # k + 1
    <3>1. i \in 1 .. k /\ screens'[i] = screens[i]
      BY <1>3, <1>8, <2>2 DEF On
    <3>2. Fits(screens[i])
      BY <1>2, <1>3, <3>1
    <3> QED
      BY <1>1, <1>10, <3>1, <3>2 DEF Fits
  <2> QED
    BY <2>1, <2>2
<1>12. UiTypeOK'
  <2>1. screens' \in Seq(Routes) /\ Last(screens).phrase \subseteq Account
    BY <1>2, <1>8 DEF On, Routes
  <2> QED
    BY <1>1, <2>1 DEF UiInv, UiTypeOK
<1>13. Done' /\ InMemory' /\ clearing' = 0
  BY <1>1, <1>2, <1>10 DEF UiInv, Done, InMemory, walletVars
<1> QED
  BY <1>9, <1>11, <1>12, <1>13 DEF UiInv, Ordered

LEMMA GetStartedKeeps ==
    ASSUME UiInv, GetStarted
    PROVE  UiInv'
<1>1. /\ Shows("WalletReady") /\ UNCHANGED <<walletVars, importing, known, backedUp>>
      /\ isOnboarding' = FALSE /\ screens' = <<>>
  BY DEF GetStarted, CompleteOnboarding
<1>2. Fits(Last(screens)) /\ Last(screens).name = "WalletReady"
  BY <1>1, ShownIsLast DEF UiInv
<1>3. account # {} /\ (crossed = {} => Settled /\ account \subseteq backedUp)
  BY <1>2 DEF Fits, Level
<1>4. UiTypeOK' /\ Ordered(screens') /\ \A i \in 1 .. Len(screens') : Fits(screens[i])'
  <2>1. screens' \in Seq(Routes) /\ 1 .. Len(screens') = {}
    BY <1>1, EmptySeq
  <2>2. UiTypeOK'
    BY <1>1, <2>1 DEF UiInv, UiTypeOK
  <2> QED
    BY <2>1, <2>2 DEF Ordered
<1>5. Settled' = Settled /\ Active' = Active /\ account' = account /\ crossed' = crossed
  BY <1>1 DEF Settled, Active, walletVars
<1>6. Done' /\ InMemory' /\ clearing' = 0
  BY <1>1, <1>3, <1>5 DEF UiInv, Done, InMemory, walletVars
<1> QED
  BY <1>4, <1>6 DEF UiInv, Ordered

LEMMA AppRestartKeeps ==
    ASSUME UiInv, AppRestart
    PROVE  UiInv'
<1>1. /\ Restart /\ isOnboarding' = TRUE /\ screens' = <<Route("Welcome", {})>>
      /\ importing' = {} /\ UNCHANGED <<known, backedUp>>
  BY DEF AppRestart
<1>2. Route("Welcome", {}) \in Routes
  BY DEF Route, Routes, Names
<1>3. Len(screens') = 1 /\ screens'[1].name = "Welcome"
  BY <1>1 DEF Route
<1>4. UiTypeOK'
  BY <1>1, <1>2 DEF UiInv, UiTypeOK
<1>5. Ordered(screens') /\ \A i \in 1 .. Len(screens') : Fits(screens[i])'
  BY <1>3 DEF Ordered, Fits, Level
<1>6. Active' = {} /\ clearing' = 0
  BY <1>1 DEF Restart, Active
<1>7. Done' /\ InMemory'
  BY <1>1, <1>6 DEF Done, InMemory
<1> QED
  BY <1>4, <1>5, <1>6, <1>7 DEF UiInv, Ordered

LEMMA UiInvNext == IInv /\ UiInv /\ [UiNext]_onboardingVars => UiInv'
<1> SUFFICES ASSUME IInv, UiInv, [UiNext]_onboardingVars PROVE UiInv'
  OBVIOUS
<1>1. ASSUME NEW w \in Account, HandleCreate(w) PROVE UiInv'
  <2>1. importing' \in SUBSET Account /\ Press("CreateWallet", w)
    BY <1>1 DEF HandleCreate, UiInv, UiTypeOK
  <2> QED
    BY <2>1, PressKeeps
<1>2. ASSUME NEW w \in Account, HandleImport(w) PROVE UiInv'
  <2>1. importing' \in SUBSET Account /\ Press("ImportWallet", w)
    BY <1>2 DEF HandleImport, UiInv, UiTypeOK
  <2> QED
    BY <2>1, PressKeeps
<1>3. ASSUME NEW w \in Account,
             KeychainWrites(w) \/ CreateReturns(w) \/ ImportReturns(w) \/ HandlerFails(w)
      PROVE  UiInv'
  BY <1>3, KeychainWritesKeeps, CreateReturnsKeeps, ImportReturnsKeeps, HandlerFailsKeeps
<1>4. CASE UNCHANGED onboardingVars
  <2>1. UNCHANGED <<walletVars, isOnboarding, screens, importing, known, backedUp>>
    BY <1>4 DEF onboardingVars, uiVars
  <2>2. Settled' = Settled /\ Active' = Active /\ account' = account /\ crossed' = crossed
    BY <2>1 DEF Settled, Active, walletVars
  <2>3. UiTypeOK' /\ clearing' = 0 /\ Ordered(screens')
    BY <2>1 DEF UiInv, UiTypeOK, walletVars
  <2>4. Done' /\ InMemory'
    BY <2>1, <2>2 DEF UiInv, Done, InMemory
  <2>5. \A i \in 1 .. Len(screens') : Fits(screens[i])'
    BY <2>1, <2>2 DEF UiInv, Fits
  <2> QED
    BY <2>3, <2>4, <2>5 DEF UiInv, Ordered
<1> QED
  BY <1>1, <1>2, <1>3, <1>4, MovesKeep, HandleVerifyKeeps, GetStartedKeeps, AppRestartKeeps
     DEF UiNext

\* Whoever is in the main app has an account, and unless set-ups have met it is the one in
\* the keychain and the user has entered its phrase: for any accounts, whatever writes fail,
\* whichever screens are left while their handlers await, and whenever the app is killed
\* (WalletService.ts:33-40).
THEOREM BackedUpAlways == UiSpec => []BackedUp
<1>1. UiInit => IInv
  BY IInvInit DEF UiInit
<1>2. UiInv => BackedUp
  BY DEF UiInv, Done, Settled, BackedUp
<1> QED
  BY <1>1, <1>2, UiIsWallet, IInvNext, UiInvInit, UiInvNext, PTL DEF UiSpec
=============================================================================
