---------------------------- MODULE DeviceProofs ----------------------------
(***************************************************************************)
(* Proofs about what one device keeps to itself, for any values of the     *)
(* constants: the session secrets of KeyExchange and what is encrypted     *)
(* with them, the overlapping starts and stops of Discovery, the buffers   *)
(* of Chunker, and all services of the device side by side.                *)
(*                                                                         *)
(* Each component has its inductive invariant here (SessionInv,            *)
(* DiscoveryInv, ChunkerInv) or in WalletProofs (IInv, UiInv), and its     *)
(* theorems follow from that.  The composition needs no more: it is each   *)
(* component by itself (DeviceRunsItsServices).                            *)
(***************************************************************************)
EXTENDS Device, WalletProofs, DataProofs

-----------------------------------------------------------------------------
(* KeyExchangeService: one secret for two present keys *)

\* A peer has one session or none.
SingleSession == \A n, m \in Device : \A s, t \in session[n][m] : s = t

\* A cached secret is of the own key pair of today, and of the peer's key it is cached
\* under: what the cache test of KeyExchangeService.ts:61-65 relies on.
FreshSecrets ==
    \A n, m \in Device : \A s \in session[n][m] :
        s.sharedSecret = SharedSecret(n, key[n], m, s.peerPublicKey)

SessionInv == ExchangeTypeOK /\ SingleSession /\ FreshSecrets

LEMMA SessionInvInit == ExchangeInit => SessionInv
<1> SUFFICES ASSUME ExchangeInit PROVE SessionInv
  OBVIOUS
<1>1. key = [n \in Device |-> 1] /\ \A n, m \in Device : session[n][m] = {}
  BY DEF ExchangeInit, NoSessions
<1>2. session \in [Device -> [Device -> SUBSET Sessions]]
  BY DEF ExchangeInit, NoSessions
<1>3. key \in [Device -> Nat]
  BY <1>1
<1> QED
  BY <1>1, <1>2, <1>3 DEF SessionInv, ExchangeTypeOK, SingleSession, FreshSecrets

\* A step that drops sessions and leaves the rest and the keys alone.
LEMMA DropKeeps ==
    ASSUME SessionInv, key' = key,
           session' \in [Device -> [Device -> SUBSET Sessions]],
           \A n, m \in Device : session'[n][m] \subseteq session[n][m]
    PROVE  SessionInv'
<1>1. ExchangeTypeOK'
  BY DEF SessionInv, ExchangeTypeOK
<1>2. SingleSession'
  BY DEF SessionInv, SingleSession
<1>3. FreshSecrets'
  BY DEF SessionInv, FreshSecrets
<1> QED
  BY <1>1, <1>2, <1>3 DEF SessionInv

\* A new session of one peer is of today's key, and the others stay.
LEMMA DeriveKeeps ==
    ASSUME SessionInv,
           NEW n \in Device, NEW m \in Device \ {n}, NEW k \in Nat,
           DeriveSharedSecret(n, m, k)
    PROVE  SessionInv'
<1> DEFINE s == [peerPublicKey |-> k, sharedSecret |-> SharedSecret(n, key[n], m, k),
                 age |-> 0]
<1>1. session' = [session EXCEPT ![n][m] = {s}] /\ key' = key
  BY DEF DeriveSharedSecret
<1>2. key \in [Device -> Nat] /\ session \in [Device -> [Device -> SUBSET Sessions]]
  BY DEF SessionInv, ExchangeTypeOK
<1>3. s \in Sessions
  <2>1. SharedSecret(n, key[n], m, k) \in Secrets
    BY <1>2 DEF SharedSecret, Secrets
  <2> QED
    BY <2>1, ExchangeAssumption DEF Sessions
<1>4. /\ s.peerPublicKey = k
      /\ s.sharedSecret = SharedSecret(n, key[n], m, k)
  OBVIOUS
<1> HIDE DEF s
<1>5. session' \in [Device -> [Device -> SUBSET Sessions]]
  BY <1>1, <1>2, <1>3
<1>6. \A a, b \in Device :
          session'[a][b] = IF a = n /\ b = m THEN {s} ELSE session[a][b]
  BY <1>1, <1>2
<1>7. SingleSession'
  BY <1>6 DEF SessionInv, SingleSession
<1>8. FreshSecrets'
  BY <1>1, <1>4, <1>6 DEF SessionInv, FreshSecrets
<1> QED
  BY <1>1, <1>2, <1>5, <1>7, <1>8 DEF SessionInv, ExchangeTypeOK

\* With the own key all sessions go; those of the peers keep their own keys.
LEMMA RotateKeeps ==
    ASSUME SessionInv, NEW n \in Device, RotateKeys(n)
    PROVE  SessionInv'
<1>1. key' = [key EXCEPT ![n] = @ + 1] /\ session' = [session EXCEPT ![n] = NoSessions]
  BY DEF RotateKeys
<1>2. key \in [Device -> Nat] /\ session \in [Device -> [Device -> SUBSET Sessions]]
  BY DEF SessionInv, ExchangeTypeOK
<1>3. key' \in [Device -> Nat] /\ \A a \in Device \ {n} : key'[a] = key[a]
  BY <1>1, <1>2
<1>4. NoSessions \in [Device -> SUBSET Sessions] /\ \A b \in Device : NoSessions[b] = {}
  BY DEF NoSessions
<1>5. /\ session' \in [Device -> [Device -> SUBSET Sessions]]
      /\ \A a, b \in Device : session'[a][b] = IF a = n THEN {} ELSE session[a][b]
  BY <1>1, <1>2, <1>4
<1>6. SingleSession'
  BY <1>5 DEF SessionInv, SingleSession
<1>7. FreshSecrets'
  <2> SUFFICES ASSUME NEW a \in Device, NEW b \in Device, NEW s \in session'[a][b]
               PROVE  s.sharedSecret = SharedSecret(a, key'[a], b, s.peerPublicKey)
    BY DEF FreshSecrets, SharedSecret
  <2>1. a # n /\ s \in session[a][b]
    BY <1>5
  <2> QED
    BY <1>3, <2>1 DEF SessionInv, FreshSecrets
<1> QED
  BY <1>3, <1>5, <1>6, <1>7 DEF SessionInv, ExchangeTypeOK

\* Growing older changes neither a session's key nor its secret.
LEMMA TickKeeps ==
    ASSUME SessionInv, Tick
    PROVE  SessionInv'
<1> DEFINE Aged(s) == [s EXCEPT !.age = IF @ < Expiry THEN @ + 1 ELSE @]
<1>1. /\ key' = key
      /\ session' = [n \in Device |-> [m \in Device |-> {Aged(s) : s \in session[n][m]}]]
  BY DEF Tick
<1>2. key \in [Device -> Nat] /\ session \in [Device -> [Device -> SUBSET Sessions]]
  BY DEF SessionInv, ExchangeTypeOK
<1>3. ASSUME NEW s \in Sessions
      PROVE  /\ Aged(s) \in Sessions
             /\ Aged(s).peerPublicKey = s.peerPublicKey
             /\ Aged(s).sharedSecret = s.sharedSecret
  <2>1. PICK a \in 0 .. Expiry : a = IF s.age < Expiry THEN s.age + 1 ELSE s.age
    BY ExchangeAssumption DEF Sessions
  <2>2. Aged(s) = [s EXCEPT !.age = a]
    BY <2>1
  <2>3. [s EXCEPT !.age = a] \in Sessions
    BY DEF Sessions
  <2> QED
    BY <2>2, <2>3 DEF Sessions
<1> HIDE DEF Aged
<1>4. \A n, m \in Device : session'[n][m] = {Aged(s) : s \in session[n][m]}
  BY <1>1
<1>5. session' \in [Device -> [Device -> SUBSET Sessions]]
  BY <1>1, <1>2, <1>3
<1>6. SingleSession'
  BY <1>4 DEF SessionInv, SingleSession
<1>7. FreshSecrets'
  <2> SUFFICES ASSUME NEW a \in Device, NEW b \in Device, NEW t \in session'[a][b]
               PROVE  t.sharedSecret = SharedSecret(a, key'[a], b, t.peerPublicKey)
    BY DEF FreshSecrets, SharedSecret
  <2>1. PICK s \in session[a][b] : t = Aged(s)
    BY <1>4
  <2>2. s \in Sessions
    BY <1>2
  <2> QED
    BY <1>1, <1>3, <2>1, <2>2 DEF SessionInv, FreshSecrets
<1> QED
  BY <1>1, <1>2, <1>5, <1>6, <1>7 DEF SessionInv, ExchangeTypeOK

LEMMA SessionInvNext ==
    ASSUME SessionInv, [ExchangeNext]_exchangeVars
    PROVE  SessionInv'
<1>0. session \in [Device -> [Device -> SUBSET Sessions]] /\ key \in [Device -> Nat]
  BY DEF SessionInv, ExchangeTypeOK
<1>1. ASSUME NEW n \in Device, NEW m \in Device \ {n}, NEW k \in 1 .. key[m],
             DeriveSharedSecret(n, m, k)
      PROVE  SessionInv'
  <2>1. k \in Nat
    BY <1>0
  <2> QED
    BY <1>1, <2>1, DeriveKeeps
<1>2. ASSUME NEW n \in Device, NEW m \in Device, GetSessionSecret(n, m) PROVE SessionInv'
  <2>1. /\ key' = key
        /\ session' = [session EXCEPT ![n][m] = {s \in @ : Valid(s)}]
    BY <1>2 DEF GetSessionSecret
  <2>2. \A a, b \in Device : session'[a][b] \subseteq session[a][b]
    BY <1>0, <2>1
  <2>3. session' \in [Device -> [Device -> SUBSET Sessions]]
    BY <1>0, <2>1
  <2> QED
    BY <2>1, <2>2, <2>3, DropKeeps
<1>3. ASSUME NEW n \in Device, NEW m \in Device, RemoveSession(n, m) PROVE SessionInv'
  <2>1. key' = key /\ session' = [session EXCEPT ![n][m] = {}]
    BY <1>3 DEF RemoveSession
  <2>2. \A a, b \in Device : session'[a][b] \subseteq session[a][b]
    BY <1>0, <2>1
  <2>3. session' \in [Device -> [Device -> SUBSET Sessions]]
    BY <1>0, <2>1
  <2> QED
    BY <2>1, <2>2, <2>3, DropKeeps
<1>4. ASSUME NEW n \in Device, CleanupExpiredSessions(n) PROVE SessionInv'
  <2>1. /\ key' = key
        /\ session' = [session EXCEPT ![n] =
                         [m \in Device |-> {s \in @[m] : Valid(s)}]]
    BY <1>4 DEF CleanupExpiredSessions
  <2>2. \A a, b \in Device : session'[a][b] \subseteq session[a][b]
    BY <1>0, <2>1
  <2>3. session' \in [Device -> [Device -> SUBSET Sessions]]
    BY <1>0, <2>1
  <2> QED
    BY <2>1, <2>2, <2>3, DropKeeps
<1>5. ASSUME NEW n \in Device, RotateKeys(n) \/ Reset(n) PROVE SessionInv'
  BY <1>5, RotateKeeps DEF Reset
<1>6. ASSUME Tick PROVE SessionInv'
  BY <1>6, TickKeeps
<1>7. ASSUME UNCHANGED exchangeVars PROVE SessionInv'
  BY <1>0, <1>7, DropKeeps DEF exchangeVars
<1> QED
  BY <1>1, <1>2, <1>3, <1>4, <1>5, <1>6, <1>7 DEF ExchangeNext

LEMMA SessionInvAlways == ExchangeSpec => []SessionInv
<1>1. SessionInv /\ [ExchangeNext]_exchangeVars => SessionInv'
  BY SessionInvNext
<1> QED
  BY <1>1, SessionInvInit, PTL DEF ExchangeSpec

\* Keys and sessions keep their types; a session's age stays within the expiry.
THEOREM ExchangeTypesAlways == ExchangeSpec => []ExchangeTypeOK
<1>1. SessionInv => ExchangeTypeOK
  BY DEF SessionInv
<1> QED
  BY <1>1, SessionInvAlways, PTL

\* Sessions that name each other's present keys hold one secret
\* (KeyExchangeService.ts:35-92), for any devices and in any order of rotations,
\* late keys, expiries and removals.
THEOREM SecretsAgreeAlways == ExchangeSpec => []SecretsAgree
<1>1. ASSUME SessionInv PROVE SecretsAgree
  <2> SUFFICES ASSUME NEW n \in Device, NEW m \in Device, Agreed(n, m),
                      NEW s \in session[n][m], NEW t \in session[m][n]
               PROVE  s.sharedSecret = t.sharedSecret
    BY DEF SecretsAgree
  <2>1. s.peerPublicKey = key[m] /\ t.peerPublicKey = key[n]
    BY <1>1 DEF Agreed, SessionInv, SingleSession
  <2>2. /\ s.sharedSecret = {<<n, key[n]>>, <<m, key[m]>>}
        /\ t.sharedSecret = {<<m, key[m]>>, <<n, key[n]>>}
    BY <1>1, <2>1 DEF SessionInv, FreshSecrets, SharedSecret
  <2> QED
    BY <2>2
<1> QED
  BY <1>1, SessionInvAlways, PTL

-----------------------------------------------------------------------------
(* EncryptionService: what one side encrypts the other decrypts *)

\* A remainder is a place.
LEMMA PlaceType ==
    ASSUME NEW i \in Nat, NEW k \in Nat \ {0}
    PROVE  i % k \in 0 .. k - 1
  OBVIOUS

\* A list of the places up to one.
LEMMA PlacesType ==
    ASSUME NEW n \in Nat
    PROVE  [j \in 1 .. n |-> j - 1] \in Seq(0 .. n - 1)
<1>1. \A j \in 1 .. n : j - 1 \in 0 .. n - 1
  OBVIOUS
<1> QED
  BY <1>1, SeqDef

\* Adding a byte of the secret to a key, and mixing a byte of it, make a key.
LEMMA AddedType ==
    ASSUME NEW secret \in Seq(Byte), NEW k \in Keys, NEW j \in 0 .. Len(secret) - 1
    PROVE  [k EXCEPT ![j % KeyLength] = ByteXor(@, secret[j + 1])] \in Keys
<1> USE CipherAssumption
<1> DEFINE x == j % KeyLength
           b == secret[j + 1]
<1>1. Len(secret) \in Nat
  BY LenProperties
<1>2. j \in Nat /\ j + 1 \in 1 .. Len(secret)
  BY <1>1
<1>3. x \in 0 .. KeyLength - 1
  BY <1>2, PlaceType
<1>4. b \in Byte
  BY <1>2, ElementOfSeq
<1> HIDE DEF x, b
<1>5. k[x] \in Byte
  BY <1>3 DEF Keys
<1>6. ByteXor(k[x], b) \in Byte
  BY <1>4, <1>5, XorAssumption
<1>7. [k EXCEPT ![x] = ByteXor(k[x], b)] \in Keys
  BY <1>6 DEF Keys
<1> QED
  BY <1>7 DEF x, b

LEMMA MixedType ==
    ASSUME NEW k \in Keys, NEW n \in 0 .. 4 * KeyLength - 1
    PROVE  [k EXCEPT ![n % KeyLength] = Mixed(k, n)] \in Keys
<1> USE CipherAssumption
<1> DEFINE x == n % KeyLength
           y == (x + Step) % KeyLength
           sum == k[x] + k[y] + (n \div KeyLength)
<1>1. n \in Nat
  OBVIOUS
<1>2. x \in 0 .. KeyLength - 1
  BY <1>1, PlaceType
<1>3. n \div KeyLength \in Nat
  BY <1>1
<1> HIDE DEF x
<1>4. y \in 0 .. KeyLength - 1
  <2>1. x + Step \in Nat
    BY <1>2
  <2> QED
    BY <2>1, PlaceType
<1> HIDE DEF y
<1>5. k[x] \in Nat /\ k[y] \in Nat
  BY <1>2, <1>4 DEF Keys, Byte
<1>6. sum \in Nat
  BY <1>3, <1>5
<1> HIDE DEF sum
<1>7. sum % Base \in Byte
  BY <1>6, PlaceType DEF Byte
<1>8. [k EXCEPT ![x] = sum % Base] \in Keys
  BY <1>7 DEF Keys
<1> QED
  BY <1>8 DEF Mixed, x, y, sum

\* So folding a secret into a key, and mixing the key, make keys.
LEMMA FoldedType ==
    ASSUME NEW secret \in Seq(Byte)
    PROVE  Folded(secret) \in Keys
<1> DEFINE I == 0 .. Len(secret) - 1
           places == [j \in 1 .. Len(secret) |-> j - 1]
           add == [p \in Keys \X I |->
                     [p[1] EXCEPT ![p[2] % KeyLength] = ByteXor(@, secret[p[2] + 1])]]
           zero == [i \in 0 .. KeyLength - 1 |-> 0]
<1>1. Len(secret) \in Nat
  BY LenProperties
<1>2. places \in Seq(I)
  BY <1>1, PlacesType
<1>3. add \in [Keys \X I -> Keys]
  <2>1. \A k \in Keys, j \in I :
           [k EXCEPT ![j % KeyLength] = ByteXor(@, secret[j + 1])] \in Keys
    BY AddedType
  <2>2. \A p \in Keys \X I : p[1] \in Keys /\ p[2] \in I
    OBVIOUS
  <2> HIDE DEF I
  <2>3. \A p \in Keys \X I :
           [p[1] EXCEPT ![p[2] % KeyLength] = ByteXor(@, secret[p[2] + 1])] \in Keys
    BY <2>1, <2>2, Zenon
  <2> QED
    BY <2>3, Zenon
<1>4. zero \in Keys
  BY CipherAssumption DEF Keys, Byte
<1> HIDE DEF I, places, add, zero
<1>5. Folder(add, zero, places)[DOMAIN places] \in Keys
  BY <1>2, <1>3, <1>4, FoldType
<1>6. FoldLeft(LAMBDA k, j : add[k, j], zero, places)
        = Folder(add, zero, places)[DOMAIN places]
  BY DEF FoldLeft, MapThenFoldSet, Folder, Folding
<1>7. FoldLeft(LAMBDA k, j : add[k, j], zero, places) \in Keys
  BY <1>5, <1>6, Zenon
<1> QED
  BY <1>7, Zenon DEF Folded, I, places, add, zero

LEMMA DeriveKeyType ==
    ASSUME NEW secret \in Seq(Byte)
    PROVE  DeriveKey(secret) \in Keys
<1> DEFINE I == 0 .. 4 * KeyLength - 1
           places == [n \in 1 .. 4 * KeyLength |-> n - 1]
           mix == [p \in Keys \X I |->
                     [p[1] EXCEPT ![p[2] % KeyLength] = Mixed(p[1], p[2])]]
<1>1. 4 * KeyLength \in Nat
  BY CipherAssumption
<1>2. places \in Seq(I)
  BY <1>1, PlacesType
<1>3. mix \in [Keys \X I -> Keys]
  <2>1. \A k \in Keys, n \in I : [k EXCEPT ![n % KeyLength] = Mixed(k, n)] \in Keys
    BY MixedType
  <2>2. \A p \in Keys \X I : p[1] \in Keys /\ p[2] \in I
    OBVIOUS
  <2> HIDE DEF I
  <2>3. \A p \in Keys \X I :
           [p[1] EXCEPT ![p[2] % KeyLength] = Mixed(p[1], p[2])] \in Keys
    BY <2>1, <2>2, Zenon
  <2> QED
    BY <2>3, Zenon
<1> HIDE DEF I, places, mix
<1>4. Folder(mix, Folded(secret), places)[DOMAIN places] \in Keys
  BY <1>2, <1>3, FoldedType, FoldType
<1>5. FoldLeft(LAMBDA k, n : mix[k, n], Folded(secret), places)
        = Folder(mix, Folded(secret), places)[DOMAIN places]
  BY DEF FoldLeft, MapThenFoldSet, Folder, Folding
<1>6. FoldLeft(LAMBDA k, n : mix[k, n], Folded(secret), places) \in Keys
  BY <1>4, <1>5, Zenon
<1> QED
  BY <1>6, Zenon DEF DeriveKey, I, places, mix

\* What an exclusive or with two bytes did, the same two undo.
LEMMA XorTwice ==
    ASSUME NEW a \in Byte, NEW k \in Byte, NEW v \in Byte
    PROVE  /\ ByteXor(ByteXor(a, k), v) \in Byte
           /\ ByteXor(ByteXor(ByteXor(ByteXor(a, k), v), k), v) = a
<1>1. ByteXor(a, k) \in Byte /\ ByteXor(a, v) \in Byte
  BY XorAssumption
<1>2. ByteXor(ByteXor(a, k), v) \in Byte /\ ByteXor(ByteXor(a, k), v) = ByteXor(ByteXor(a, v), k)
  BY <1>1, XorAssumption
<1>3. ByteXor(ByteXor(ByteXor(a, v), k), k) = ByteXor(a, v)
  BY <1>1, XorAssumption
<1>4. ByteXor(ByteXor(a, v), v) = a
  BY XorAssumption
<1> QED
  BY <1>2, <1>3, <1>4

\* Decrypting with the secret and the IV of the encryption gives the text back.
LEMMA DecryptUndoesEncrypt ==
    ASSUME NEW text \in Seq(Byte), NEW iv \in [1 .. IvLength -> Byte],
           NEW secret \in Seq(Byte)
    PROVE  Decrypt(Encrypt(text, iv, secret), secret) = text
<1> USE CipherAssumption
<1> DEFINE k == DeriveKey(secret)
           KeyAt(i) == k[(i - 1) % KeyLength]
           IvAt(i) == iv[((i - 1) % IvLength) + 1]
           bytes == [i \in DOMAIN text |-> ByteXor(ByteXor(text[i], KeyAt(i)), IvAt(i))]
           data == iv \o bytes
           tail == SubSeq(data, IvLength + 1, Len(data))
<1>1. /\ Len(text) \in Nat /\ DOMAIN text = 1 .. Len(text)
      /\ \A i \in 1 .. Len(text) : text[i] \in Byte
  BY LenProperties, ElementOfSeq
<1>2. ASSUME NEW i \in 1 .. Len(text) PROVE KeyAt(i) \in Byte /\ IvAt(i) \in Byte
  <2>1. i - 1 \in Nat
    BY <1>1
  <2>2. (i - 1) % KeyLength \in 0 .. KeyLength - 1 /\ (i - 1) % IvLength \in 0 .. IvLength - 1
    BY <2>1, PlaceType
  <2>3. KeyAt(i) \in Byte
    BY <2>2, DeriveKeyType DEF Keys
  <2>4. ((i - 1) % IvLength) + 1 \in 1 .. IvLength
    BY <2>2
  <2> QED
    BY <2>3, <2>4
<1> HIDE DEF KeyAt, IvAt
<1>3. /\ bytes \in Seq(Byte) /\ Len(bytes) = Len(text)
      /\ \A i \in 1 .. Len(text) : bytes[i] = ByteXor(ByteXor(text[i], KeyAt(i)), IvAt(i))
  <2>1. \A i \in 1 .. Len(text) : ByteXor(ByteXor(text[i], KeyAt(i)), IvAt(i)) \in Byte
    BY <1>1, <1>2, XorTwice
  <2>2. bytes \in [1 .. Len(text) -> Byte]
    BY <1>1, <2>1
  <2>3. bytes \in Seq(Byte)
    BY <1>1, <2>2, SeqDef
  <2>4. Len(bytes) = Len(text)
    BY <1>1, <2>2, <2>3, LenProperties
  <2> QED
    BY <1>1, <2>3, <2>4
<1>4. iv \in Seq(Byte) /\ Len(iv) = IvLength
  <2>1. iv \in Seq(Byte)
    BY SeqDef
  <2> QED
    BY <2>1, LenProperties
<1> HIDE DEF bytes
<1>5. /\ data \in Seq(Byte) /\ Len(data) = IvLength + Len(text)
      /\ \A i \in 1 .. IvLength : data[i] = iv[i]
      /\ \A i \in 1 .. Len(text) : data[IvLength + i] = bytes[i]
  <2>1. /\ iv \o bytes \in Seq(Byte) /\ Len(iv \o bytes) = Len(iv) + Len(bytes)
        /\ \A i \in 1 .. Len(iv) + Len(bytes) :
              (iv \o bytes)[i] = IF i <= Len(iv) THEN iv[i] ELSE bytes[i - Len(iv)]
    BY <1>3, <1>4, ConcatProperties
  <2> HIDE DEF data
  <2>2. /\ data \in Seq(Byte) /\ Len(data) = IvLength + Len(text)
        /\ \A i \in 1 .. IvLength + Len(text) :
              data[i] = IF i <= IvLength THEN iv[i] ELSE bytes[i - IvLength]
    BY <1>3, <1>4, <2>1 DEF data
  <2>3. ASSUME NEW i \in 1 .. IvLength PROVE data[i] = iv[i]
    BY <1>1, <2>2
  <2>4. ASSUME NEW i \in 1 .. Len(text) PROVE data[IvLength + i] = bytes[i]
    <3>1. /\ IvLength + i \in 1 .. IvLength + Len(text) /\ ~(IvLength + i <= IvLength)
          /\ (IvLength + i) - IvLength = i
      BY <1>1
    <3> QED
      BY <2>2, <3>1
  <2> QED
    BY <2>2, <2>3, <2>4
<1> HIDE DEF data
<1>6. SubSeq(data, 1, IvLength) = iv
  <2>1. /\ SubSeq(data, 1, IvLength) \in Seq(Byte) /\ Len(SubSeq(data, 1, IvLength)) = IvLength
        /\ \A i \in 1 .. IvLength : SubSeq(data, 1, IvLength)[i] = data[i]
    BY <1>1, <1>5, SubSeqProperties
  <2> QED
    BY <1>4, <1>5, <2>1, SeqEqual
<1>7. /\ tail \in Seq(Byte) /\ Len(tail) = Len(text)
      /\ \A i \in 1 .. Len(text) : tail[i] = bytes[i]
  BY <1>1, <1>5, SubSeqProperties
<1> HIDE DEF tail
<1>8. DOMAIN tail = 1 .. Len(text)
  BY <1>7, LenProperties
<1>9. Decrypt(data, secret)
        = [i \in 1 .. Len(text) |-> ByteXor(ByteXor(tail[i], KeyAt(i)), IvAt(i))]
  BY <1>6, <1>8 DEF Decrypt, tail, KeyAt, IvAt
<1>10. \A i \in 1 .. Len(text) : ByteXor(ByteXor(tail[i], KeyAt(i)), IvAt(i)) = text[i]
  BY <1>1, <1>2, <1>3, <1>7, XorTwice
<1>11. Decrypt(data, secret) = [i \in 1 .. Len(text) |-> text[i]]
  BY <1>9, <1>10
<1>12. text = [i \in 1 .. Len(text) |-> text[i]]
  BY <1>1
<1>13. Encrypt(text, iv, secret) = data
  BY DEF Encrypt, data, bytes, KeyAt, IvAt
<1> QED
  BY <1>11, <1>12, <1>13

\* A device has as many key pairs as it rotated to.
KeysInRange == \A n \in Device : key[n] \in 1 .. MaxKeys

LEMMA KeysInRangeNext ==
    ASSUME ExchangeTypeOK, KeysInRange, [ExchangeNext]_exchangeVars
    PROVE  KeysInRange'
<1> USE ExchangeAssumption
<1>1. CASE \E n \in Device : RotateKeys(n) \/ Reset(n)
  <2>1. PICK n \in Device : key[n] < MaxKeys /\ key' = [key EXCEPT ![n] = @ + 1]
    BY <1>1 DEF RotateKeys, Reset
  <2> QED
    BY <2>1 DEF KeysInRange, ExchangeTypeOK
<1>2. CASE key' = key
  BY <1>2 DEF KeysInRange
<1> QED
  BY <1>1, <1>2 DEF ExchangeNext, DeriveSharedSecret, GetSessionSecret, RemoveSession,
     CleanupExpiredSessions, Tick, exchangeVars

\* Peers whose sessions agree have the bytes of one secret.
LEMMA PeersUnderstandHolds ==
    ASSUME SessionInv, KeysInRange
    PROVE  PeersUnderstand
<1> SUFFICES ASSUME NEW n \in Device, NEW m \in Device, Agreed(n, m),
                    NEW s \in session[n][m], NEW t \in session[m][n],
                    NEW text \in Texts, NEW iv \in Ivs
             PROVE  Decrypt(Encrypt(text, iv, Hash(s.sharedSecret)), Hash(t.sharedSecret))
                      = text
  BY DEF PeersUnderstand
<1>1. n # m /\ s.peerPublicKey = key[m] /\ t.peerPublicKey = key[n]
  BY DEF Agreed, SessionInv, SingleSession
<1>2. /\ s.sharedSecret = SharedSecret(n, key[n], m, key[m])
      /\ t.sharedSecret = SharedSecret(m, key[m], n, key[n])
  BY <1>1 DEF SessionInv, FreshSecrets
<1>3. s.sharedSecret = t.sharedSecret
  BY <1>2 DEF SharedSecret
<1>4. Hash(s.sharedSecret) \in Seq(Byte)
  BY <1>1, <1>2, ChannelAssumption DEF KeysInRange
<1>5. text \in Seq(Byte) /\ iv \in [1 .. IvLength -> Byte]
  BY ChannelAssumption
<1> QED
  BY <1>3, <1>4, <1>5, DecryptUndoesEncrypt

\* Whatever text one device encrypts, the peer whose session agrees decrypts
\* (EncryptionService.ts:24-112), for texts of any length, any key and IV length, and
\* in any order of rotations, late keys and expiries.
THEOREM PeersUnderstandAlways == ExchangeSpec => []PeersUnderstand
<1>1. ExchangeInit => KeysInRange
  BY ExchangeAssumption DEF ExchangeInit, KeysInRange
<1>2. SessionInv => ExchangeTypeOK
  BY DEF SessionInv
<1> QED
  BY <1>1, <1>2, SessionInvAlways, KeysInRangeNext, PeersUnderstandHolds, PTL DEF ExchangeSpec

-----------------------------------------------------------------------------
(* DeviceDiscoveryService: how old a report may be *)

\* Only a start whose intervals are set has them; one whose first scan is awaited has
\* the timeout of that scan.
Staged ==
    \A k \in Start :
        /\ stage[k] = "on" => again[k] > 0 /\ clean[k] > 0
        /\ stage[k] # "on" => again[k] = 0 /\ clean[k] = 0
        /\ stage[k] = "first" => left[k] > 0

\* Without Bluetooth nothing was ever found, and no scan listens or waits to end.
NotReady ==
    ~isReady => /\ listener = {} /\ \A d \in Peer : seen[d] = {}
                /\ \A k \in Start : left[k] = 0

\* A device is found by a scan, and when no scan listens, that one has ended.
FoundWhileListening ==
    listener = {} => \A d \in Peer : seen[d] # {} => missed[d] > 0

\* The start that runs is the one that is listened for, and its scan has not timed out.
ListensForRunning ==
    ~leftover => \A k \in Start, l \in listener : stage[k] # "none" => l = k /\ left[k] > 0

\* How long ago the first scan began, the last round began and the last cleanup was.
SinceScan(k) == ScanTime + 1 - left[k]
SinceRound(k) == Period + 1 - again[k]
SinceCleanup(k) == CleanupPeriod + 1 - clean[k]

\* The scan of a round begins with the round.
InStep ==
    ~leftover => \A k \in Start :
        (stage[k] = "on" /\ left[k] > 0) => SinceScan(k) = SinceRound(k)

\* How old a report may be, by the scans that have ended since.
FirstBound(d, k, a) ==
    IF listener = {}
    THEN \/ missed[d] >= 2
         \/ missed[d] = 1 /\ a <= SinceScan(k)
    ELSE missed[d] >= 1 \/ a <= SinceScan(k)
RoundBound(d, k, a) ==
    IF listener = {}
    THEN \/ missed[d] >= 3
         \/ missed[d] = 1 /\ a <= SinceRound(k) + ScanTime
         \/ missed[d] = 2 /\ (\/ a <= SinceRound(k) + Period + ScanTime
                              \/ SinceCleanup(k) <= SinceRound(k))
    ELSE \/ missed[d] >= 3
         \/ missed[d] = 0 /\ a <= SinceRound(k)
         \/ missed[d] = 1 /\ a <= SinceRound(k) + Period + ScanTime
         \/ missed[d] = 2 /\ (\/ a <= SinceRound(k) + 2 * Period + ScanTime
                              \/ SinceCleanup(k) <= SinceRound(k) + Period)
Bounded ==
    ~leftover => \A k \in Start, d \in Peer : \A a \in seen[d] :
        /\ stage[k] = "first" => FirstBound(d, k, a)
        /\ stage[k] = "on" => RoundBound(d, k, a)

\* A discovery that no stop left behind has one start running, or none and no listener.
OneStart ==
    ~leftover => /\ isScanning => \E k \in Start : Running = {k}
                 /\ ~isScanning => Running = {} /\ listener = {}

-----------------------------------------------------------------------------
\* The sets of one member, and the empty one.
LEMMA FewMembers ==
    /\ Cardinality({}) = 0
    /\ \A z : Cardinality({z}) = 1
BY FS_EmptySet, FS_Singleton

\* The parts of an action keep the types of what they assign.
LEMMA StartScanTypes ==
    ASSUME DiscoveryTypeOK, NEW k \in Start, StartScan(k)
    PROVE  /\ left' \in [Start -> 0 .. ScanTime + 1]
           /\ listener' \in SUBSET Start /\ Cardinality(listener') <= 1
           /\ missed' \in [Peer -> 0 .. 3]
<1> USE DiscoveryAssumption
<1>1. left' \in [Start -> 0 .. ScanTime + 1]
  BY DEF StartScan, DiscoveryTypeOK
<1>2. listener' \in SUBSET Start /\ Cardinality(listener') <= 1
  <2>1. listener' = listener \/ listener' = {k}
    BY DEF StartScan
  <2>2. Cardinality({k}) = 1
    BY FewMembers
  <2> QED
    BY <2>1, <2>2 DEF DiscoveryTypeOK
<1>3. missed' \in [Peer -> 0 .. 3]
  BY DEF StartScan, EndScan, DiscoveryTypeOK
<1> QED
  BY <1>1, <1>2, <1>3

\* Stopping a scan leaves at most one listener.
LEMMA StopScanTypes ==
    ASSUME DiscoveryTypeOK, BleScanEnds
    PROVE  /\ listener' \in SUBSET Start /\ Cardinality(listener') <= 1
           /\ missed' \in [Peer -> 0 .. 3]
BY FewMembers DEF BleScanEnds, EndScan, DiscoveryTypeOK

\* Setting a start's intervals and the end of its scan keep the types.
LEMMA IntervalTypes ==
    ASSUME DiscoveryTypeOK, NEW k \in Start, SetIntervals(k) \/ ScanIsOver(k)
    PROVE  /\ stage' \in [Start -> {"none", "first", "on"}]
           /\ again' \in [Start -> 0 .. Period + 1]
           /\ clean' \in [Start -> 0 .. CleanupPeriod + 1]
           /\ held' \in SUBSET Start /\ Cardinality(held') <= 1
<1> USE DiscoveryAssumption
<1>1. CASE SetIntervals(k)
  <2>1. held' \in SUBSET Start /\ Cardinality(held') <= 1
    <3>1. held' = {k}
      BY <1>1 DEF SetIntervals
    <3>2. Cardinality({k}) = 1
      BY FewMembers
    <3> QED
      BY <3>1, <3>2
  <2> QED
    BY <1>1, <2>1 DEF SetIntervals, DiscoveryTypeOK
<1>2. CASE UNCHANGED <<stage, again, clean, held>>
  BY <1>2 DEF DiscoveryTypeOK
<1> QED
  BY <1>1, <1>2 DEF ScanIsOver

\* Stopping the discovery keeps the types.
LEMMA StopTypes ==
    ASSUME DiscoveryTypeOK, Stop
    PROVE  /\ isReady' \in BOOLEAN /\ isScanning' \in BOOLEAN /\ leftover' \in BOOLEAN
           /\ stage' \in [Start -> {"none", "first", "on"}]
           /\ left' \in [Start -> 0 .. ScanTime + 1]
           /\ again' \in [Start -> 0 .. Period + 1]
           /\ clean' \in [Start -> 0 .. CleanupPeriod + 1]
           /\ held' \in SUBSET Start /\ Cardinality(held') <= 1
           /\ listener' \in SUBSET Start /\ Cardinality(listener') <= 1
           /\ missed' \in [Peer -> 0 .. 3]
<1> USE DiscoveryAssumption
<1>1. BleScanEnds
  BY DEF Stop
<1>2. held' \in SUBSET Start /\ Cardinality(held') <= 1
  BY FewMembers DEF Stop
<1>3. /\ stage' \in [Start -> {"none", "first", "on"}]
      /\ again' \in [Start -> 0 .. Period + 1]
      /\ clean' \in [Start -> 0 .. CleanupPeriod + 1]
  BY DEF Stop, DiscoveryTypeOK
<1>4. /\ isReady' \in BOOLEAN /\ isScanning' \in BOOLEAN /\ leftover' \in BOOLEAN
      /\ left' \in [Start -> 0 .. ScanTime + 1]
  BY DEF Stop, DiscoveryTypeOK
<1> QED
  BY <1>1, <1>2, <1>3, <1>4, StopScanTypes

\* Every step of the discovery keeps its types.
LEMMA DiscoveryTypes ==
    DiscoveryTypeOK /\ [DiscoveryNext]_discoveryVars => DiscoveryTypeOK'
<1> SUFFICES ASSUME DiscoveryTypeOK, [DiscoveryNext]_discoveryVars PROVE DiscoveryTypeOK'
  OBVIOUS
<1> USE DiscoveryAssumption
<1>1. CASE BleReady
  BY <1>1 DEF BleReady, timerVars, DiscoveryTypeOK
<1>2. ASSUME NEW k \in Start, StartContinuousDiscovery(k) PROVE DiscoveryTypeOK'
  <2>1. /\ isScanning' = TRUE /\ StartScan(k) /\ UNCHANGED <<isReady, seen, leftover>>
        /\ \/ stage' = [stage EXCEPT ![k] = "first"] /\ UNCHANGED <<again, clean, held>>
           \/ SetIntervals(k)
    BY <1>2 DEF StartContinuousDiscovery
  <2>2. /\ stage' \in [Start -> {"none", "first", "on"}]
        /\ again' \in [Start -> 0 .. Period + 1]
        /\ clean' \in [Start -> 0 .. CleanupPeriod + 1]
        /\ held' \in SUBSET Start /\ Cardinality(held') <= 1
    BY <2>1, IntervalTypes DEF DiscoveryTypeOK
  <2> QED
    BY <2>1, <2>2, StartScanTypes DEF DiscoveryTypeOK
<1>3. ASSUME NEW k \in Start, ScanTimesOut(k) \/ ScanFails(k) PROVE DiscoveryTypeOK'
  <2>1. /\ left' = [left EXCEPT ![k] = 0] /\ BleScanEnds /\ ScanIsOver(k)
        /\ UNCHANGED <<isReady, isScanning, seen, leftover>>
    BY <1>3 DEF ScanTimesOut, ScanFails
  <2>2. left' \in [Start -> 0 .. ScanTime + 1]
    BY <2>1 DEF DiscoveryTypeOK
  <2> QED
    BY <2>1, <2>2, StopScanTypes, IntervalTypes DEF DiscoveryTypeOK
<1>4. ASSUME NEW k \in Start, Rescan(k) PROVE DiscoveryTypeOK'
  <2>1. /\ again' = [again EXCEPT ![k] = Period + 1] /\ StartScan(k)
        /\ UNCHANGED <<isReady, isScanning, stage, clean, held, seen, leftover>>
    BY <1>4 DEF Rescan
  <2>2. again' \in [Start -> 0 .. Period + 1]
    BY <2>1 DEF DiscoveryTypeOK
  <2> QED
    BY <2>1, <2>2, StartScanTypes DEF DiscoveryTypeOK
<1>5. ASSUME NEW k \in Start, CleanupStalePeers(k) PROVE DiscoveryTypeOK'
  BY <1>5 DEF CleanupStalePeers, DiscoveryTypeOK
<1>6. ASSUME NEW d \in Peer, DeviceFound(d) PROVE DiscoveryTypeOK'
  BY <1>6 DEF DeviceFound, timerVars, DiscoveryTypeOK
<1>7. CASE StopDiscovery \/ DestroyDiscovery
  <2>1. Stop /\ seen' \in [Peer -> SUBSET (0 .. PeerTimeout + 1)]
    BY <1>7 DEF StopDiscovery, DestroyDiscovery, DiscoveryTypeOK
  <2> QED
    BY <2>1, StopTypes DEF DiscoveryTypeOK
<1>8. CASE DiscoveryTick
  <2>1. \A timer, N : N \in Nat /\ timer \in [Start -> 0 .. N]
                        => Down(timer) \in [Start -> 0 .. N]
    BY DEF Down
  <2>2. seen' \in [Peer -> SUBSET (0 .. PeerTimeout + 1)]
    BY <1>8 DEF DiscoveryTick, DiscoveryTypeOK
  <2>3. /\ left' = Down(left) /\ again' = Down(again) /\ clean' = Down(clean)
        /\ UNCHANGED <<isReady, isScanning, stage, held, listener, missed, leftover>>
    BY <1>8 DEF DiscoveryTick
  <2>4. ScanTime + 1 \in Nat /\ Period + 1 \in Nat /\ CleanupPeriod + 1 \in Nat
    OBVIOUS
  <2> QED
    BY <2>1, <2>2, <2>3, <2>4 DEF DiscoveryTypeOK
<1>9. CASE UNCHANGED discoveryVars
  BY <1>9 DEF discoveryVars, timerVars, DiscoveryTypeOK
<1> QED
  BY <1>1, <1>2, <1>3, <1>4, <1>5, <1>6, <1>7, <1>8, <1>9 DEF DiscoveryNext

LEMMA StagedNext == DiscoveryTypeOK /\ Staged /\ [DiscoveryNext]_discoveryVars => Staged'
<1> SUFFICES ASSUME DiscoveryTypeOK, Staged, [DiscoveryNext]_discoveryVars PROVE Staged'
  OBVIOUS
<1> USE DiscoveryAssumption
<1>1. ASSUME NEW k \in Start, StartContinuousDiscovery(k) PROVE Staged'
  <2>1. CASE isReady
    BY <1>1, <2>1 DEF StartContinuousDiscovery, StartScan, DiscoveryTypeOK, Staged
  <2>2. CASE ~isReady
    BY <1>1, <2>2 DEF StartContinuousDiscovery, StartScan, SetIntervals, DiscoveryTypeOK,
                      Staged
  <2> QED
    BY <2>1, <2>2
<1>2. ASSUME NEW k \in Start, ScanTimesOut(k) \/ ScanFails(k) PROVE Staged'
  <2>1. left' = [left EXCEPT ![k] = 0] /\ ScanIsOver(k)
    BY <1>2 DEF ScanTimesOut, ScanFails
  <2>2. CASE stage[k] = "first"
    BY <2>1, <2>2 DEF ScanIsOver, SetIntervals, DiscoveryTypeOK, Staged
  <2>3. CASE stage[k] # "first"
    BY <2>1, <2>3 DEF ScanIsOver, DiscoveryTypeOK, Staged
  <2> QED
    BY <2>2, <2>3
<1>3. ASSUME NEW k \in Start, Rescan(k) PROVE Staged'
  BY <1>3 DEF Rescan, StartScan, DiscoveryTypeOK, Staged
<1>4. ASSUME NEW k \in Start, CleanupStalePeers(k) PROVE Staged'
  BY <1>4 DEF CleanupStalePeers, DiscoveryTypeOK, Staged
<1>5. CASE Stop
  BY <1>5 DEF Stop, DiscoveryTypeOK, Staged
<1>6. CASE DiscoveryTick
  BY <1>6 DEF DiscoveryTick, Due, Down, DiscoveryTypeOK, Staged
<1>7. CASE UNCHANGED timerVars
  BY <1>7 DEF timerVars, Staged
<1> QED
  BY <1>1, <1>2, <1>3, <1>4, <1>5, <1>6, <1>7
     DEF DiscoveryNext, BleReady, DeviceFound, StopDiscovery, DestroyDiscovery, discoveryVars

\* Until Bluetooth is ready, nothing listens and nothing is found.
LEMMA NotReadyNext ==
    DiscoveryTypeOK /\ NotReady /\ [DiscoveryNext]_discoveryVars => NotReady'
<1> SUFFICES ASSUME DiscoveryTypeOK, NotReady, [DiscoveryNext]_discoveryVars PROVE NotReady'
  OBVIOUS
<1>1. CASE BleReady
  BY <1>1 DEF BleReady, NotReady
<1>2. ASSUME NEW k \in Start, StartContinuousDiscovery(k) \/ Rescan(k) PROVE NotReady'
  BY <1>2 DEF StartContinuousDiscovery, Rescan, StartScan, NotReady
<1>3. ASSUME NEW k \in Start, ScanTimesOut(k) \/ ScanFails(k) PROVE NotReady'
  BY <1>3 DEF ScanTimesOut, ScanFails, BleScanEnds, DiscoveryTypeOK, NotReady
<1>4. ASSUME NEW k \in Start, CleanupStalePeers(k) PROVE NotReady'
  BY <1>4 DEF CleanupStalePeers, NotReady
<1>5. ASSUME NEW d \in Peer, DeviceFound(d) PROVE NotReady'
  BY <1>5 DEF DeviceFound, NotReady
<1>6. CASE StopDiscovery \/ DestroyDiscovery
  BY <1>6 DEF StopDiscovery, DestroyDiscovery, Stop, BleScanEnds, NotReady
<1>7. CASE DiscoveryTick
  BY <1>7 DEF DiscoveryTick, Down, NotReady
<1>8. CASE UNCHANGED discoveryVars
  BY <1>8 DEF discoveryVars, timerVars, NotReady
<1> QED
  BY <1>1, <1>2, <1>3, <1>4, <1>5, <1>6, <1>7, <1>8 DEF DiscoveryNext

\* A report is heard while a scan listens.
LEMMA FoundNext ==
    DiscoveryTypeOK /\ NotReady /\ FoundWhileListening /\ [DiscoveryNext]_discoveryVars
        => FoundWhileListening'
<1> SUFFICES ASSUME DiscoveryTypeOK, NotReady, FoundWhileListening,
                    [DiscoveryNext]_discoveryVars
             PROVE  FoundWhileListening'
  OBVIOUS
<1>1. ASSUME NEW k \in Start, StartContinuousDiscovery(k) \/ Rescan(k)
      PROVE  FoundWhileListening'
  BY <1>1 DEF StartContinuousDiscovery, Rescan, StartScan, NotReady, FoundWhileListening
<1>2. CASE BleScanEnds /\ \A d \in Peer : seen'[d] # {} => seen[d] # {}
  BY <1>2 DEF BleScanEnds, EndScan, DiscoveryTypeOK, FoundWhileListening
<1>3. ASSUME NEW k \in Start, ScanTimesOut(k) \/ ScanFails(k) PROVE FoundWhileListening'
  BY <1>2, <1>3 DEF ScanTimesOut, ScanFails
<1>4. ASSUME NEW k \in Start, CleanupStalePeers(k) PROVE FoundWhileListening'
  BY <1>4 DEF CleanupStalePeers, FoundWhileListening
<1>5. ASSUME NEW d \in Peer, DeviceFound(d) PROVE FoundWhileListening'
  BY <1>5 DEF DeviceFound, FoundWhileListening
<1>6. CASE StopDiscovery \/ DestroyDiscovery
  BY <1>2, <1>6 DEF StopDiscovery, DestroyDiscovery, Stop
<1>7. CASE DiscoveryTick
  BY <1>7 DEF DiscoveryTick, FoundWhileListening
<1>8. CASE BleReady \/ UNCHANGED discoveryVars
  BY <1>8 DEF BleReady, discoveryVars, FoundWhileListening
<1> QED
  BY <1>1, <1>3, <1>4, <1>5, <1>6, <1>7, <1>8 DEF DiscoveryNext

\* Without a start left behind, stops and starts take turns.
LEMMA AloneNext ==
    DiscoveryTypeOK /\ Staged /\ OneStart /\ [DiscoveryNext]_discoveryVars => OneStart'
<1> SUFFICES ASSUME DiscoveryTypeOK, Staged, OneStart, [DiscoveryNext]_discoveryVars
             PROVE  OneStart'
  OBVIOUS
<1>1. ASSUME NEW k \in Start, StartContinuousDiscovery(k) PROVE OneStart'
  <2> SUFFICES ASSUME ~leftover PROVE Running' = {k} /\ isScanning'
    BY <1>1 DEF StartContinuousDiscovery, OneStart
  <2>1. Running = {}
    BY <1>1 DEF StartContinuousDiscovery, MayStart, OneStart
  <2>2. isScanning' = TRUE
        /\ \/ stage' = [stage EXCEPT ![k] = "first"]
           \/ stage' = [stage EXCEPT ![k] = "on"]
    BY <1>1 DEF StartContinuousDiscovery, SetIntervals
  <2> QED
    BY <2>1, <2>2 DEF Running, DiscoveryTypeOK
<1>2. ASSUME NEW k \in Start, ScanTimesOut(k) \/ ScanFails(k) PROVE OneStart'
  <2>1. /\ ScanIsOver(k) /\ listener' = {}
        /\ UNCHANGED <<isScanning, leftover>>
    BY <1>2 DEF ScanTimesOut, ScanFails, BleScanEnds
  <2>2. Running' = Running
    <3>1. CASE stage[k] = "first"
      BY <2>1, <3>1 DEF ScanIsOver, SetIntervals, Running, DiscoveryTypeOK
    <3>2. CASE stage[k] # "first"
      BY <2>1, <3>2 DEF ScanIsOver, Running
    <3> QED
      BY <3>1, <3>2
  <2> QED
    BY <2>1, <2>2 DEF OneStart
<1>3. ASSUME NEW k \in Start, Rescan(k) PROVE OneStart'
  <2>1. k \in Running /\ Running' = Running /\ UNCHANGED <<isScanning, leftover>>
    BY <1>3 DEF Rescan, Staged, Running
  <2> QED
    BY <2>1 DEF OneStart, DiscoveryTypeOK
<1>4. CASE Stop
  <2>1. /\ stage' = [k \in Start |-> IF k \in held THEN "none" ELSE stage[k]]
        /\ listener' = {} /\ isScanning' = FALSE
        /\ leftover' = (\E k \in Start \ held : stage[k] # "none")
    BY <1>4 DEF Stop, BleScanEnds
  <2>2. ~leftover' => Running' = {}
    BY <2>1 DEF Running
  <2> QED
    BY <2>1, <2>2 DEF OneStart
<1>5. ASSUME NEW d \in Peer, DeviceFound(d) PROVE OneStart'
  BY <1>5 DEF DeviceFound, timerVars, Running, OneStart
<1>6. CASE UNCHANGED <<isScanning, stage, listener, leftover>>
  BY <1>6 DEF Running, OneStart
<1> QED
  BY <1>1, <1>2, <1>3, <1>4, <1>5, <1>6
     DEF DiscoveryNext, BleReady, CleanupStalePeers, DiscoveryTick, StopDiscovery,
         DestroyDiscovery, discoveryVars, timerVars

\* The start that runs is the only one.
LEMMA Sole ==
    ASSUME OneStart, ~leftover, NEW k \in Start, NEW j \in Start,
           stage[k] # "none", stage[j] # "none"
    PROVE  j = k
<1>1. k \in Running /\ j \in Running
  BY DEF Running
<1> QED
  BY <1>1 DEF OneStart

\* Only the running start has a listener.
LEMMA ListensNext ==
    /\ DiscoveryTypeOK /\ Staged /\ NotReady /\ OneStart /\ ListensForRunning
    /\ [DiscoveryNext]_discoveryVars
    => ListensForRunning'
<1> SUFFICES ASSUME DiscoveryTypeOK, Staged, NotReady, OneStart, ListensForRunning,
                    [DiscoveryNext]_discoveryVars,
                    ~leftover', NEW k \in Start, NEW l \in listener', stage'[k] # "none"
             PROVE  l = k /\ left'[k] > 0
  BY DEF ListensForRunning
<1> USE DiscoveryAssumption
<1>1. ASSUME NEW j \in Start, StartContinuousDiscovery(j) PROVE l = k /\ left'[k] > 0
  <2>1. Running = {} /\ listener = {} /\ ~leftover
    BY <1>1 DEF StartContinuousDiscovery, MayStart, OneStart
  <2>2. isReady /\ left' = [left EXCEPT ![j] = ScanTime + 1] /\ listener' = {j}
    BY <1>1, <2>1 DEF StartContinuousDiscovery, StartScan
  <2>3. k = j
    BY <1>1, <2>1, <2>2 DEF StartContinuousDiscovery, Running, DiscoveryTypeOK
  <2> QED
    BY <2>2, <2>3 DEF DiscoveryTypeOK
<1>2. ASSUME NEW j \in Start, Rescan(j) PROVE l = k /\ left'[k] > 0
  <2>1. stage[j] = "on" /\ stage' = stage /\ ~leftover
    BY <1>2 DEF Rescan, Staged
  <2>2. j = k
    BY <2>1, Sole
  <2>3. left[k] = 0 /\ listener = {}
    BY <1>2, <2>1, <2>2 DEF Rescan, ListensForRunning, DiscoveryTypeOK
  <2> QED
    BY <1>2, <2>2, <2>3 DEF Rescan, StartScan, DiscoveryTypeOK
<1>3. ASSUME NEW j \in Start, ScanTimesOut(j) \/ ScanFails(j) PROVE FALSE
  BY <1>3 DEF ScanTimesOut, ScanFails, BleScanEnds
<1>4. CASE Stop
  BY <1>4 DEF Stop, BleScanEnds
<1>5. CASE DiscoveryTick
  BY <1>5 DEF DiscoveryTick, Due, Down, ListensForRunning, DiscoveryTypeOK
<1>6. CASE UNCHANGED <<stage, left, listener, leftover>>
  BY <1>6 DEF ListensForRunning
<1> QED
  BY <1>1, <1>2, <1>3, <1>4, <1>5, <1>6
     DEF DiscoveryNext, BleReady, CleanupStalePeers, DeviceFound, StopDiscovery,
         DestroyDiscovery, discoveryVars, timerVars

\* Each round starts its scan at once.
LEMMA InStepNext ==
    /\ DiscoveryTypeOK /\ Staged /\ OneStart /\ InStep
    /\ [DiscoveryNext]_discoveryVars
    => InStep'
<1> SUFFICES ASSUME DiscoveryTypeOK, Staged, OneStart, InStep,
                    [DiscoveryNext]_discoveryVars,
                    ~leftover', NEW k \in Start, stage'[k] = "on", left'[k] > 0
             PROVE  ScanTime + 1 - left'[k] = Period + 1 - again'[k]
  BY DEF InStep, SinceScan, SinceRound
<1> USE DiscoveryAssumption
<1>1. ASSUME NEW j \in Start, StartContinuousDiscovery(j) PROVE FALSE
  <2>1. Running = {} /\ ~leftover
    BY <1>1 DEF StartContinuousDiscovery, MayStart, OneStart
  <2>2. k = j
    BY <1>1, <2>1 DEF StartContinuousDiscovery, SetIntervals, Running, DiscoveryTypeOK
  <2>3. ~isReady
    BY <1>1, <2>2 DEF StartContinuousDiscovery, DiscoveryTypeOK
  <2> QED
    BY <1>1, <2>2, <2>3 DEF StartContinuousDiscovery, StartScan, DiscoveryTypeOK
<1>2. ASSUME NEW j \in Start, Rescan(j)
      PROVE  ScanTime + 1 - left'[k] = Period + 1 - again'[k]
  <2>1. stage[j] = "on" /\ stage' = stage /\ ~leftover
    BY <1>2 DEF Rescan, Staged
  <2>2. j = k
    BY <2>1, Sole
  <2> QED
    BY <1>2, <2>2 DEF Rescan, StartScan, DiscoveryTypeOK
<1>3. ASSUME NEW j \in Start, ScanTimesOut(j) \/ ScanFails(j)
      PROVE  ScanTime + 1 - left'[k] = Period + 1 - again'[k]
  <2>1. left' = [left EXCEPT ![j] = 0] /\ ScanIsOver(j) /\ UNCHANGED leftover
    BY <1>3 DEF ScanTimesOut, ScanFails
  <2>2. k # j
    BY <2>1 DEF DiscoveryTypeOK
  <2>3. /\ stage'[k] = stage[k] /\ left'[k] = left[k] /\ again'[k] = again[k]
        /\ clean'[k] = clean[k]
    BY <2>1, <2>2 DEF ScanIsOver, SetIntervals, DiscoveryTypeOK
  <2> QED
    BY <2>1, <2>3 DEF InStep, SinceScan, SinceRound
<1>4. CASE Stop
  BY <1>4 DEF Stop
<1>5. CASE DiscoveryTick
  <2>1. /\ left'[k] = left[k] - 1 /\ again'[k] = again[k] - 1
        /\ stage[k] = "on" /\ left[k] > 0 /\ ~leftover
    BY <1>5 DEF DiscoveryTick, Down, DiscoveryTypeOK, Staged
  <2> QED
    BY <2>1 DEF InStep, SinceScan, SinceRound, DiscoveryTypeOK
<1>6. CASE UNCHANGED <<stage, left, again, leftover>>
  BY <1>6 DEF InStep, SinceScan, SinceRound
<1> QED
  BY <1>1, <1>2, <1>3, <1>4, <1>5, <1>6
     DEF DiscoveryNext, BleReady, CleanupStalePeers, DeviceFound, StopDiscovery,
         DestroyDiscovery, discoveryVars, timerVars

\* No step lets a report grow older than the scans since account for.
LEMMA BoundedNext ==
    /\ DiscoveryTypeOK /\ Staged /\ NotReady /\ FoundWhileListening
    /\ OneStart /\ ListensForRunning /\ Bounded /\ [DiscoveryNext]_discoveryVars
    => Bounded'
<1> SUFFICES ASSUME DiscoveryTypeOK, Staged, NotReady, FoundWhileListening,
                    OneStart, ListensForRunning, Bounded, [DiscoveryNext]_discoveryVars,
                    ~leftover', NEW k \in Start, NEW d \in Peer, NEW a \in seen'[d]
             PROVE  /\ stage'[k] = "first" => FirstBound(d, k, a)'
                    /\ stage'[k] = "on" => RoundBound(d, k, a)'
  BY DEF Bounded, FirstBound, RoundBound, SinceScan, SinceRound, SinceCleanup
<1> USE DiscoveryAssumption
<1> DEFINE Goal == /\ stage'[k] = "first" => FirstBound(d, k, a)'
                   /\ stage'[k] = "on" => RoundBound(d, k, a)'
<1>0. /\ missed \in [Peer -> 0 .. 3] /\ seen \in [Peer -> SUBSET (0 .. PeerTimeout + 1)]
      /\ left[k] \in 0 .. ScanTime + 1 /\ again[k] \in 0 .. Period + 1
      /\ clean[k] \in 0 .. CleanupPeriod + 1
  BY DEF DiscoveryTypeOK
<1>1. ASSUME NEW j \in Start, StartContinuousDiscovery(j) PROVE Goal
  <2>1. Running = {} /\ listener = {} /\ ~leftover /\ a \in seen[d]
    BY <1>1 DEF StartContinuousDiscovery, MayStart, OneStart
  <2>2. isReady /\ missed[d] > 0
    BY <2>1 DEF NotReady, FoundWhileListening
  <2>3. /\ stage' = [stage EXCEPT ![j] = "first"] /\ listener' = {j} /\ missed' = missed
    BY <1>1, <2>1, <2>2 DEF StartContinuousDiscovery, StartScan, EndScan
  <2>4. stage'[k] # "on" /\ (stage'[k] = "first" => k = j)
    BY <2>1, <2>3 DEF Running, DiscoveryTypeOK
  <2> QED
    BY <1>0, <2>2, <2>3, <2>4 DEF FirstBound
<1>2. ASSUME NEW j \in Start, ScanTimesOut(j) \/ ScanFails(j) PROVE Goal
  <2>1. /\ left[j] > 0 /\ left' = [left EXCEPT ![j] = 0] /\ ScanIsOver(j)
        /\ listener' = {} /\ seen' = seen /\ ~leftover
        /\ missed' = IF listener # {}
                     THEN [e \in Peer |-> IF missed[e] < 3 THEN missed[e] + 1 ELSE 3]
                     ELSE missed
    BY <1>2 DEF ScanTimesOut, ScanFails, BleScanEnds, EndScan, DiscoveryTypeOK
  <2>2. missed'[d] = IF listener = {} \/ missed[d] = 3 THEN missed[d] ELSE missed[d] + 1
    BY <1>0, <2>1
  <2>3. CASE k = j /\ stage[k] = "first"
    <3>1. /\ stage'[k] = "on" /\ again'[k] = Period + 1 /\ clean'[k] = CleanupPeriod + 1
      BY <2>1, <2>3 DEF ScanIsOver, SetIntervals, DiscoveryTypeOK
    <3>2. FirstBound(d, k, a)
      BY <2>1, <2>3 DEF Bounded
    <3> QED
      BY <1>0, <2>1, <2>2, <2>3, <3>1, <3>2
         DEF FirstBound, RoundBound, SinceScan, SinceRound, SinceCleanup
  <2>4. CASE ~(k = j /\ stage[k] = "first")
    <3>1. /\ stage'[k] = stage[k] /\ again'[k] = again[k] /\ clean'[k] = clean[k]
          /\ stage[k] = "first" => left'[k] = left[k]
      BY <2>1, <2>4 DEF ScanIsOver, SetIntervals, DiscoveryTypeOK
    <3>2. /\ stage[k] = "first" => FirstBound(d, k, a)
          /\ stage[k] = "on" => RoundBound(d, k, a)
      BY <2>1 DEF Bounded
    <3> QED
      BY <1>0, <2>1, <2>2, <3>1, <3>2
         DEF FirstBound, RoundBound, SinceScan, SinceRound, SinceCleanup
  <2> QED
    BY <2>3, <2>4
<1>3. ASSUME NEW j \in Start, Rescan(j) PROVE Goal
  <2>1. stage[j] = "on" /\ stage' = stage /\ seen' = seen /\ clean' = clean /\ ~leftover
    BY <1>3 DEF Rescan, Staged
  <2>2. stage[k] # "none" => j = k
    BY <2>1, Sole
  <2>3. CASE j = k
    <3>1. left[k] = 0 /\ listener = {} /\ isReady
      BY <1>3, <2>1, <2>3 DEF Rescan, ListensForRunning, NotReady, DiscoveryTypeOK
    <3>2. /\ again[k] = 1 /\ again'[k] = Period + 1 /\ listener' = {k} /\ missed' = missed
      BY <1>3, <2>3, <3>1 DEF Rescan, StartScan, EndScan, DiscoveryTypeOK
    <3>3. RoundBound(d, k, a)
      BY <2>1, <2>3 DEF Bounded
    <3> QED
      BY <1>0, <2>1, <2>3, <3>1, <3>2, <3>3 DEF RoundBound, SinceRound, SinceCleanup
  <2> QED
    BY <2>1, <2>2, <2>3 DEF DiscoveryTypeOK
<1>4. ASSUME NEW j \in Start, CleanupStalePeers(j) PROVE Goal
  <2>1. /\ stage[j] = "on" /\ a \in seen[d] /\ ~leftover
        /\ clean' = [clean EXCEPT ![j] = CleanupPeriod + 1]
        /\ UNCHANGED <<stage, left, again, listener, missed>>
    BY <1>4 DEF CleanupStalePeers, Staged
  <2>2. clean'[k] = clean[k] \/ clean'[k] = CleanupPeriod + 1
    BY <2>1 DEF DiscoveryTypeOK
  <2>3. /\ stage[k] = "first" => FirstBound(d, k, a)
        /\ stage[k] = "on" => RoundBound(d, k, a)
    BY <2>1 DEF Bounded
  <2> QED
    BY <1>0, <2>1, <2>2, <2>3
       DEF FirstBound, RoundBound, SinceScan, SinceRound, SinceCleanup
<1>5. ASSUME NEW e \in Peer, DeviceFound(e) PROVE Goal
  <2>1. /\ listener # {} /\ ~leftover
        /\ UNCHANGED <<stage, left, again, clean, listener>>
    BY <1>5 DEF DeviceFound, timerVars
  <2>2. CASE d = e
    <3>1. a = 0 /\ missed'[d] = 0
      BY <1>5, <2>2 DEF DeviceFound, DiscoveryTypeOK
    <3> QED
      BY <1>0, <2>1, <3>1 DEF FirstBound, RoundBound, SinceScan, SinceRound
  <2>3. CASE d # e
    <3>1. a \in seen[d] /\ missed'[d] = missed[d]
      BY <1>5, <2>3 DEF DeviceFound, DiscoveryTypeOK
    <3>2. /\ stage[k] = "first" => FirstBound(d, k, a)
          /\ stage[k] = "on" => RoundBound(d, k, a)
      BY <2>1, <3>1 DEF Bounded
    <3> QED
      BY <2>1, <3>1, <3>2 DEF FirstBound, RoundBound, SinceScan, SinceRound, SinceCleanup
  <2> QED
    BY <2>2, <2>3
<1>6. CASE Stop
  BY <1>6 DEF Stop
<1>7. CASE DiscoveryTick
  <2>1. /\ seen' = [e \in Peer |->
                      {IF b <= PeerTimeout THEN b + 1 ELSE b : b \in seen[e]}]
        /\ UNCHANGED <<stage, listener, missed>> /\ ~leftover
        /\ left' = Down(left) /\ again' = Down(again) /\ clean' = Down(clean)
    BY <1>7 DEF DiscoveryTick
  <2>2. PICK b \in seen[d] : a = IF b <= PeerTimeout THEN b + 1 ELSE b
    BY <2>1
  <2>3. b \in 0 .. PeerTimeout + 1 /\ a \in Nat /\ a <= b + 1
    BY <1>0, <2>2
  <2>4. /\ stage[k] = "first" => FirstBound(d, k, b)
        /\ stage[k] = "on" => RoundBound(d, k, b)
    BY <2>1, <2>2 DEF Bounded
  <2>5. /\ stage[k] = "first" => left'[k] = left[k] - 1
        /\ stage[k] = "on" => again'[k] = again[k] - 1 /\ clean'[k] = clean[k] - 1
    BY <1>0, <2>1 DEF Down, Staged
  <2>6. stage[k] = "first" => FirstBound(d, k, a)'
    BY <1>0, <2>1, <2>3, <2>4, <2>5 DEF FirstBound, SinceScan
  <2>7. stage[k] = "on" => RoundBound(d, k, a)'
    BY <1>0, <2>1, <2>3, <2>4, <2>5 DEF RoundBound, SinceRound, SinceCleanup
  <2> QED
    BY <2>1, <2>6, <2>7
<1>8. CASE UNCHANGED <<stage, left, again, clean, listener, seen, missed, leftover>>
  <2>1. /\ stage[k] = "first" => FirstBound(d, k, a)
        /\ stage[k] = "on" => RoundBound(d, k, a)
    BY <1>8 DEF Bounded
  <2> QED
    BY <1>8, <2>1 DEF FirstBound, RoundBound, SinceScan, SinceRound, SinceCleanup
<1> QED
  BY <1>1, <1>2, <1>3, <1>4, <1>5, <1>6, <1>7, <1>8
     DEF DiscoveryNext, BleReady, StopDiscovery, DestroyDiscovery, discoveryVars, timerVars

\* The invariant of the discovery.
DiscoveryInv ==
    /\ DiscoveryTypeOK /\ Staged /\ NotReady /\ FoundWhileListening
    /\ OneStart /\ ListensForRunning /\ InStep /\ Bounded

LEMMA DiscoveryInvInit == DiscoveryInit => DiscoveryInv
<1> SUFFICES ASSUME DiscoveryInit PROVE DiscoveryInv
  OBVIOUS
<1> USE DiscoveryAssumption
<1>1. DiscoveryTypeOK
  <2>1. Cardinality({}) <= 1
    BY FewMembers
  <2>2. held = {} /\ listener = {} /\ isReady = FALSE /\ isScanning = FALSE /\ leftover = FALSE
    BY DEF DiscoveryInit
  <2>3. /\ left \in [Start -> 0 .. ScanTime + 1]
        /\ again \in [Start -> 0 .. Period + 1]
        /\ clean \in [Start -> 0 .. CleanupPeriod + 1]
        /\ missed \in [Peer -> 0 .. 3]
    BY DEF DiscoveryInit
  <2>4. /\ stage \in [Start -> {"none", "first", "on"}]
        /\ seen \in [Peer -> SUBSET (0 .. PeerTimeout + 1)]
    BY DEF DiscoveryInit
  <2> QED
    BY <2>1, <2>2, <2>3, <2>4 DEF DiscoveryTypeOK
<1>2. Staged /\ NotReady /\ FoundWhileListening
  BY DEF DiscoveryInit, Staged, NotReady, FoundWhileListening
<1>3. OneStart /\ ListensForRunning /\ InStep /\ Bounded
  BY DEF DiscoveryInit, OneStart, Running, ListensForRunning, InStep, Bounded
<1> QED
  BY <1>1, <1>2, <1>3 DEF DiscoveryInv

LEMMA DiscoveryInvAlways == DiscoverySpec => []DiscoveryInv
<1>1. DiscoveryInv /\ [DiscoveryNext]_discoveryVars => DiscoveryInv'
  BY DiscoveryTypes, StagedNext, NotReadyNext, FoundNext, AloneNext, ListensNext, InStepNext,
     BoundedNext
     DEF DiscoveryInv
<1> QED
  BY <1>1, DiscoveryInvInit, PTL DEF DiscoverySpec

\* The states of the discovery keep their types, for any number of overlapping starts.
THEOREM DiscoveryTypesAlways == DiscoverySpec => []DiscoveryTypeOK
<1>1. DiscoveryInv => DiscoveryTypeOK
  BY DEF DiscoveryInv
<1> QED
  BY <1>1, DiscoveryInvAlways, PTL

\* However starts, stops and failing scans overlap, a discovery that no stop left behind
\* runs exactly when it is on (DeviceDiscoveryService.ts:37-69).
THEOREM RunsOnlyWhenOnAlways == DiscoverySpec => []RunsOnlyWhenOn
<1>1. DiscoveryInv => RunsOnlyWhenOn
  BY FewMembers DEF DiscoveryInv, OneStart, RunsOnlyWhenOn
<1> QED
  BY <1>1, DiscoveryInvAlways, PTL

\* A device is given up as lost only after two scans without it
\* (DeviceDiscoveryService.ts:147-156), whatever cuts a scan short.
THEOREM LostWasMissedAlways == DiscoverySpec => LostWasMissed
<1> DEFINE Lost == \A d \in Peer, k \in Start :
                     (CleanupStalePeers(k) /\ ~leftover /\ seen[d] # {} /\ seen'[d] = {})
                        => missed[d] = 3
<1>1. ASSUME DiscoveryInv, NEW d \in Peer, NEW k \in Start, CleanupStalePeers(k),
             ~leftover, seen[d] # {}, seen'[d] = {}
      PROVE  missed[d] = 3
  <2> USE DiscoveryAssumption
  <2>1. /\ missed[d] \in 0 .. 3 /\ seen[d] \in SUBSET (0 .. PeerTimeout + 1)
        /\ left[k] \in 0 .. ScanTime + 1 /\ again[k] \in 0 .. Period + 1
        /\ clean[k] = 1 /\ stage[k] = "on" /\ again[k] > 0
    BY <1>1 DEF DiscoveryInv, DiscoveryTypeOK, Staged, CleanupStalePeers
  <2>2. PICK a \in seen[d] : a > PeerTimeout
    BY <1>1 DEF CleanupStalePeers, IsStalePeer
  <2>3. RoundBound(d, k, a) /\ a \in Nat
    BY <1>1, <2>1, <2>2 DEF DiscoveryInv, Bounded
  <2>4. listener # {} => SinceRound(k) <= ScanTime
    BY <1>1, <2>1 DEF DiscoveryInv, ListensForRunning, InStep, SinceScan
  <2> QED
    BY <2>1, <2>2, <2>3, <2>4 DEF RoundBound, SinceRound, SinceCleanup
<1>2. DiscoveryInv /\ [DiscoveryNext]_discoveryVars => [Lost]_discoveryVars
  BY <1>1
<1> QED
  BY <1>2, DiscoveryInvAlways, PTL DEF DiscoverySpec, LostWasMissed

-----------------------------------------------------------------------------
(* MessageChunker: what the chunks of a message add up to *)

\* Cutting a text at every MaxPayload characters leaves the last piece shorter or full,
\* and no piece empty.
LEMMA PieceEnds ==
    ASSUME NEW S, NEW data \in Seq(S)
    PROVE  LET t == TotalChunks(data)
               End(i) == IF i * MaxPayload < Len(data) THEN i * MaxPayload ELSE Len(data)
           IN  /\ t \in Nat /\ (t = 0 <=> Len(data) = 0)
               /\ End(0) = 0 /\ End(t) = Len(data)
               /\ \A i \in 0 .. t - 1 :
                      /\ End(i) = i * MaxPayload /\ End(i) \in Nat /\ End(i + 1) \in Nat
                      /\ End(i) < End(i + 1) /\ End(i + 1) <= Len(data)
                      /\ Piece(data, i) = SubSeq(data, End(i) + 1, End(i + 1))
<1> USE ChunkerAssumption
<1> DEFINE n == Len(data)
           t == TotalChunks(data)
           End(i) == IF i * MaxPayload < n THEN i * MaxPayload ELSE n
<1>0. n \in Nat
  OBVIOUS
<1>1. /\ t \in Nat /\ t * MaxPayload >= n
      /\ n > 0 => t > 0 /\ (t - 1) * MaxPayload < n
      /\ n = 0 => t = 0
  <2>1. t = (n + MaxPayload - 1) \div MaxPayload
    BY DEF TotalChunks
  <2> HIDE DEF n, t
  <2>2. /\ t \in Nat /\ t * MaxPayload >= n
        /\ n > 0 => t > 0 /\ (t - 1) * MaxPayload < n
    BY <1>0, <2>1
  <2>3. n = 0 => t = 0
    BY <1>0, <2>1
  <2> QED
    BY <2>2, <2>3
<1> HIDE DEF t
<1>2. ASSUME NEW i \in 0 .. t - 1
      PROVE  /\ i * MaxPayload \in Nat /\ i * MaxPayload < n
             /\ (i + 1) * MaxPayload = i * MaxPayload + MaxPayload
  <2>1. i * MaxPayload <= (t - 1) * MaxPayload
    BY <1>1
  <2>2. i * MaxPayload \in Nat /\ (i + 1) * MaxPayload = i * MaxPayload + MaxPayload
    BY <1>1
  <2>3. n > 0
    <3>1. n # 0
      BY <1>1
    <3> QED
      BY <1>0, <3>1
  <2>4. (t - 1) * MaxPayload < n /\ (t - 1) * MaxPayload \in Int
    BY <1>1, <2>3
  <2> HIDE DEF n
  <2> QED
    BY <1>0, <2>1, <2>2, <2>4
<1>3. End(0) = 0 /\ End(t) = n
  <2>1. 0 * MaxPayload = 0
    OBVIOUS
  <2>2. t * MaxPayload \in Nat
    BY <1>1
  <2> HIDE DEF n
  <2> QED
    BY <1>0, <1>1, <2>1, <2>2
<1>4. ASSUME NEW i \in 0 .. t - 1
      PROVE  /\ End(i) = i * MaxPayload /\ End(i) \in Nat /\ End(i + 1) \in Nat
             /\ End(i) < End(i + 1) /\ End(i + 1) <= n
             /\ Piece(data, i) = SubSeq(data, End(i) + 1, End(i + 1))
  <2>1. Min({(i + 1) * MaxPayload, n}) = End(i + 1)
    <3>1. (i + 1) * MaxPayload \in Nat
      BY <1>2
    <3> DEFINE a == (i + 1) * MaxPayload
    <3> HIDE DEF a, n
    <3>2. Min({a, n}) = IF a < n THEN a ELSE n
      BY <1>0, <3>1 DEF Min, a
    <3> QED
      BY <3>2 DEF a
  <2>2. Piece(data, i) = SubSeq(data, i * MaxPayload + 1, End(i + 1))
    BY <2>1 DEF Piece
  <2>3. /\ End(i) = i * MaxPayload /\ End(i) \in Nat /\ End(i + 1) \in Nat
        /\ End(i) < End(i + 1) /\ End(i + 1) <= n
    <3> HIDE DEF n
    <3> QED
      BY <1>0, <1>2
  <2> QED
    BY <2>2, <2>3
<1>5. t = 0 <=> n = 0
  BY <1>0, <1>1
<1> QED
  BY <1>0, <1>1, <1>3, <1>4, <1>5 DEF t

\* The recursion of FlattenSeq.
Flat(seqs) ==
    CHOOSE f : f = [i \in 1 .. Len(seqs) |-> IF i = 1 THEN seqs[i] ELSE f[i - 1] \o seqs[i]]

\* The pieces of a text, put one after the other, are the text.
LEMMA PiecesMakeText ==
    ASSUME NEW S, NEW data \in Seq(S), NEW received, TotalChunks(data) > 0,
           \A i \in 0 .. TotalChunks(data) - 1 : received[i] = Piece(data, i)
    PROVE  FlattenSeq([i \in 1 .. TotalChunks(data) |-> received[i - 1]]) = data
<1> DEFINE t == TotalChunks(data)
           n == Len(data)
           End(i) == IF i * MaxPayload < n THEN i * MaxPayload ELSE n
           seqs == [i \in 1 .. t |-> received[i - 1]]
           Is(f) == f = [i \in 1 .. t |-> IF i = 1 THEN seqs[i] ELSE f[i - 1] \o seqs[i]]
           prefix == [i \in 1 .. t |-> SubSeq(data, 1, End(i))]
<1>1. /\ t \in Nat /\ t > 0 /\ n \in Nat
      /\ End(0) = 0 /\ End(t) = n
      /\ \A i \in 0 .. t - 1 :
             /\ End(i) \in Nat /\ End(i + 1) \in Nat
             /\ End(i) < End(i + 1) /\ End(i + 1) <= n
             /\ Piece(data, i) = SubSeq(data, End(i) + 1, End(i + 1))
  BY PieceEnds
<1> HIDE DEF End, t, n
<1>2. ASSUME NEW i \in 1 .. t
      PROVE  seqs[i] = SubSeq(data, End(i - 1) + 1, End(i))
  <2>1. i - 1 \in 0 .. t - 1 /\ (i - 1) + 1 = i
    BY <1>1
  <2>2. seqs[i] = received[i - 1]
    OBVIOUS
  <2>3. received[i - 1] = Piece(data, i - 1)
    BY <2>1 DEF t
  <2> QED
    BY <1>1, <2>1, <2>2, <2>3
<1>3. ASSUME NEW i \in 1 .. t
      PROVE  prefix[i] = IF i = 1 THEN seqs[i] ELSE prefix[i - 1] \o seqs[i]
  <2>0. PICK a \in 0 .. n : \E b \in a .. n : a = End(i - 1) /\ b = End(i)
    <3>1. i - 1 \in 0 .. t - 1 /\ (i - 1) + 1 = i
      BY <1>1
    <3>2. /\ End(i - 1) \in Nat /\ End((i - 1) + 1) \in Nat
          /\ End(i - 1) < End((i - 1) + 1) /\ End((i - 1) + 1) <= n
      BY <1>1, <3>1
    <3>3. End((i - 1) + 1) = End(i)
      BY <3>1, Zenon
    <3>4. End(i - 1) \in 0 .. n /\ End(i) \in End(i - 1) .. n
      <4> DEFINE from == End(i - 1)
                 to == End(i)
      <4>1. from \in Nat /\ to \in Nat /\ from < to /\ to <= n
        BY <3>2, <3>3, Zenon
      <4> HIDE DEF from, to
      <4>2. from \in 0 .. n /\ to \in from .. n
        BY <1>1, <4>1
      <4> QED
        BY <4>2 DEF from, to
    <3> QED
      BY <3>4
  <2>1. PICK b \in a .. n : a = End(i - 1) /\ b = End(i)
    BY <2>0
  <2>2. prefix[i] = SubSeq(data, 1, b) /\ seqs[i] = SubSeq(data, a + 1, b)
    <3>1. prefix[i] = SubSeq(data, 1, b)
      BY <2>1
    <3> HIDE DEF seqs
    <3>2. seqs[i] = SubSeq(data, a + 1, b)
      BY <1>2, <2>1
    <3> QED
      BY <3>1, <3>2
  <2>3. CASE i = 1
    <3>1. a + 1 = 1
      <4>1. i - 1 = 0
        BY <2>3
      <4>2. End(i - 1) = 0
        BY <1>1, <4>1
      <4> QED
        BY <2>1, <4>2
    <3> HIDE DEF prefix, seqs
    <3>2. SubSeq(data, a + 1, b) = SubSeq(data, 1, b)
      BY <3>1, Zenon
    <3> QED
      BY <2>2, <2>3, <3>2, Zenon
  <2>4. CASE i # 1
    <3>1. i - 1 \in 1 .. t
      BY <1>1, <2>4
    <3>2. prefix[i - 1] = SubSeq(data, 1, a)
      BY <2>1, <3>1
    <3>3. SubSeq(data, 1, a) \o SubSeq(data, a + 1, b) = SubSeq(data, 1, b)
      <4>1. 1 \in 1 .. Len(data) + 1 /\ a \in 1 - 1 .. Len(data) /\ b \in a .. Len(data)
        BY <1>1 DEF n
      <4> QED
        BY <4>1, ConcatAdjacentSubSeq, Zenon
    <3> QED
      BY <2>2, <2>4, <3>2, <3>3
  <2> QED
    BY <2>3, <2>4
<1>4. Len(seqs) = t
  BY <1>1
<1>5. Flat(seqs) = CHOOSE f : Is(f)
  BY <1>4 DEF Flat
<1>6. Is(prefix)
  <2>1. [i \in 1 .. t |-> IF i = 1 THEN seqs[i] ELSE prefix[i - 1] \o seqs[i]] = prefix
    BY <1>3
  <2> QED
    BY <2>1
<1> HIDE DEF prefix, seqs
<1>7. Is(Flat(seqs))
  BY <1>5, <1>6
<1> DEFINE f == Flat(seqs)
           G == {i \in Nat : i \in 1 .. t => f[i] = prefix[i]}
<1>8. \A i \in 1 .. t : f[i] = IF i = 1 THEN seqs[i] ELSE f[i - 1] \o seqs[i]
  <2> HIDE DEF f
  <2> QED
    BY <1>7 DEF f
<1> HIDE DEF f
<1>9. 0 \in G
  OBVIOUS
<1>10. ASSUME NEW i \in G PROVE i + 1 \in G
  <2>1. ASSUME i + 1 \in 1 .. t PROVE f[i + 1] = prefix[i + 1]
    <3>1. CASE i = 0
      BY <1>3, <1>8, <2>1, <3>1
    <3>2. CASE i # 0
      <4>1. i \in 1 .. t /\ (i + 1) - 1 = i /\ i + 1 # 1
        BY <1>1, <2>1, <3>2
      <4>2. f[i] = prefix[i]
        BY <4>1
      <4>3. f[i + 1] = f[i] \o seqs[i + 1]
        BY <1>8, <2>1, <4>1
      <4>4. prefix[i + 1] = prefix[i] \o seqs[i + 1]
        BY <1>3, <2>1, <4>1
      <4> QED
        BY <4>2, <4>3, <4>4
    <3> QED
      BY <3>1, <3>2
  <2> QED
    BY <2>1
<1>11. f[t] = SubSeq(data, 1, n)
  <2>1. t \in 1 .. t
    BY <1>1
  <2>2. G \in SUBSET Nat
    OBVIOUS
  <2>3. t \in G
    <3> HIDE DEF G
    <3> QED
      BY <1>1, <1>9, <1>10, <2>2, SetOfNaturals
  <2>4. f[t] = prefix[t]
    BY <2>1, <2>3
  <2>5. prefix[t] = SubSeq(data, 1, End(t))
    BY <2>1 DEF prefix
  <2> QED
    BY <1>1, <2>4, <2>5
<1>12. FlattenSeq(seqs) = f[t]
  BY <1>1, <1>4 DEF FlattenSeq, Flat, f
<1> QED
  BY <1>11, <1>12, SubSeqFull DEF t, n, seqs

(* MessageChunker: the buffers *)

\* A chunk that could have put the text at that place of a buffer of that length.
IsSource(c, id, total, i, text) ==
    /\ c.messageId = id /\ c.totalChunks = total
    /\ c.sequenceNumber = i /\ c.payload = text

\* A buffer holds texts that came in chunks of its message and its length, and is not
\* complete.
BufferOK(id, b) ==
    /\ b = [totalChunks |-> b.totalChunks, receivedChunks |-> b.receivedChunks,
            age |-> b.age]
    /\ b.totalChunks \in Nat /\ b.age \in Nat
    /\ DOMAIN b.receivedChunks # {}
    /\ \A i \in DOMAIN b.receivedChunks :
           /\ i \in 0 .. b.totalChunks - 1
           /\ \E c \in Chunks : IsSource(c, id, b.totalChunks, i, b.receivedChunks[i])
    /\ \/ Cardinality(DOMAIN b.receivedChunks) < b.totalChunks
       \/ \E i \in DOMAIN b.receivedChunks : b.receivedChunks[i] = <<>>
BuffersOK ==
    /\ DOMAIN buffers \subseteq Id
    /\ \A id \in DOMAIN buffers : BufferOK(id, buffers[id])

\* What is in the buffer of a chunk once it was received.
Got(c) == Buffered(BufferFor(c).receivedChunks, c)

\* What chunk makes of a message: pieces of its text, none of them empty.
LEMMA MadeChunks ==
    ASSUME NEW id \in Id, NEW c \in ChunksOf(id)
    PROVE  /\ c \in Chunks /\ c.messageId = id
           /\ c.totalChunks = TotalChunks(Data[id]) /\ c.totalChunks \in Nat
           /\ c.sequenceNumber \in 0 .. c.totalChunks - 1
           /\ c.payload = Piece(Data[id], c.sequenceNumber)
<1>1. Data[id] \in Seq(ToSet(Data[id]))
  BY ChunkerAssumption
<1>2. TotalChunks(Data[id]) \in Nat
  BY <1>1, PieceEnds
<1>3. PICK i \in 0 .. TotalChunks(Data[id]) - 1 :
          c = [messageId |-> id, sequenceNumber |-> i,
               totalChunks |-> TotalChunks(Data[id]), payload |-> Piece(Data[id], i)]
  BY DEF ChunksOf
<1>4. c \in Chunks
  BY DEF Chunks
<1> QED
  BY <1>2, <1>3, <1>4

LEMMA PieceNotEmpty ==
    ASSUME NEW id \in Id, NEW i \in 0 .. TotalChunks(Data[id]) - 1
    PROVE  Piece(Data[id], i) # <<>>
<1> DEFINE S == ToSet(Data[id])
           d == Data[id]
           n == Len(d)
           End(k) == IF k * MaxPayload < n THEN k * MaxPayload ELSE n
<1>1. d \in Seq(S)
  BY ChunkerAssumption
<1>2. /\ End(i) \in Nat /\ End(i + 1) \in Nat /\ End(i) < End(i + 1) /\ End(i + 1) <= n
      /\ Piece(d, i) = SubSeq(d, End(i) + 1, End(i + 1))
  BY <1>1, PieceEnds
<1> DEFINE from == End(i) + 1
           to == End(i + 1)
<1>3. from \in 1 .. n /\ to \in from .. n /\ Piece(d, i) = SubSeq(d, from, to)
  <2> HIDE DEF End, n
  <2>1. n \in Nat
    BY <1>1 DEF n
  <2> QED
    BY <1>2, <2>1
<1> HIDE DEF from, to, End, S, d
<1>4. \A k \in from .. to : d[k] \in S
  BY <1>1, <1>3
<1>5. Len(SubSeq(d, from, to)) = to - from + 1
  BY <1>3, <1>4, SubSeqProperties
<1>6. Len(SubSeq(d, from, to)) # 0
  BY <1>3, <1>5
<1>7. Len(<<>>) = 0
  OBVIOUS
<1> QED
  BY <1>3, <1>6, <1>7, Zenon DEF d

\* What a chunk is in any case.
LEMMA ChunkTypes ==
    ASSUME NEW c \in Chunks
    PROVE  /\ c.messageId \in Id /\ c.sequenceNumber \in Int /\ c.totalChunks \in Int
           /\ c.payload \in Pieces
           /\ c \in Foreign \/ c \in ChunksOf(c.messageId)
<1>1. c.payload \in Pieces
  BY DEF Pieces
<1>2. CASE c \in Foreign
  BY <1>1, <1>2, ForeignAssumption
<1>3. CASE c \notin Foreign
  <2>1. PICK id \in Id : c \in ChunksOf(id)
    BY <1>3 DEF Chunks
  <2> QED
    BY <1>1, <2>1, MadeChunks
<1> QED
  BY <1>2, <1>3

\* The numbers of the chunks in a buffer are as many as the chunks of the message only
\* when they are all there.
LEMMA AllNumbers ==
    ASSUME NEW t \in Nat, NEW D \in SUBSET (0 .. t - 1)
    PROVE  /\ Cardinality(D) \in Nat /\ Cardinality(D) <= t
           /\ Cardinality(D) = t <=> D = 0 .. t - 1
<1>1. IsFiniteSet(0 .. t - 1) /\ Cardinality(0 .. t - 1) = t
  <2>1. 0 \in Int /\ t - 1 \in Int
    OBVIOUS
  <2>2. /\ IsFiniteSet(0 .. t - 1)
        /\ Cardinality(0 .. t - 1) = IF 0 > t - 1 THEN 0 ELSE (t - 1) - 0 + 1
    BY <2>1, FS_Interval, Zenon
  <2> QED
    BY <2>2
<1>2. /\ IsFiniteSet(D) /\ Cardinality(D) <= Cardinality(0 .. t - 1)
      /\ Cardinality(0 .. t - 1) = Cardinality(D) => 0 .. t - 1 = D
  BY <1>1, FS_Subset, Zenon
<1>3. Cardinality(D) \in Nat
  BY <1>2, FS_CardinalityType
<1> QED
  BY <1>1, <1>2, <1>3

\* What a chunk that is not refused adds to its buffer.
LEMMA Receives ==
    ASSUME BuffersOK, NEW c \in Chunks, ~IsRefused(c)
    PROVE  /\ c.totalChunks \in Nat /\ c.sequenceNumber \in 0 .. c.totalChunks - 1
           /\ BufferFor(c).totalChunks = c.totalChunks /\ BufferFor(c).age \in Nat
           /\ BufferFor(c) = [totalChunks |-> c.totalChunks,
                              receivedChunks |-> BufferFor(c).receivedChunks,
                              age |-> BufferFor(c).age]
           /\ DOMAIN Got(c) \subseteq 0 .. c.totalChunks - 1
           /\ c.sequenceNumber \in DOMAIN Got(c)
           /\ \A i \in DOMAIN Got(c) :
                  \E e \in Chunks : IsSource(e, c.messageId, c.totalChunks, i, Got(c)[i])
<1> DEFINE old == BufferFor(c)
<1>1. /\ c.totalChunks \in Nat /\ c.sequenceNumber \in 0 .. c.totalChunks - 1
      /\ old.totalChunks = c.totalChunks
  <2>1. c.sequenceNumber \in Int /\ c.totalChunks \in Int
    BY ChunkTypes
  <2> QED
    BY <2>1 DEF IsRefused, IsInRange
<1>2. /\ old.age \in Nat
      /\ old = [totalChunks |-> c.totalChunks, receivedChunks |-> old.receivedChunks,
                age |-> old.age]
      /\ \A i \in DOMAIN old.receivedChunks :
             /\ i \in 0 .. c.totalChunks - 1
             /\ \E e \in Chunks :
                    IsSource(e, c.messageId, c.totalChunks, i, old.receivedChunks[i])
  <2>1. CASE c.messageId \in DOMAIN buffers
    <3>1. old = buffers[c.messageId] /\ BufferOK(c.messageId, old)
      BY <2>1 DEF BufferFor, BuffersOK
    <3> HIDE DEF old
    <3> QED
      BY <1>1, <3>1 DEF BufferOK
  <2>2. CASE c.messageId \notin DOMAIN buffers
    <3>1. old = [totalChunks |-> c.totalChunks, receivedChunks |-> [i \in {} |-> <<>>],
                 age |-> 0]
      BY <2>2 DEF BufferFor
    <3> HIDE DEF old
    <3> QED
      BY <3>1
  <2> QED
    BY <2>1, <2>2
<1> HIDE DEF old
<1>3. Got(c) = [i \in DOMAIN old.receivedChunks \cup {c.sequenceNumber} |->
                  IF i = c.sequenceNumber THEN c.payload ELSE old.receivedChunks[i]]
  BY DEF Got, Buffered, old
<1>4. /\ DOMAIN Got(c) \subseteq 0 .. c.totalChunks - 1
      /\ c.sequenceNumber \in DOMAIN Got(c)
  BY <1>1, <1>2, <1>3
<1>5. ASSUME NEW i \in DOMAIN Got(c)
      PROVE  \E e \in Chunks : IsSource(e, c.messageId, c.totalChunks, i, Got(c)[i])
  <2>1. CASE i = c.sequenceNumber
    BY <1>3, <2>1 DEF IsSource
  <2>2. CASE i # c.sequenceNumber
    BY <1>2, <1>3, <1>5, <2>2
  <2> QED
    BY <2>1, <2>2
<1> QED
  BY <1>1, <1>2, <1>4, <1>5 DEF old

\* The three things that receiveChunk may do.
LEMMA ReceiveCases ==
    ASSUME BuffersOK, NEW c \in Chunks, ReceiveChunk(c)
    PROVE  \/ IsRefused(c) /\ UNCHANGED <<buffers, returned>>
           \/ /\ ~IsRefused(c) /\ IsComplete(Got(c), c)
              /\ DOMAIN buffers' = DOMAIN buffers \ {c.messageId}
              /\ \A id \in DOMAIN buffers' : buffers'[id] = buffers[id]
              /\ returned' = [returned EXCEPT ![c.messageId] =
                                @ \cup {Reassembled(Got(c), c)}]
           \/ /\ ~IsRefused(c) /\ ~IsComplete(Got(c), c)
              /\ DOMAIN buffers' = DOMAIN buffers \cup {c.messageId}
              /\ buffers'[c.messageId] = [totalChunks |-> c.totalChunks,
                                          receivedChunks |-> Got(c),
                                          age |-> BufferFor(c).age]
              /\ \A id \in DOMAIN buffers' :
                     id # c.messageId => id \in DOMAIN buffers /\ buffers'[id] = buffers[id]
              /\ UNCHANGED returned
<1>1. CASE IsRefused(c)
  BY <1>1 DEF ReceiveChunk
<1>2. CASE ~IsRefused(c) /\ IsComplete(Got(c), c)
  <2>1. /\ buffers' = [id \in DOMAIN buffers \ {c.messageId} |-> buffers[id]]
        /\ returned' = [returned EXCEPT ![c.messageId] = @ \cup {Reassembled(Got(c), c)}]
    BY <1>2 DEF ReceiveChunk, Got
  <2> QED
    BY <1>2, <2>1
<1>3. CASE ~IsRefused(c) /\ ~IsComplete(Got(c), c)
  <2>1. /\ buffers' = [id \in DOMAIN buffers \cup {c.messageId} |->
                         IF id = c.messageId
                         THEN [BufferFor(c) EXCEPT !.receivedChunks = Got(c)]
                         ELSE buffers[id]]
        /\ UNCHANGED returned
    BY <1>3 DEF ReceiveChunk, Got
  <2>2. [BufferFor(c) EXCEPT !.receivedChunks = Got(c)]
          = [totalChunks |-> c.totalChunks, receivedChunks |-> Got(c),
             age |-> BufferFor(c).age]
    <3>1. PICK r, a : BufferFor(c) = [totalChunks |-> c.totalChunks,
                                      receivedChunks |-> r, age |-> a]
      BY <1>3, Receives
    <3> QED
      BY <3>1
  <2> QED
    BY <1>3, <2>1, <2>2
<1> QED
  BY <1>1, <1>2, <1>3

\* A chunk leaves the buffers in order.
LEMMA ReceiveKeepsBuffers ==
    ASSUME BuffersOK, NEW c \in Chunks, ReceiveChunk(c)
    PROVE  BuffersOK'
<1>0. c.messageId \in Id
  BY ChunkTypes
<1>1. CASE UNCHANGED <<buffers, returned>>
  BY <1>1 DEF BuffersOK
<1>2. CASE /\ DOMAIN buffers' = DOMAIN buffers \ {c.messageId}
           /\ \A id \in DOMAIN buffers' : buffers'[id] = buffers[id]
  BY <1>2 DEF BuffersOK
<1>3. CASE /\ ~IsRefused(c) /\ ~IsComplete(Got(c), c)
           /\ DOMAIN buffers' = DOMAIN buffers \cup {c.messageId}
           /\ buffers'[c.messageId] = [totalChunks |-> c.totalChunks,
                                       receivedChunks |-> Got(c), age |-> BufferFor(c).age]
           /\ \A id \in DOMAIN buffers' :
                  id # c.messageId => id \in DOMAIN buffers /\ buffers'[id] = buffers[id]
  <2> DEFINE b == [totalChunks |-> c.totalChunks, receivedChunks |-> Got(c),
                   age |-> BufferFor(c).age]
  <2>1. /\ c.totalChunks \in Nat /\ BufferFor(c).age \in Nat
        /\ DOMAIN Got(c) \in SUBSET (0 .. c.totalChunks - 1)
        /\ DOMAIN Got(c) # {}
        /\ \A i \in DOMAIN Got(c) :
               \E e \in Chunks : IsSource(e, c.messageId, c.totalChunks, i, Got(c)[i])
    BY <1>3, Receives
  <2>2. /\ Cardinality(DOMAIN Got(c)) \in Nat
        /\ Cardinality(DOMAIN Got(c)) <= c.totalChunks
    BY <2>1, AllNumbers
  <2>3. \/ Cardinality(DOMAIN Got(c)) < c.totalChunks
        \/ \E i \in DOMAIN Got(c) : Got(c)[i] = <<>>
    BY <1>3, <2>1, <2>2 DEF IsComplete
  <2>4. /\ b.totalChunks = c.totalChunks /\ b.receivedChunks = Got(c)
        /\ b.age = BufferFor(c).age
        /\ b = [totalChunks |-> b.totalChunks, receivedChunks |-> b.receivedChunks,
                age |-> b.age]
    OBVIOUS
  <2>5. buffers'[c.messageId] = b
    BY <1>3
  <2> HIDE DEF b
  <2>6. BufferOK(c.messageId, b)
    BY <2>1, <2>3, <2>4 DEF BufferOK
  <2>7. \A id \in DOMAIN buffers' : BufferOK(id, buffers'[id])
    BY <1>3, <2>5, <2>6 DEF BuffersOK
  <2>8. DOMAIN buffers' \subseteq Id
    BY <1>0, <1>3 DEF BuffersOK
  <2> QED
    BY <2>7, <2>8 DEF BuffersOK
<1> QED
  BY <1>1, <1>2, <1>3, ReceiveCases

\* A tick makes the buffers older and leaves them otherwise as they are.
LEMMA OlderBuffers ==
    ASSUME BuffersOK, ChunkerTick
    PROVE  /\ DOMAIN buffers' = DOMAIN buffers
           /\ \A id \in DOMAIN buffers :
                  /\ BufferOK(id, buffers'[id])
                  /\ buffers'[id].totalChunks = buffers[id].totalChunks
                  /\ buffers'[id].receivedChunks = buffers[id].receivedChunks
                  /\ buffers'[id].age \in 0 .. buffers[id].age + 1
<1>1. buffers' = [id \in DOMAIN buffers |-> [buffers[id] EXCEPT !.age = Older(@)]]
  BY DEF ChunkerTick
<1>2. ASSUME NEW id \in DOMAIN buffers
      PROVE  /\ BufferOK(id, buffers'[id])
             /\ buffers'[id].totalChunks = buffers[id].totalChunks
             /\ buffers'[id].receivedChunks = buffers[id].receivedChunks
             /\ buffers'[id].age \in 0 .. buffers[id].age + 1
  <2> DEFINE b == buffers[id]
             new == Older(b.age)
  <2>1. BufferOK(id, b)
    BY DEF BuffersOK
  <2>2. new \in 0 .. b.age + 1
    <3> DEFINE one == b.age + 1
               two == 2 * Timeout + 1
    <3>1. one \in Nat /\ two \in Nat
      BY <2>1, ChunkerAssumption DEF BufferOK
    <3>2. new = Min({one, two})
      BY DEF Older
    <3> HIDE DEF one, two, new
    <3>3. Min({one, two}) \in Nat /\ Min({one, two}) <= one
      BY <3>1 DEF Min
    <3>4. new \in 0 .. one
      BY <3>1, <3>2, <3>3
    <3> QED
      BY <3>4 DEF one
  <2> HIDE DEF new
  <2>3. buffers'[id] = [b EXCEPT !.age = new]
    BY <1>1 DEF new
  <2>4. buffers'[id] = [totalChunks |-> b.totalChunks, receivedChunks |-> b.receivedChunks,
                        age |-> new]
    BY <2>1, <2>3 DEF BufferOK
  <2> HIDE DEF b
  <2>5. /\ buffers'[id].totalChunks = b.totalChunks
        /\ buffers'[id].receivedChunks = b.receivedChunks
        /\ buffers'[id].age = new
    BY <2>4
  <2>6. b.age \in Nat
    BY <2>1 DEF BufferOK
  <2>7. new \in Nat
    BY <2>2, <2>6
  <2>8. BufferOK(id, buffers'[id])
    BY <2>1, <2>4, <2>5, <2>7 DEF BufferOK
  <2> QED
    BY <2>2, <2>5, <2>8 DEF b
<1> QED
  BY <1>1, <1>2

\* The steps that only take buffers away, or chunks.
LEMMA FewerBuffers ==
    ASSUME NEW ids \in SUBSET DOMAIN buffers, buffers' = [id \in ids |-> buffers[id]]
    PROVE  /\ DOMAIN buffers' = ids /\ \A id \in ids : buffers'[id] = buffers[id]
           /\ BuffersOK => BuffersOK'
BY DEF BuffersOK

\* Who calls receiveChunk with what, and what else befalls the buffers.
LEMMA ChunkerSteps ==
    ASSUME [ChunkerNext]_chunkerVars, \A m \in air : m.chunk \in Chunks
    PROVE  \/ \E c \in Chunks : ReceiveChunk(c) /\ UNCHANGED cleanup
           \/ /\ returned' = returned
              /\ \/ UNCHANGED <<buffers, cleanup>>
                 \/ buffers' = NoBuffers /\ (UNCHANGED cleanup \/ cleanup' = NoTimer)
                 \/ CleanupFires \/ ChunkerTick
<1>1. Foreign \subseteq Chunks
  BY DEF Chunks
<1> QED
  BY <1>1 DEF ChunkerNext, chunkerVars, Send, Arrive, Lose, ArriveForeign, Clear, Destroy,
              CleanupFires, ChunkerTick

\* What is on its way was sent.
AirWasSent ==
    \A m \in air : /\ m.chunk.messageId \in Id \ unsent
                   /\ m.chunk \in ChunksOf(m.chunk.messageId)
                   /\ m.age \in 0 .. MaxDelay
                   /\ m = [chunk |-> m.chunk, age |-> m.age]

LEMMA AirNext == AirWasSent /\ [ChunkerNext]_chunkerVars => AirWasSent'
<1> SUFFICES ASSUME AirWasSent, [ChunkerNext]_chunkerVars PROVE AirWasSent'
  OBVIOUS
<1> USE ChunkerAssumption
<1>1. ASSUME NEW id \in Id, Send(id) PROVE AirWasSent'
  <2> SUFFICES ASSUME NEW m \in air'
               PROVE  /\ m.chunk.messageId \in Id \ unsent'
                      /\ m.chunk \in ChunksOf(m.chunk.messageId)
                      /\ m.age \in 0 .. MaxDelay
                      /\ m = [chunk |-> m.chunk, age |-> m.age]
    BY DEF AirWasSent
  <2>1. /\ unsent' = unsent \ {id}
        /\ air' = air \cup {[chunk |-> c, age |-> 0] : c \in ChunksOf(id)}
    BY <1>1 DEF Send
  <2>2. CASE m \in air
    BY <2>1, <2>2 DEF AirWasSent
  <2>3. CASE m \notin air
    <3>1. PICK c \in ChunksOf(id) : m = [chunk |-> c, age |-> 0]
      BY <2>1, <2>3
    <3>2. c.messageId = id
      BY MadeChunks
    <3>3. 0 \in 0 .. MaxDelay
      OBVIOUS
    <3> QED
      BY <2>1, <3>1, <3>2, <3>3
  <2> QED
    BY <2>2, <2>3
<1>2. CASE air' \subseteq air /\ unsent' = unsent
  BY <1>2 DEF AirWasSent
<1>3. CASE ChunkerTick
  <2> SUFFICES ASSUME NEW m \in air'
               PROVE  /\ m.chunk.messageId \in Id \ unsent'
                      /\ m.chunk \in ChunksOf(m.chunk.messageId)
                      /\ m.age \in 0 .. MaxDelay
                      /\ m = [chunk |-> m.chunk, age |-> m.age]
    BY DEF AirWasSent
  <2>1. PICK l \in air : m = [l EXCEPT !.age = @ + 1]
    BY <1>3 DEF ChunkerTick
  <2>2. l.age < MaxDelay /\ unsent' = unsent
    BY <1>3 DEF ChunkerTick
  <2>3. /\ l.chunk.messageId \in Id \ unsent
        /\ l.chunk \in ChunksOf(l.chunk.messageId)
        /\ l.age \in 0 .. MaxDelay
        /\ l = [chunk |-> l.chunk, age |-> l.age]
    BY DEF AirWasSent
  <2>4. m = [chunk |-> l.chunk, age |-> l.age + 1]
    BY <2>1, <2>3
  <2>5. m.chunk = l.chunk /\ m.age = l.age + 1
    BY <2>4
  <2> QED
    BY <2>2, <2>3, <2>4, <2>5
<1> QED
  BY <1>1, <1>2, <1>3
     DEF ChunkerNext, chunkerVars, Arrive, Lose, ArriveForeign, Clear, Destroy, CleanupFires

LEMMA AirIsOfChunks == AirWasSent => \A m \in air : m.chunk \in Chunks
BY MadeChunks DEF AirWasSent

LEMMA BuffersNext == BuffersOK /\ AirWasSent /\ [ChunkerNext]_chunkerVars => BuffersOK'
<1> SUFFICES ASSUME BuffersOK, AirWasSent, [ChunkerNext]_chunkerVars PROVE BuffersOK'
  OBVIOUS
<1>1. ASSUME NEW c \in Chunks, ReceiveChunk(c) PROVE BuffersOK'
  BY <1>1, ReceiveKeepsBuffers
<1>2. CASE buffers' = NoBuffers
  BY <1>2 DEF NoBuffers, BuffersOK
<1>3. CASE CleanupFires
  <2> DEFINE ids == {i \in DOMAIN buffers : ~IsStale(buffers[i])}
  <2>1. buffers' = [id \in ids |-> buffers[id]]
    BY <1>3 DEF CleanupFires
  <2> QED
    BY <2>1, FewerBuffers
<1>4. CASE ChunkerTick
  BY <1>4, OlderBuffers DEF BuffersOK
<1>5. CASE buffers' = buffers
  BY <1>5 DEF BuffersOK
<1> QED
  BY <1>1, <1>2, <1>3, <1>4, <1>5, AirIsOfChunks, ChunkerSteps

\* With the chunk that completes a message, its buffer holds the pieces of the text.
LEMMA CompleteIsText ==
    ASSUME BuffersOK, NEW c \in Chunks, ~IsRefused(c), IsComplete(Got(c), c)
    PROVE  Reassembled(Got(c), c) = Data[c.messageId]
<1> DEFINE id == c.messageId
           t == c.totalChunks
           r == Got(c)
<1>1. /\ id \in Id /\ t \in Nat /\ c.sequenceNumber \in 0 .. t - 1
      /\ DOMAIN r \in SUBSET (0 .. t - 1)
      /\ \A i \in DOMAIN r : \E e \in Chunks : IsSource(e, id, t, i, r[i])
  BY ChunkTypes, Receives
<1>2. DOMAIN r = 0 .. t - 1 /\ \A i \in DOMAIN r : r[i] # <<>>
  BY <1>1, AllNumbers DEF IsComplete
<1> HIDE DEF r
<1>3. CASE t = TotalChunks(Data[id])
  <2>1. ASSUME NEW i \in 0 .. t - 1 PROVE r[i] = Piece(Data[id], i)
    <3>1. PICK e \in Chunks : IsSource(e, id, t, i, r[i])
      BY <1>1, <1>2
    <3>2. CASE e \in Foreign
      <4>1. IsInRange(e)
        BY <1>1, <3>1 DEF IsSource, IsInRange
      <4>2. e.payload \in {<<>>, Piece(Data[id], i)}
        BY <1>3, <3>1, <3>2, <4>1, ForeignAssumption DEF IsSource
      <4> QED
        BY <1>2, <3>1, <4>2 DEF IsSource
    <3>3. CASE e \in ChunksOf(e.messageId)
      BY <1>1, <3>1, <3>3, MadeChunks DEF IsSource
    <3> QED
      BY <3>2, <3>3, ChunkTypes
  <2>2. Data[id] \in Seq(ToSet(Data[id]))
    BY <1>1, ChunkerAssumption
  <2>3. TotalChunks(Data[id]) > 0
    BY <1>1, <1>3
  <2>4. FlattenSeq([i \in 1 .. t |-> r[i - 1]]) = Data[id]
    <3> HIDE DEF t, id
    <3> QED
      BY <1>3, <2>1, <2>2, <2>3, PiecesMakeText
  <2> QED
    BY <2>4 DEF Reassembled, r
<1>4. CASE t # TotalChunks(Data[id])
  <2>1. ASSUME NEW e \in Chunks, NEW i, IsSource(e, id, t, i, r[i]) PROVE e \in Foreign
    <3>1. e \notin ChunksOf(e.messageId)
      BY <1>1, <1>4, <2>1, MadeChunks DEF IsSource
    <3> QED
      BY <3>1, ChunkTypes
  <2>2. c \in Foreign
    <3>1. c \notin ChunksOf(id)
      BY <1>1, <1>4, MadeChunks
    <3> QED
      BY <3>1, ChunkTypes
  <2>3. IsInRange(c)
    BY <1>1 DEF IsInRange
  <2>4. PICK i \in 0 .. t - 1 :
            \A e \in Foreign : (/\ e.messageId = id /\ e.totalChunks = t
                                /\ e.sequenceNumber = i) => e.payload = <<>>
    BY <1>4, <2>2, <2>3, ForeignAssumption
  <2>5. PICK e \in Chunks : IsSource(e, id, t, i, r[i])
    BY <1>1, <1>2
  <2>6. r[i] = <<>>
    BY <2>1, <2>4, <2>5 DEF IsSource
  <2> QED
    BY <1>2, <2>6
<1> QED
  BY <1>3, <1>4

(* MessageChunker: what becomes of a message *)

\* A buffer was there at most Timeout ticks when the cleanup timer was last set.
Aging ==
    /\ cleanup \in NoTimer .. Timeout
    /\ cleanup # NoTimer =>
           \A id \in DOMAIN buffers : buffers[id].age + cleanup <= 2 * Timeout

LEMMA AgingNext ==
    BuffersOK /\ AirWasSent /\ Aging /\ [ChunkerNext]_chunkerVars => Aging'
<1> SUFFICES ASSUME BuffersOK, AirWasSent, Aging, [ChunkerNext]_chunkerVars PROVE Aging'
  OBVIOUS
<1> USE ChunkerAssumption
<1>0. \A id \in DOMAIN buffers : buffers[id].age \in Nat
  BY DEF BuffersOK, BufferOK
<1>1. ASSUME NEW c \in Chunks, ReceiveChunk(c), UNCHANGED cleanup PROVE Aging'
  <2>1. ASSUME NEW id \in DOMAIN buffers'
        PROVE  \/ id \in DOMAIN buffers /\ buffers'[id].age = buffers[id].age
               \/ buffers'[id].age = 0
    <3>1. BufferFor(c).age = IF c.messageId \in DOMAIN buffers
                             THEN buffers[c.messageId].age ELSE 0
      BY DEF BufferFor
    <3>2. \/ id \in DOMAIN buffers /\ buffers'[id] = buffers[id]
          \/ /\ id = c.messageId
             /\ buffers'[id] = [totalChunks |-> c.totalChunks, receivedChunks |-> Got(c),
                                age |-> BufferFor(c).age]
      BY <1>1, <2>1, ReceiveCases
    <3> QED
      BY <3>1, <3>2
  <2> QED
    BY <1>0, <1>1, <2>1 DEF Aging, NoTimer
<1>2. CASE buffers' = NoBuffers /\ (UNCHANGED cleanup \/ cleanup' = NoTimer)
  BY <1>2 DEF Aging, NoTimer, NoBuffers
<1>3. CASE CleanupFires
  <2>1. /\ cleanup' = Timeout
        /\ buffers' = [id \in {i \in DOMAIN buffers : ~IsStale(buffers[i])} |-> buffers[id]]
    BY <1>3 DEF CleanupFires
  <2> QED
    BY <1>0, <2>1 DEF Aging, IsStale, NoTimer
<1>4. CASE ChunkerTick
  <2>1. /\ cleanup # 0 /\ cleanup' = IF cleanup = NoTimer THEN NoTimer ELSE cleanup - 1
        /\ DOMAIN buffers' = DOMAIN buffers
        /\ \A id \in DOMAIN buffers : buffers'[id].age \in 0 .. buffers[id].age + 1
    BY <1>4, OlderBuffers DEF ChunkerTick
  <2>2. cleanup' \in NoTimer .. Timeout
    BY <2>1 DEF Aging, NoTimer
  <2>3. ASSUME cleanup' # NoTimer, NEW id \in DOMAIN buffers'
        PROVE  buffers'[id].age + cleanup' <= 2 * Timeout
    <3>1. cleanup' = cleanup - 1 /\ cleanup \in Int
      BY <2>1, <2>3 DEF Aging, NoTimer
    <3>2. buffers[id].age + cleanup <= 2 * Timeout /\ id \in DOMAIN buffers
      BY <2>1, <2>3 DEF Aging
    <3>3. buffers[id].age \in Nat /\ buffers'[id].age \in 0 .. buffers[id].age + 1
      BY <1>0, <2>1, <3>2
    <3> QED
      BY <3>1, <3>2, <3>3
  <2> QED
    BY <2>2, <2>3 DEF Aging
<1>5. CASE UNCHANGED <<buffers, cleanup>>
  BY <1>5 DEF Aging
<1> QED
  BY <1>1, <1>2, <1>3, <1>4, <1>5, AirIsOfChunks, ChunkerSteps

\* The buffer of an unspoilt message holds pieces of its text, and is no older than any
\* of its chunks that is still on its way.
Whole ==
    \A id \in DOMAIN buffers \ spoilt :
        /\ id \notin unsent
        /\ buffers[id].totalChunks = TotalChunks(Data[id])
        /\ \A i \in DOMAIN buffers[id].receivedChunks :
               buffers[id].receivedChunks[i] = Piece(Data[id], i)
        /\ \A m \in air : m.chunk.messageId = id => buffers[id].age <= m.age

\* Until it is returned, each piece of an unspoilt message is on its way or buffered.
IsPending(id, i) ==
    \/ \E m \in air : m.chunk.messageId = id /\ m.chunk.sequenceNumber = i
    \/ id \in DOMAIN buffers /\ i \in DOMAIN buffers[id].receivedChunks
Pending ==
    \A id \in Id \ (unsent \cup spoilt) :
        returned[id] = {} => \A i \in 0 .. TotalChunks(Data[id]) - 1 : IsPending(id, i)

\* Of an unspoilt message that is buffered and complete but for what is on its way,
\* something is on its way.
LEMMA SomeOnItsWay ==
    ASSUME BuffersOK, Whole, Pending, NEW id \in DOMAIN buffers \ spoilt,
           returned[id] = {}
    PROVE  \E m \in air : m.chunk.messageId = id
<1> DEFINE b == buffers[id]
           t == TotalChunks(Data[id])
<1>1. /\ id \in Id \ (unsent \cup spoilt) /\ b.totalChunks = t /\ t \in Nat
      /\ DOMAIN b.receivedChunks \in SUBSET (0 .. t - 1)
      /\ \A i \in DOMAIN b.receivedChunks : b.receivedChunks[i] = Piece(Data[id], i)
      /\ \/ Cardinality(DOMAIN b.receivedChunks) < t
         \/ \E i \in DOMAIN b.receivedChunks : b.receivedChunks[i] = <<>>
  BY DEF BuffersOK, BufferOK, Whole
<1>2. \A i \in DOMAIN b.receivedChunks : b.receivedChunks[i] # <<>>
  BY <1>1, PieceNotEmpty
<1>3. Cardinality(DOMAIN b.receivedChunks) # t
  <2>1. Cardinality(DOMAIN b.receivedChunks) \in Nat
    BY <1>1, AllNumbers
  <2> QED
    BY <1>1, <1>2, <2>1
<1>4. PICK i \in 0 .. t - 1 : i \notin DOMAIN b.receivedChunks
  <2> DEFINE D == DOMAIN b.receivedChunks
  <2>1. D \in SUBSET (0 .. t - 1) /\ Cardinality(D) # t /\ t \in Nat
    BY <1>1, <1>3
  <2> HIDE DEF D, t
  <2>2. D # 0 .. t - 1
    BY <2>1, AllNumbers
  <2>3. \E i \in 0 .. t - 1 : i \notin D
    BY <2>1, <2>2, Zenon
  <2> QED
    BY <2>3 DEF D, t
<1> QED
  BY <1>1, <1>4 DEF Pending, IsPending

\* A chunk of an unspoilt message is not refused.
LEMMA NotRefused ==
    ASSUME Whole, NEW id \in Id \ spoilt, NEW c \in ChunksOf(id)
    PROVE  ~IsRefused(c)
<1>1. /\ c.messageId = id /\ c.totalChunks = TotalChunks(Data[id]) /\ c.totalChunks \in Nat
      /\ c.sequenceNumber \in 0 .. c.totalChunks - 1
  BY MadeChunks
<1>2. BufferFor(c).totalChunks = c.totalChunks
  BY <1>1 DEF BufferFor, Whole
<1> QED
  BY <1>1, <1>2 DEF IsRefused, IsInRange

\* What is spoilt stays so, and so does what is returned; what is sent is on its way.
LEMMA WholeNext ==
    BuffersOK /\ AirWasSent /\ Whole /\ Pending /\ [ChunkerNext]_chunkerVars => Whole'
<1> SUFFICES ASSUME BuffersOK, AirWasSent, Whole, Pending, [ChunkerNext]_chunkerVars,
                    NEW id \in DOMAIN buffers' \ spoilt'
             PROVE  /\ id \notin unsent'
                    /\ buffers'[id].totalChunks = TotalChunks(Data[id])
                    /\ \A i \in DOMAIN buffers'[id].receivedChunks :
                           buffers'[id].receivedChunks[i] = Piece(Data[id], i)
                    /\ \A m \in air' : m.chunk.messageId = id => buffers'[id].age <= m.age
  BY DEF Whole
<1> USE ChunkerAssumption
<1> DEFINE Goal == /\ id \notin unsent'
                   /\ buffers'[id].totalChunks = TotalChunks(Data[id])
                   /\ \A i \in DOMAIN buffers'[id].receivedChunks :
                          buffers'[id].receivedChunks[i] = Piece(Data[id], i)
                   /\ \A m \in air' : m.chunk.messageId = id => buffers'[id].age <= m.age
<1>1. ASSUME NEW k \in Id, Send(k) PROVE Goal
  <2>1. /\ k \in unsent /\ unsent' = unsent \ {k} /\ buffers' = buffers
        /\ air' = air \cup {[chunk |-> c, age |-> 0] : c \in ChunksOf(k)}
        /\ spoilt' = spoilt
    BY <1>1 DEF Send
  <2>2. id # k
    BY <2>1 DEF Whole
  <2>3. \A m \in air' : m.chunk.messageId = id => m \in air
    BY <2>1, <2>2, MadeChunks
  <2> QED
    BY <2>1, <2>3 DEF Whole
<1>2. ASSUME NEW l \in air, Arrive(l) PROVE Goal
  <2> DEFINE c == l.chunk
  <2>1. /\ air' \subseteq air /\ ReceiveChunk(c) /\ UNCHANGED <<unsent, spoilt>>
        /\ c \in ChunksOf(c.messageId) /\ c.messageId \in Id \ unsent
        /\ l.age \in Nat
    BY <1>2 DEF Arrive, AirWasSent
  <2>2. c \in Chunks /\ c.totalChunks = TotalChunks(Data[c.messageId])
        /\ c.payload = Piece(Data[c.messageId], c.sequenceNumber)
    BY <2>1, MadeChunks
  <2> HIDE DEF c
  <2>3. CASE id \in DOMAIN buffers /\ buffers'[id] = buffers[id]
    BY <2>1, <2>3 DEF Whole
  <2>4. CASE ~(id \in DOMAIN buffers /\ buffers'[id] = buffers[id])
    <3>1. /\ id = c.messageId /\ ~IsRefused(c)
          /\ buffers'[id] = [totalChunks |-> c.totalChunks, receivedChunks |-> Got(c),
                             age |-> BufferFor(c).age]
      BY <2>1, <2>2, <2>4, ReceiveCases
    <3>2. /\ buffers'[id].totalChunks = c.totalChunks
          /\ buffers'[id].receivedChunks = Got(c)
          /\ buffers'[id].age = BufferFor(c).age
      BY <3>1
    <3>3. \A i \in DOMAIN Got(c) : Got(c)[i] = Piece(Data[id], i)
      <4>1. CASE id \in DOMAIN buffers
        BY <2>1, <2>2, <3>1, <4>1 DEF Got, Buffered, BufferFor, Whole
      <4>2. CASE id \notin DOMAIN buffers
        BY <2>2, <3>1, <4>2 DEF Got, Buffered, BufferFor
      <4> QED
        BY <4>1, <4>2
    <3>4. \A m \in air' : m.chunk.messageId = id => BufferFor(c).age <= m.age
      <4>1. CASE id \in DOMAIN buffers
        BY <2>1, <3>1, <4>1 DEF BufferFor, Whole
      <4>2. CASE id \notin DOMAIN buffers
        <5>1. BufferFor(c).age = 0
          BY <3>1, <4>2 DEF BufferFor
        <5>2. \A m \in air' : m.age \in Nat
          BY <2>1 DEF AirWasSent
        <5> QED
          BY <5>1, <5>2
      <4> QED
        BY <4>1, <4>2
    <3> QED
      BY <2>1, <2>2, <3>1, <3>2, <3>3, <3>4
  <2> QED
    BY <2>3, <2>4
<1>3. ASSUME NEW l \in air, Lose(l) PROVE Goal
  BY <1>3 DEF Lose, Whole
<1>4. ASSUME NEW c \in Foreign, ArriveForeign(c) PROVE Goal
  <2>1. /\ ReceiveChunk(c) /\ UNCHANGED <<air, unsent>>
        /\ spoilt' = IF buffers' = buffers THEN spoilt ELSE spoilt \cup {c.messageId}
        /\ c \in Chunks
    BY <1>4 DEF ArriveForeign, Chunks
  <2>2. CASE buffers' = buffers
    BY <2>1, <2>2 DEF Whole
  <2>3. CASE buffers' # buffers
    <3>1. id # c.messageId /\ spoilt \subseteq spoilt'
      BY <2>1, <2>3
    <3>2. id \in DOMAIN buffers /\ buffers'[id] = buffers[id]
      BY <2>1, <3>1, ReceiveCases
    <3> QED
      BY <2>1, <3>1, <3>2 DEF Whole
  <2> QED
    BY <2>2, <2>3
<1>5. CASE Clear \/ Destroy
  BY <1>5 DEF Clear, Destroy, NoBuffers
<1>6. CASE CleanupFires
  BY <1>6 DEF CleanupFires, Whole
<1>7. CASE ChunkerTick
  <2>1. /\ UNCHANGED <<unsent, spoilt>> /\ id \in DOMAIN buffers
        /\ buffers'[id].totalChunks = buffers[id].totalChunks
        /\ buffers'[id].receivedChunks = buffers[id].receivedChunks
        /\ buffers'[id].age \in 0 .. buffers[id].age + 1
    BY <1>7, OlderBuffers DEF ChunkerTick
  <2>2. ASSUME NEW m \in air', m.chunk.messageId = id PROVE buffers'[id].age <= m.age
    <3>1. PICK l \in air : m = [l EXCEPT !.age = @ + 1]
      BY <1>7 DEF ChunkerTick
    <3>2. l = [chunk |-> l.chunk, age |-> l.age] /\ l.age \in Nat
      BY DEF AirWasSent
    <3>3. m = [chunk |-> l.chunk, age |-> l.age + 1]
      BY <3>1, <3>2
    <3>4. m.chunk = l.chunk /\ m.age = l.age + 1
      BY <3>3
    <3>5. buffers[id].age <= l.age /\ buffers[id].age \in Nat
      BY <2>1, <2>2, <3>4 DEF Whole, BuffersOK, BufferOK
    <3> QED
      BY <2>1, <3>2, <3>4, <3>5
  <2> QED
    BY <2>1, <2>2 DEF Whole
<1>8. CASE UNCHANGED chunkerVars
  BY <1>8 DEF chunkerVars, Whole
<1> QED
  BY <1>1, <1>2, <1>3, <1>4, <1>5, <1>6, <1>7, <1>8 DEF ChunkerNext

LEMMA PendingNext ==
    /\ BuffersOK /\ AirWasSent /\ Whole /\ Pending /\ DOMAIN returned = Id
    /\ [ChunkerNext]_chunkerVars
    => Pending'
<1> SUFFICES ASSUME BuffersOK, AirWasSent, Whole, Pending, DOMAIN returned = Id,
                    [ChunkerNext]_chunkerVars,
                    NEW id \in Id \ (unsent' \cup spoilt'), returned'[id] = {},
                    NEW i \in 0 .. TotalChunks(Data[id]) - 1
             PROVE  IsPending(id, i)'
  BY DEF Pending, IsPending
<1> USE ChunkerAssumption
<1>1. ASSUME NEW k \in Id, Send(k) PROVE IsPending(id, i)'
  <2>1. /\ unsent' = unsent \ {k} /\ air \subseteq air'
        /\ air' = air \cup {[chunk |-> c, age |-> 0] : c \in ChunksOf(k)}
        /\ UNCHANGED <<buffers, returned, spoilt>>
    BY <1>1 DEF Send
  <2>2. CASE id = k
    <3> DEFINE c == [messageId |-> id, sequenceNumber |-> i,
                     totalChunks |-> TotalChunks(Data[id]), payload |-> Piece(Data[id], i)]
               m == [chunk |-> c, age |-> 0]
    <3>1. c \in ChunksOf(k)
      BY <2>2 DEF ChunksOf
    <3>2. m \in air'
      BY <2>1, <3>1
    <3>3. m.chunk.messageId = id /\ m.chunk.sequenceNumber = i
      OBVIOUS
    <3> HIDE DEF m
    <3> QED
      BY <3>2, <3>3 DEF IsPending
  <2>3. CASE id # k
    <3>1. IsPending(id, i)
      BY <2>1, <2>3 DEF Pending
    <3> QED
      BY <2>1, <3>1 DEF IsPending
  <2> QED
    BY <2>2, <2>3
<1>2. ASSUME NEW l \in air, Arrive(l) PROVE IsPending(id, i)'
  <2> DEFINE c == l.chunk
  <2>1. /\ air' = air \/ air' = air \ {l}
        /\ ReceiveChunk(c) /\ UNCHANGED <<unsent, spoilt>>
        /\ c \in ChunksOf(c.messageId) /\ c.messageId \in Id \ unsent
    BY <1>2 DEF Arrive, AirWasSent
  <2>2. c \in Chunks
    BY <2>1, MadeChunks
  <2> HIDE DEF c
  <2>3. CASE id # c.messageId
    <3>1. returned[id] = {} /\ (id \in DOMAIN buffers => id \in DOMAIN buffers'
                                                         /\ buffers'[id] = buffers[id])
      <4>1. returned'[id] = returned[id]
        BY <2>1, <2>2, <2>3, ReceiveCases
      <4>2. id \in DOMAIN buffers => id \in DOMAIN buffers' /\ buffers'[id] = buffers[id]
        BY <2>1, <2>2, <2>3, ReceiveCases
      <4> QED
        BY <4>1, <4>2
    <3>2. IsPending(id, i)
      BY <2>1, <3>1 DEF Pending
    <3>3. ASSUME NEW m \in air, m.chunk.messageId = id PROVE m \in air'
      BY <2>1, <2>3, <3>3 DEF c
    <3> QED
      BY <3>1, <3>2, <3>3 DEF IsPending
  <2>4. CASE id = c.messageId
    <3>1. ~IsRefused(c)
      BY <2>1, <2>4, NotRefused
    <3>2. ~IsComplete(Got(c), c)
      <4> SUFFICES ASSUME IsComplete(Got(c), c) PROVE FALSE
        OBVIOUS
      <4>1. returned' = [returned EXCEPT ![c.messageId] = @ \cup {Reassembled(Got(c), c)}]
        BY <2>1, <2>2, <3>1, ReceiveCases
      <4>2. Reassembled(Got(c), c) \in returned'[id]
        BY <2>4, <4>1
      <4> QED
        BY <4>2
    <3>3. /\ id \in DOMAIN buffers' /\ buffers'[id].receivedChunks = Got(c)
          /\ returned' = returned
      <4>1. /\ id \in DOMAIN buffers' /\ returned' = returned
            /\ buffers'[id] = [totalChunks |-> c.totalChunks, receivedChunks |-> Got(c),
                               age |-> BufferFor(c).age]
        BY <2>1, <2>2, <2>4, <3>1, <3>2, ReceiveCases
      <4> QED
        BY <4>1
    <3>4. /\ c.sequenceNumber \in DOMAIN Got(c)
          /\ id \in DOMAIN buffers => DOMAIN buffers[id].receivedChunks \subseteq DOMAIN Got(c)
      BY <2>4 DEF Got, Buffered, BufferFor
    <3>5. IsPending(id, i)
      BY <2>1, <3>3 DEF Pending
    <3>6. ASSUME NEW m \in air, m \notin air',
                 m.chunk.messageId = id, m.chunk.sequenceNumber = i
          PROVE  i \in DOMAIN buffers'[id].receivedChunks
      <4>1. m = l
        BY <2>1, <3>6
      <4> QED
        BY <3>3, <3>4, <3>6, <4>1 DEF c
    <3>7. CASE id \in DOMAIN buffers /\ i \in DOMAIN buffers[id].receivedChunks
      BY <3>3, <3>4, <3>7 DEF IsPending
    <3> QED
      BY <3>3, <3>5, <3>6, <3>7 DEF IsPending
  <2> QED
    BY <2>3, <2>4
<1>3. ASSUME NEW l \in air, Lose(l) PROVE IsPending(id, i)'
  <2>1. /\ air' = air \ {l} /\ spoilt' = spoilt \cup {l.chunk.messageId}
        /\ UNCHANGED <<buffers, unsent, returned>>
    BY <1>3 DEF Lose
  <2>2. IsPending(id, i) /\ id # l.chunk.messageId
    BY <2>1 DEF Pending
  <2> QED
    BY <2>1, <2>2 DEF IsPending
<1>4. ASSUME NEW c \in Foreign, ArriveForeign(c) PROVE IsPending(id, i)'
  <2>1. /\ ReceiveChunk(c) /\ UNCHANGED <<air, unsent>>
        /\ spoilt' = IF buffers' = buffers THEN spoilt ELSE spoilt \cup {c.messageId}
        /\ c \in Chunks
    BY <1>4 DEF ArriveForeign, Chunks
  <2>2. spoilt \subseteq spoilt' /\ (buffers' = buffers \/ id # c.messageId)
    BY <2>1
  <2>3. returned[id] = {}
    <3>1. \/ returned' = returned
          \/ returned' = [returned EXCEPT ![c.messageId] = @ \cup {Reassembled(Got(c), c)}]
      BY <2>1, ReceiveCases
    <3>2. CASE id = c.messageId
      BY <3>1, <3>2
    <3>3. CASE id # c.messageId
      BY <3>1, <3>3
    <3> QED
      BY <3>2, <3>3
  <2>4. id \in DOMAIN buffers => id \in DOMAIN buffers' /\ buffers'[id] = buffers[id]
    BY <2>1, <2>2, ReceiveCases
  <2>5. IsPending(id, i)
    BY <2>1, <2>2, <2>3 DEF Pending
  <2> QED
    BY <2>1, <2>4, <2>5 DEF IsPending
<1>5. CASE Clear \/ Destroy
  <2>1. spoilt' = spoilt \cup DOMAIN buffers /\ UNCHANGED <<air, unsent, returned>>
    BY <1>5 DEF Clear, Destroy
  <2>2. IsPending(id, i) /\ id \notin DOMAIN buffers
    BY <2>1 DEF Pending
  <2> QED
    BY <2>1, <2>2 DEF IsPending
<1>6. CASE CleanupFires
  <2>1. /\ buffers' = [k \in {j \in DOMAIN buffers : ~IsStale(buffers[j])} |-> buffers[k]]
        /\ UNCHANGED <<air, unsent, returned, spoilt>>
    BY <1>6 DEF CleanupFires
  <2>2. IsPending(id, i)
    BY <2>1 DEF Pending
  <2>3. id \in DOMAIN buffers => ~IsStale(buffers[id])
    <3> SUFFICES ASSUME id \in DOMAIN buffers PROVE ~IsStale(buffers[id])
      OBVIOUS
    <3>1. PICK m \in air : m.chunk.messageId = id
      BY <2>1, SomeOnItsWay
    <3>2. /\ buffers[id].age <= m.age /\ m.age \in 0 .. MaxDelay /\ buffers[id].age \in Nat
      BY <2>1, <3>1 DEF Whole, AirWasSent, BuffersOK, BufferOK
    <3> QED
      BY <3>2 DEF IsStale
  <2> QED
    BY <2>1, <2>2, <2>3 DEF IsPending
<1>7. CASE ChunkerTick
  <2>1. /\ UNCHANGED <<unsent, spoilt, returned>>
        /\ air' = {[m EXCEPT !.age = @ + 1] : m \in air}
    BY <1>7 DEF ChunkerTick
  <2>2. IsPending(id, i)
    BY <2>1 DEF Pending
  <2>3. CASE \E m \in air : m.chunk.messageId = id /\ m.chunk.sequenceNumber = i
    <3>1. PICK m \in air : m.chunk.messageId = id /\ m.chunk.sequenceNumber = i
      BY <2>3
    <3> DEFINE l == [m EXCEPT !.age = @ + 1]
    <3>2. m = [chunk |-> m.chunk, age |-> m.age]
      BY DEF AirWasSent
    <3>3. l = [chunk |-> m.chunk, age |-> m.age + 1]
      BY <3>2
    <3>4. l.chunk = m.chunk
      BY <3>3
    <3>5. l \in air'
      BY <2>1
    <3> HIDE DEF l
    <3> QED
      BY <3>1, <3>4, <3>5 DEF IsPending
  <2>4. CASE id \in DOMAIN buffers /\ i \in DOMAIN buffers[id].receivedChunks
    <3>1. id \in DOMAIN buffers' /\ buffers'[id].receivedChunks = buffers[id].receivedChunks
      BY <1>7, <2>4, OlderBuffers
    <3> QED
      BY <2>4, <3>1 DEF IsPending
  <2> QED
    BY <2>2, <2>3, <2>4 DEF IsPending
<1>8. CASE UNCHANGED chunkerVars
  BY <1>8 DEF chunkerVars, Pending, IsPending
<1> QED
  BY <1>1, <1>2, <1>3, <1>4, <1>5, <1>6, <1>7, <1>8 DEF ChunkerNext

LEMMA ReturnedNext ==
    /\ BuffersOK /\ AirWasSent /\ DOMAIN returned = Id /\ Intact
    /\ [ChunkerNext]_chunkerVars
    => DOMAIN returned' = Id /\ Intact'
<1> SUFFICES ASSUME BuffersOK, AirWasSent, DOMAIN returned = Id, Intact,
                    [ChunkerNext]_chunkerVars
             PROVE  DOMAIN returned' = Id /\ Intact'
  OBVIOUS
<1>1. ASSUME NEW c \in Chunks, ReceiveChunk(c) PROVE DOMAIN returned' = Id /\ Intact'
  <2>1. CASE returned' = returned
    BY <2>1 DEF Intact
  <2>2. CASE returned' # returned
    <3>1. returned' = [returned EXCEPT ![c.messageId] = @ \cup {Reassembled(Got(c), c)}]
      BY <1>1, <2>2, ReceiveCases
    <3>2. Reassembled(Got(c), c) = Data[c.messageId]
      <4>1. ~IsRefused(c) /\ IsComplete(Got(c), c)
        BY <1>1, <2>2, ReceiveCases
      <4> QED
        BY <4>1, CompleteIsText
    <3> QED
      BY <3>1, <3>2 DEF Intact
  <2> QED
    BY <2>1, <2>2
<1>2. CASE returned' = returned
  BY <1>2 DEF Intact
<1>3. CleanupFires \/ ChunkerTick => returned' = returned
  BY DEF CleanupFires, ChunkerTick
<1> QED
  BY <1>1, <1>2, <1>3, AirIsOfChunks, ChunkerSteps

\* The invariant of the chunker.
ChunkerInv ==
    /\ BuffersOK /\ AirWasSent /\ Aging /\ Whole /\ Pending
    /\ DOMAIN returned = Id /\ Intact
    /\ unsent \subseteq Id /\ spoilt \subseteq Id /\ arrivals \in 0 .. MaxForeign

LEMMA ChunkerInvInit == ChunkerInit => ChunkerInv
<1> SUFFICES ASSUME ChunkerInit PROVE ChunkerInv
  OBVIOUS
<1> USE ChunkerAssumption
<1>1. /\ DOMAIN buffers = {} /\ air = {} /\ unsent = Id /\ spoilt = {} /\ arrivals = 0
      /\ cleanup = Timeout /\ returned = [id \in Id |-> {}]
  BY DEF ChunkerInit, NoBuffers
<1> QED
  BY <1>1 DEF ChunkerInv, BuffersOK, AirWasSent, Aging, NoTimer, Whole, Pending, Intact

LEMMA ChunkerInvAlways == ChunkerSpec => []ChunkerInv
<1>1. ASSUME ChunkerInv, [ChunkerNext]_chunkerVars PROVE ChunkerInv'
  <2>1. BuffersOK' /\ AirWasSent' /\ Aging' /\ Whole' /\ Pending'
    BY <1>1, BuffersNext, AirNext, AgingNext, WholeNext, PendingNext DEF ChunkerInv
  <2>2. DOMAIN returned' = Id /\ Intact'
    BY <1>1, ReturnedNext DEF ChunkerInv
  <2>3. unsent' \subseteq Id /\ arrivals' \in 0 .. MaxForeign
    BY <1>1, ChunkerAssumption
       DEF ChunkerInv, ChunkerNext, chunkerVars, Send, Arrive, Lose, ArriveForeign, Clear,
           Destroy, CleanupFires, ChunkerTick
  <2>4. spoilt' \subseteq Id
    <3>1. \A c \in Foreign : c.messageId \in Id
      BY ForeignAssumption
    <3>2. \A m \in air : m.chunk.messageId \in Id
      BY <1>1 DEF ChunkerInv, AirWasSent
    <3>3. DOMAIN buffers \subseteq Id /\ spoilt \subseteq Id
      BY <1>1 DEF ChunkerInv, BuffersOK
    <3> QED
      BY <1>1, <3>1, <3>2, <3>3
         DEF ChunkerNext, chunkerVars, Send, Arrive, Lose, ArriveForeign, Clear,
             Destroy, CleanupFires, ChunkerTick
  <2> QED
    BY <2>1, <2>2, <2>3, <2>4 DEF ChunkerInv
<1> QED
  BY <1>1, ChunkerInvInit, PTL DEF ChunkerSpec

\* The buffers, the chunks on their way and the counters keep their types; no buffer is
\* kept that is complete, or that no chunk has opened.
THEOREM ChunkerTypesAlways == ChunkerSpec => []ChunkerTypeOK
<1>1. ASSUME ChunkerInv PROVE ChunkerTypeOK
  <2>1. ASSUME NEW id \in DOMAIN buffers
        PROVE  /\ buffers[id].age \in Nat
               /\ DOMAIN buffers[id].receivedChunks # {}
               /\ \A i \in DOMAIN buffers[id].receivedChunks :
                      /\ i \in 0 .. buffers[id].totalChunks - 1
                      /\ buffers[id].receivedChunks[i] \in Pieces
               /\ \/ Cardinality(DOMAIN buffers[id].receivedChunks) < buffers[id].totalChunks
                  \/ \E i \in DOMAIN buffers[id].receivedChunks :
                         buffers[id].receivedChunks[i] = <<>>
    <3>1. BufferOK(id, buffers[id])
      BY <1>1 DEF ChunkerInv, BuffersOK
    <3> QED
      BY <3>1 DEF BufferOK, IsSource, Pieces
  <2>2. air \subseteq [chunk : Chunks, age : 0 .. MaxDelay]
    <3> SUFFICES ASSUME NEW m \in air PROVE m \in [chunk : Chunks, age : 0 .. MaxDelay]
      OBVIOUS
    <3>1. /\ m = [chunk |-> m.chunk, age |-> m.age] /\ m.age \in 0 .. MaxDelay
          /\ m.chunk \in Chunks
      BY <1>1, AirIsOfChunks DEF ChunkerInv, AirWasSent
    <3> QED
      BY <3>1
  <2> QED
    BY <1>1, <2>1, <2>2 DEF ChunkerInv, BuffersOK, Aging, ChunkerTypeOK
<1> QED
  BY <1>1, ChunkerInvAlways, PTL

\* Whatever arrives in whatever order and however often, receiveChunk returns only the
\* text that was sent (MessageChunker.ts:65-115), for texts and payloads of any length.
THEOREM IntactAlways == ChunkerSpec => []Intact
<1>1. ChunkerInv => Intact
  BY DEF ChunkerInv
<1> QED
  BY <1>1, ChunkerInvAlways, PTL

\* When all chunks of a message arrived in time, the message was returned: the cleanup
\* timer never falls between them (MessageChunker.ts:118-128).
THEOREM ArrivedIsReturnedAlways == ChunkerSpec => []ArrivedIsReturned
<1>1. ASSUME ChunkerInv, NEW id \in Id \ (unsent \cup spoilt), Data[id] # <<>>,
             \A m \in air : m.chunk.messageId # id, returned[id] = {}
      PROVE  FALSE
  <2>1. TotalChunks(Data[id]) \in Nat /\ TotalChunks(Data[id]) # 0
    <3>1. Data[id] \in Seq(ToSet(Data[id]))
      BY ChunkerAssumption
    <3>2. /\ TotalChunks(Data[id]) \in Nat
          /\ TotalChunks(Data[id]) = 0 <=> Len(Data[id]) = 0
      BY <3>1, PieceEnds
    <3>3. Len(Data[id]) # 0
      BY <1>1, <3>1
    <3> QED
      BY <3>2, <3>3
  <2>2. 0 \in 0 .. TotalChunks(Data[id]) - 1
    BY <2>1
  <2>3. id \in DOMAIN buffers
    BY <1>1, <2>2 DEF ChunkerInv, Pending, IsPending
  <2>4. \E m \in air : m.chunk.messageId = id
    BY <1>1, <2>3, SomeOnItsWay DEF ChunkerInv
  <2> QED
    BY <1>1, <2>4
<1>2. ChunkerInv => ArrivedIsReturned
  BY <1>1 DEF ArrivedIsReturned
<1> QED
  BY <1>2, ChunkerInvAlways, PTL

\* An incomplete message is dropped within two timeouts (MessageChunker.ts:118-128).
THEOREM StaleIsDroppedAlways == ChunkerSpec => []StaleIsDropped
<1>1. ASSUME ChunkerInv PROVE StaleIsDropped
  <2> SUFFICES ASSUME cleanup # NoTimer, NEW id \in DOMAIN buffers
               PROVE  buffers[id].age <= 2 * Timeout
    BY DEF StaleIsDropped
  <2>1. /\ buffers[id].age \in Nat /\ cleanup \in NoTimer .. Timeout
        /\ buffers[id].age + cleanup <= 2 * Timeout
    BY <1>1 DEF ChunkerInv, BuffersOK, BufferOK, Aging
  <2> QED
    BY <2>1, ChunkerAssumption DEF NoTimer
<1> QED
  BY <1>1, ChunkerInvAlways, PTL

-----------------------------------------------------------------------------
(* The composition *)

\* A step of the device is a step of each service, or leaves that service alone.
LEMMA DeviceSteps ==
    ASSUME [DeviceNext]_DeviceVars
    PROVE  /\ [ChunkerNext]_chunkerVars /\ [Next]_walletVars
           /\ [ExchangeNext]_exchangeVars /\ [DiscoveryNext]_discoveryVars
           /\ part' = part
           /\ part = "onboarding" => [UiNext]_onboardingVars
           /\ part # "onboarding" => UNCHANGED uiVars
<1>1. CASE /\ part = "onboarding" /\ UiNext
           /\ UNCHANGED <<part, chunkerVars, exchangeVars, discoveryVars>>
  <2>1. [Next]_walletVars
    BY <1>1, UiIsWallet
  <2> QED
    BY <1>1, <2>1
<1>2. CASE part # "onboarding" /\ DeviceNext
  BY <1>2 DEF DeviceNext
<1>3. CASE UNCHANGED DeviceVars
  BY <1>3 DEF DeviceVars, onboardingVars
<1> QED
  BY <1>1, <1>2, <1>3 DEF DeviceNext

\* The device is each of its services: what a service promises by itself it promises
\* beside the others, whichever part moves.
THEOREM DeviceRunsItsServices ==
    DeviceSpec => ChunkerSpec /\ Spec /\ ExchangeSpec /\ DiscoverySpec
<1>1. DeviceInit => ChunkerInit /\ Init /\ ExchangeInit /\ DiscoveryInit
  BY DEF DeviceInit, UiInit
<1> QED
  BY <1>1, DeviceSteps, PTL DEF DeviceSpec, ChunkerSpec, Spec, ExchangeSpec, DiscoverySpec

\* The screens: what they rest on is theirs while they are what moves, and while they
\* are not, the app stays in onboarding.
ScreensInv ==
    /\ UiTypeOK
    /\ part = "onboarding" => UiInv
    /\ part # "onboarding" => isOnboarding

LEMMA ScreensInvAlways == DeviceSpec => [](IInv /\ ScreensInv)
<1>1. DeviceInit => ScreensInv
  <2>1. UiInit => isOnboarding
    BY DEF UiInit
  <2>2. UiInv => UiTypeOK
    BY DEF UiInv
  <2> QED
    BY <2>1, <2>2, UiInvInit DEF DeviceInit, ScreensInv
<1>2. ASSUME IInv, ScreensInv, [DeviceNext]_DeviceVars PROVE ScreensInv'
  <2>1. CASE part = "onboarding"
    <3>1. UiInv'
      BY <1>2, <2>1, DeviceSteps, UiInvNext DEF ScreensInv
    <3>2. UiTypeOK'
      BY <3>1 DEF UiInv
    <3> QED
      BY <1>2, <2>1, <3>1, <3>2, DeviceSteps DEF ScreensInv
  <2>2. CASE part # "onboarding"
    <3>1. UNCHANGED uiVars /\ part' = part
      BY <1>2, <2>2, DeviceSteps
    <3>2. UiTypeOK' /\ isOnboarding'
      BY <1>2, <2>2, <3>1 DEF ScreensInv, UiTypeOK, uiVars
    <3> QED
      BY <2>2, <3>1, <3>2 DEF ScreensInv
  <2> QED
    BY <2>1, <2>2
<1> QED
  BY <1>1, <1>2, IInvAlways, DeviceRunsItsServices, PTL DEF DeviceSpec

\* Every component keeps its types beside the others.
THEOREM DeviceTypesAlways == DeviceSpec => []DeviceTypeOK
<1>1. ScreensInv => UiTypeOK
  BY DEF ScreensInv
<1>2. ChunkerTypeOK /\ TypeOK /\ UiTypeOK /\ ExchangeTypeOK /\ DiscoveryTypeOK => DeviceTypeOK
  BY DEF DeviceTypeOK
<1> QED
  BY <1>1, <1>2, DeviceRunsItsServices, ChunkerTypesAlways, TypeCorrect, ScreensInvAlways,
     ExchangeTypesAlways, DiscoveryTypesAlways, PTL

\* Together the services keep what each keeps alone: chunks, wallet, screens, sessions,
\* encryption and discovery, and the vault that the wallet implements.
THEOREM DeviceKeepsAll ==
    DeviceSpec => /\ [](Intact /\ ArrivedIsReturned /\ StaleIsDropped)
                  /\ [](ReportedCanLoad /\ BackedUp) /\ KeepsVault
                  /\ [](SecretsAgree /\ PeersUnderstand)
                  /\ []RunsOnlyWhenOn /\ LostWasMissed
<1>1. ASSUME ScreensInv PROVE BackedUp
  <2>1. CASE part = "onboarding"
    BY <1>1, <2>1 DEF ScreensInv, UiInv, Done, Settled, BackedUp
  <2>2. CASE part # "onboarding"
    BY <1>1, <2>2 DEF ScreensInv, BackedUp
  <2> QED
    BY <2>1, <2>2
<1> QED
  BY <1>1, DeviceRunsItsServices, ScreensInvAlways, IntactAlways, ArrivedIsReturnedAlways,
     StaleIsDroppedAlways, ReportedCanLoadAlways, VaultIsKept, SecretsAgreeAlways,
     PeersUnderstandAlways, RunsOnlyWhenOnAlways, LostWasMissedAlways, PTL
=============================================================================
