----------------------------- MODULE KeyExchange -----------------------------
(***************************************************************************)
(* services/encryption/KeyExchangeService.ts on devices that exchange      *)
(* public keys: sessions cached by the peer's key and for an hour, and key *)
(* rotation.  A key pair is its number on its device; a public key may     *)
(* reach the peer late, after its owner rotated.                           *)
(*                                                                         *)
(* The app does not call this service yet: its operations come in any      *)
(* order.  A restart has the effect of rotateKeys.                         *)
(***************************************************************************)
EXTENDS Naturals

CONSTANTS
    Device,  \* the devices, each a peer of the others
    Expiry,  \* SESSION_EXPIRY_MS, in ticks
    MaxKeys  \* bound on the key pairs of a device

ASSUME ExchangeAssumption == Expiry \in Nat /\ MaxKeys \in Nat \ {0}

VARIABLES
    key,     \* which of its key pairs each device has now
    session  \* peerSessions: per device and peer, at most one

exchangeVars == <<key, session>>

Secrets == SUBSET (Device \X Nat)
Sessions == [peerPublicKey : Nat, sharedSecret : Secrets, age : 0 .. Expiry]

ExchangeTypeOK ==
    /\ key \in [Device -> Nat]
    /\ session \in [Device -> [Device -> SUBSET Sessions]]

NoSessions == [m \in Device |-> {}]

ExchangeInit ==
    /\ key = [n \in Device |-> 1]
    /\ session = [n \in Device |-> NoSessions]
-----------------------------------------------------------------------------
(* Sessions *)

\* ECDH: both sides compute the same point from one private and one public key.
SharedSecret(n, i, m, j) == {<<n, i>>, <<m, j>>}

Valid(s) == s.age < Expiry

\* A valid session under the same public key is used again, else a new one replaces it.
DeriveSharedSecret(n, m, k) ==
    /\ \A s \in session[n][m] : ~(Valid(s) /\ s.peerPublicKey = k)
    /\ session' = [session EXCEPT ![n][m] =
                     {[peerPublicKey |-> k,
                       sharedSecret |-> SharedSecret(n, key[n], m, k),
                       age |-> 0]}]
    /\ UNCHANGED key

\* getSessionSecret deletes the session it finds expired.
GetSessionSecret(n, m) ==
    /\ session' = [session EXCEPT ![n][m] = {s \in @ : Valid(s)}]
    /\ UNCHANGED key

RemoveSession(n, m) ==
    /\ session' = [session EXCEPT ![n][m] = {}]
    /\ UNCHANGED key

CleanupExpiredSessions(n) ==
    /\ session' = [session EXCEPT ![n] = [m \in Device |-> {s \in @[m] : Valid(s)}]]
    /\ UNCHANGED key
-----------------------------------------------------------------------------
(* Keys *)

\* Mutant: the sessions outlive the keys.
SessionsKept(n) ==
    /\ key[n] < MaxKeys
    /\ key' = [key EXCEPT ![n] = @ + 1]
    /\ UNCHANGED session

RotateKeys(n) ==
    /\ key[n] < MaxKeys
    /\ key' = [key EXCEPT ![n] = @ + 1]
    /\ session' = [session EXCEPT ![n] = NoSessions]

\* The sessions are cleared, and once more by rotateKeys.
Reset(n) == RotateKeys(n)

Tick ==
    /\ session' = [n \in Device |-> [m \in Device |->
                     {[s EXCEPT !.age = IF @ < Expiry THEN @ + 1 ELSE @]
                        : s \in session[n][m]}]]
    /\ UNCHANGED key

ExchangeNext ==
    \/ \E n \in Device : \E m \in Device \ {n} :
        \/ \E k \in 1 .. key[m] : DeriveSharedSecret(n, m, k)
        \/ GetSessionSecret(n, m) \/ RemoveSession(n, m)
    \/ \E n \in Device : CleanupExpiredSessions(n) \/ RotateKeys(n) \/ Reset(n)
    \/ Tick

ExchangeSpec == ExchangeInit /\ [][ExchangeNext]_exchangeVars
-----------------------------------------------------------------------------
(* Properties *)

\* Both sessions were made for the keys that the two devices have now.
Agreed(n, m) ==
    /\ n # m
    /\ \E s \in session[n][m] : s.peerPublicKey = key[m]
    /\ \E t \in session[m][n] : t.peerPublicKey = key[n]

\* Two devices whose sessions name each other's present keys hold the same secret, in
\* whatever order keys were rotated, handed over late, cached or expired.  A session
\* records the peer's key only (KeyExchangeService.ts:65), so it takes that rotateKeys
\* drops the sessions made with the own key before (45).  Without the premise it does
\* not hold: a session for a key the peer has rotated is served until it expires.
SecretsAgree ==
    \A n, m \in Device : Agreed(n, m) =>
        \A s \in session[n][m], t \in session[m][n] : s.sharedSecret = t.sharedSecret
=============================================================================
