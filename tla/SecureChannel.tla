---------------------------- MODULE SecureChannel ----------------------------
(***************************************************************************)
(* KeyExchange and Cipher together: what one device encrypts with its      *)
(* session's secret, the other decrypts with its own.                      *)
(***************************************************************************)
EXTENDS KeyExchange, Cipher

CONSTANTS
    Hash(_),  \* keccak256 of a shared point, as bytes
    Texts,    \* the texts that are sent
    Ivs       \* the IVs that are drawn

ASSUME ChannelAssumption ==
    /\ \A n, m \in Device : \A i, j \in 1 .. MaxKeys :
           n # m => Hash(SharedSecret(n, i, m, j)) \in Seq(Byte)
    /\ Texts \subseteq Seq(Byte)
    /\ Ivs \subseteq [1 .. IvLength -> Byte]

\* A text of any length reaches a peer whose session agrees as it was sent, under any IV
\* (EncryptionService.ts:42-45, 77-80), also one longer than key or IV and the empty one.
PeersUnderstand ==
    \A n, m \in Device : Agreed(n, m) =>
        \A s \in session[n][m], t \in session[m][n], text \in Texts, iv \in Ivs :
            Decrypt(Encrypt(text, iv, Hash(s.sharedSecret)), Hash(t.sharedSecret)) = text
=============================================================================
