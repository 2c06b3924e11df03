------------------------------- MODULE Cipher -------------------------------
(***************************************************************************)
(* services/encryption/EncryptionService.ts: the key derived from a shared *)
(* secret, and the exclusive or of text, key and IV.  Texts, secrets and   *)
(* IVs are sequences of bytes, the base64 and UTF-8 forms are left out.    *)
(***************************************************************************)
EXTENDS Naturals, Sequences, SequencesExt

CONSTANTS
    Base,          \* the values of a byte, 256
    KeyLength,     \* 32
    Step,          \* the distance of the bytes that are mixed, 13
    IvLength,      \* 12
    ByteXor(_, _)  \* JavaScript's ^

Byte == 0 .. Base - 1

ASSUME CipherAssumption ==
    Base \in Nat \ {0} /\ KeyLength \in Nat \ {0} /\ Step \in Nat /\ IvLength \in Nat \ {0}

\* What is used of the exclusive or: it stays a byte, a second time undoes it, and the
\* order of two does not matter.
ASSUME XorAssumption ==
    \A a, b, c \in Byte :
        /\ ByteXor(a, b) \in Byte
        /\ ByteXor(ByteXor(a, b), b) = a
        /\ ByteXor(ByteXor(a, b), c) = ByteXor(ByteXor(a, c), b)

Keys == [0 .. KeyLength - 1 -> Byte]

\* Both folds go by a function of the key so far and a place.
Folded(secret) ==
    LET places == [j \in 1 .. Len(secret) |-> j - 1]
        add == [p \in Keys \X (0 .. Len(secret) - 1) |->
                  [p[1] EXCEPT ![p[2] % KeyLength] = ByteXor(@, secret[p[2] + 1])]]
    IN  FoldLeft(LAMBDA k, j : add[k, j], [i \in 0 .. KeyLength - 1 |-> 0], places)

\* Byte n of four rounds, mixed with one that may be mixed already.
Mixed(k, n) ==
    (k[n % KeyLength] + k[((n % KeyLength) + Step) % KeyLength] + (n \div KeyLength)) % Base

DeriveKey(secret) ==
    LET places == [n \in 1 .. 4 * KeyLength |-> n - 1]
        mix == [p \in Keys \X (0 .. 4 * KeyLength - 1) |->
                  [p[1] EXCEPT ![p[2] % KeyLength] = Mixed(p[1], p[2])]]
    IN  FoldLeft(LAMBDA k, n : mix[k, n], Folded(secret), places)

\* The IV is random; it goes before the cipher bytes.
Encrypt(text, iv, secret) ==
    LET k == DeriveKey(secret)
    IN  iv \o [i \in DOMAIN text |->
                 ByteXor(ByteXor(text[i], k[(i - 1) % KeyLength]), iv[((i - 1) % IvLength) + 1])]

\* Mutant: the key's bytes are counted from the start of the data.
FromTheIv(data, secret) ==
    LET k == DeriveKey(secret)
        iv == SubSeq(data, 1, IvLength)
        cipher == SubSeq(data, IvLength + 1, Len(data))
    IN  [i \in DOMAIN cipher |->
           ByteXor(ByteXor(cipher[i], k[(i - 1 + IvLength) % KeyLength]),
               iv[((i - 1) % IvLength) + 1])]

Decrypt(data, secret) ==
    LET k == DeriveKey(secret)
        iv == SubSeq(data, 1, IvLength)
        cipher == SubSeq(data, IvLength + 1, Len(data))
    IN  [i \in DOMAIN cipher |->
           ByteXor(ByteXor(cipher[i], k[(i - 1) % KeyLength]), iv[((i - 1) % IvLength) + 1])]
=============================================================================
