------------------------------ MODULE MCDevice ------------------------------
(***************************************************************************)
(* Device with:                                                            *)
(*  - chunker: a message of two full pieces and a shorter one, and a       *)
(*    message of one full piece; chunks of another make with a sequence    *)
(*    number out of range, with another length, and with an empty payload. *)
(*    A tick is 15 s.                                                      *)
(*  - wallet, onboarding: two accounts, so that set-ups can meet; the      *)
(*    service called in any order, and as the screens call it.             *)
(*  - channel: two devices with up to three key pairs; a tick is half an   *)
(*    hour; bytes of two bits, keys of three, IVs of two bytes, and texts  *)
(*    shorter and longer than both.                                        *)
(*  - discovery: one peer, two calls of startContinuousDiscovery that      *)
(*    overlap; a tick is 4 s.                                              *)
(***************************************************************************)
EXTENDS Device, Bitwise

CONSTANTS m1, m2, x, y

MCId == {m1, m2}
MCData == [id \in MCId |-> IF id = m1 THEN <<x, y, x, x, y>> ELSE <<y, x>>]
OfOtherMake(number, total, text) ==
    [messageId |-> m1, sequenceNumber |-> number, totalChunks |-> total, payload |-> text]
MCForeign == {OfOtherMake(3, 3, <<x>>), OfOtherMake(0, 2, <<y>>), OfOtherMake(1, 3, <<>>)}

\* The bytes depend on the key pairs, and on which device has which.
MCHash(secret) ==
    LET keyOf(n) == (CHOOSE p \in secret : p[1] = n)[2]
    IN  <<keyOf("p"), 2, keyOf("q"), 1, keyOf("p")>>
MCXor(a, b) == a ^^ b
MCTexts == UNION {[1 .. n -> 0 .. 1] : n \in {0, 1, 4}}
MCIvs == [1 .. 2 -> {1, 3}]
=============================================================================
