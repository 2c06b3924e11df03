------------------------------ MODULE Chunker ------------------------------
(***************************************************************************)
(* services/ble/MessageChunker.ts: messages are cut into chunks, the       *)
(* chunks arrive late, twice, out of order or not at all, and are put      *)
(* together again.  A message is a sequence of characters, and its id      *)
(* stands for the one call of chunk that drew it.                          *)
(*                                                                         *)
(* The chunks of a message are written in one tick.  Nothing in the code   *)
(* calls receiveChunk yet (see Gossip); this is what it does for a caller. *)
(***************************************************************************)
EXTENDS Integers, FiniteSets, Sequences, SequencesExt, FiniteSetsExt

CONSTANTS
    Id,          \* the messages that are sent
    Data,        \* the characters of each
    MaxPayload,  \* mtu - CHUNK_HEADER_SIZE
    Timeout,     \* REASSEMBLY_TIMEOUT_MS in ticks, also the period of the cleanup timer
    MaxDelay,    \* bound on the time a chunk is on its way
    Foreign,     \* chunks that no call of chunk made, which may arrive at any time
    MaxForeign   \* bound on their arrivals

ASSUME ChunkerAssumption ==
    /\ DOMAIN Data = Id /\ \A id \in Id : Data[id] \in Seq(ToSet(Data[id]))
    /\ MaxPayload \in Nat \ {0} /\ Timeout \in Nat \ {0}
    /\ MaxDelay \in 0 .. Timeout /\ MaxForeign \in Nat

VARIABLES
    buffers,   \* reassemblyBuffers, with the ticks since createdAt
    cleanup,   \* ticks until the cleanup timer fires, NoTimer once it is cleared
    air,       \* the chunks on their way, with the ticks since they were written
    unsent,    \* the messages that were not sent yet
    arrivals,  \* arrivals of foreign chunks
    \* History:
    returned,  \* what receiveChunk returned for each id
    spoilt     \* the messages of which a chunk was lost, or a foreign one was buffered

chunkerVars == <<buffers, cleanup, air, unsent, arrivals, returned, spoilt>>

NoTimer == -1
NoBuffers == [id \in {} |-> 0]
-----------------------------------------------------------------------------
(* chunk *)

TotalChunks(data) == (Len(data) + MaxPayload - 1) \div MaxPayload

Piece(data, i) == SubSeq(data, i * MaxPayload + 1, Min({(i + 1) * MaxPayload, Len(data)}))

ChunksOf(id) ==
    {[messageId |-> id, sequenceNumber |-> i, totalChunks |-> TotalChunks(Data[id]),
      payload |-> Piece(Data[id], i)] : i \in 0 .. TotalChunks(Data[id]) - 1}

IsInRange(c) == c.sequenceNumber >= 0 /\ c.sequenceNumber < c.totalChunks

\* Nothing in a chunk tells whose it is.  A foreign one that fits among the chunks of the
\* message is one of them or empty, and foreign ones do not make up a message themselves.
ASSUME ForeignAssumption ==
    /\ \A c \in Foreign :
           c.messageId \in Id /\ c.sequenceNumber \in Int /\ c.totalChunks \in Int
    /\ \A c \in Foreign :
           IsInRange(c) =>
               IF c.totalChunks = TotalChunks(Data[c.messageId])
               THEN c.payload \in {<<>>, Piece(Data[c.messageId], c.sequenceNumber)}
               ELSE \E i \in 0 .. c.totalChunks - 1 :
                        \A e \in Foreign :
                            (/\ e.messageId = c.messageId /\ e.totalChunks = c.totalChunks
                             /\ e.sequenceNumber = i) => e.payload = <<>>

Chunks == (UNION {ChunksOf(id) : id \in Id}) \cup Foreign
Pieces == {c.payload : c \in Chunks}

ChunkerTypeOK ==
    /\ DOMAIN buffers \subseteq Id
    /\ \A id \in DOMAIN buffers :
           LET b == buffers[id]
           IN  /\ b.age \in Nat
               /\ DOMAIN b.receivedChunks # {}
               /\ \A i \in DOMAIN b.receivedChunks :
                      i \in 0 .. b.totalChunks - 1 /\ b.receivedChunks[i] \in Pieces
               /\ \/ Cardinality(DOMAIN b.receivedChunks) < b.totalChunks
                  \/ \E i \in DOMAIN b.receivedChunks : b.receivedChunks[i] = <<>>
    /\ cleanup \in NoTimer .. Timeout
    /\ air \subseteq [chunk : Chunks, age : 0 .. MaxDelay]
    /\ unsent \subseteq Id /\ spoilt \subseteq Id
    /\ arrivals \in 0 .. MaxForeign
    /\ DOMAIN returned = Id

ChunkerInit ==
    /\ buffers = NoBuffers /\ cleanup = Timeout
    /\ air = {} /\ unsent = Id /\ arrivals = 0
    /\ returned = [id \in Id |-> {}] /\ spoilt = {}
-----------------------------------------------------------------------------
(* receiveChunk *)

BufferFor(c) ==
    IF c.messageId \in DOMAIN buffers
    THEN buffers[c.messageId]
    ELSE [totalChunks |-> c.totalChunks, receivedChunks |-> [i \in {} |-> <<>>], age |-> 0]

\* Mutant: the number after the last one is in range.
AllowsTotal(c) ==
    \/ c.sequenceNumber < 0 \/ c.sequenceNumber > c.totalChunks
    \/ BufferFor(c).totalChunks # c.totalChunks

\* Out of range, or not of the length its buffer was opened for: both throw, with no
\* change to a buffer.
IsRefused(c) == ~IsInRange(c) \/ BufferFor(c).totalChunks # c.totalChunks

\* A duplicate overwrites what it repeats.
Buffered(received, c) ==
    [i \in DOMAIN received \cup {c.sequenceNumber} |->
         IF i = c.sequenceNumber THEN c.payload ELSE received[i]]

\* An empty payload counts as a missing chunk: that throws, and the buffer stays.
IsComplete(received, c) ==
    /\ Cardinality(DOMAIN received) = c.totalChunks
    /\ \A i \in DOMAIN received : received[i] # <<>>

\* Mutant: the pieces are put together from the last to the first.
Backwards(received, c) ==
    FlattenSeq([i \in 1 .. c.totalChunks |-> received[c.totalChunks - i]])

Reassembled(received, c) == FlattenSeq([i \in 1 .. c.totalChunks |-> received[i - 1]])

ReceiveChunk(c) ==
    LET received == Buffered(BufferFor(c).receivedChunks, c)
    IN  IF IsRefused(c)
        THEN UNCHANGED <<buffers, returned>>
        ELSE IF IsComplete(received, c)
        THEN /\ buffers' = [id \in DOMAIN buffers \ {c.messageId} |-> buffers[id]]
             /\ returned' = [returned EXCEPT ![c.messageId] = @ \cup {Reassembled(received, c)}]
        ELSE /\ buffers' = [id \in DOMAIN buffers \cup {c.messageId} |->
                                IF id = c.messageId
                                THEN [BufferFor(c) EXCEPT !.receivedChunks = received]
                                ELSE buffers[id]]
             /\ UNCHANGED returned
-----------------------------------------------------------------------------
(* Steps *)

Send(id) ==
    /\ id \in unsent
    /\ unsent' = unsent \ {id}
    /\ air' = air \cup {[chunk |-> c, age |-> 0] : c \in ChunksOf(id)}
    /\ UNCHANGED <<buffers, cleanup, arrivals, returned, spoilt>>

\* A chunk arrives, perhaps not for the last time.
Arrive(m) ==
    /\ m \in air
    /\ \E again \in BOOLEAN : air' = IF again THEN air ELSE air \ {m}
    /\ ReceiveChunk(m.chunk)
    /\ UNCHANGED <<cleanup, unsent, arrivals, spoilt>>

Lose(m) ==
    /\ m \in air
    /\ air' = air \ {m}
    /\ spoilt' = spoilt \cup {m.chunk.messageId}
    /\ UNCHANGED <<buffers, cleanup, unsent, arrivals, returned>>

ArriveForeign(c) ==
    /\ arrivals < MaxForeign
    /\ arrivals' = arrivals + 1
    /\ ReceiveChunk(c)
    /\ spoilt' = IF buffers' = buffers THEN spoilt ELSE spoilt \cup {c.messageId}
    /\ UNCHANGED <<cleanup, air, unsent>>

Clear ==
    /\ buffers # NoBuffers
    /\ buffers' = NoBuffers
    /\ spoilt' = spoilt \cup DOMAIN buffers
    /\ UNCHANGED <<cleanup, air, unsent, arrivals, returned>>

\* The timer is gone for good, while receiveChunk goes on to work for whoever calls it.
Destroy ==
    /\ cleanup' = NoTimer
    /\ buffers' = NoBuffers
    /\ spoilt' = spoilt \cup DOMAIN buffers
    /\ UNCHANGED <<air, unsent, arrivals, returned>>

\* Mutant: a buffer may get as old as two timeouts.
ExpiresLate(b) == b.age > 2 * Timeout

\* Mutant: a buffer that is as old as the timeout is dropped.
ExpiresEarly(b) == b.age >= Timeout

IsStale(b) == b.age > Timeout

\* cleanupStaleBuffers
CleanupFires ==
    /\ cleanup = 0
    /\ cleanup' = Timeout
    /\ buffers' = [id \in {i \in DOMAIN buffers : ~IsStale(buffers[i])} |-> buffers[id]]
    /\ UNCHANGED <<air, unsent, arrivals, returned, spoilt>>

Older(age) == Min({age + 1, 2 * Timeout + 1})

\* A tick may pass when the timer is not due and no chunk is late.  Beyond two timeouts
\* a buffer's age makes no difference.
ChunkerTick ==
    /\ cleanup # 0
    /\ \A m \in air : m.age < MaxDelay
    /\ cleanup' = IF cleanup = NoTimer THEN NoTimer ELSE cleanup - 1
    /\ buffers' = [id \in DOMAIN buffers |-> [buffers[id] EXCEPT !.age = Older(@)]]
    /\ air' = {[m EXCEPT !.age = @ + 1] : m \in air}
    /\ UNCHANGED <<unsent, arrivals, returned, spoilt>>

ChunkerNext ==
    \/ \E id \in Id : Send(id)
    \/ \E m \in air : Arrive(m) \/ Lose(m)
    \/ \E c \in Foreign : ArriveForeign(c)
    \/ Clear \/ Destroy \/ CleanupFires \/ ChunkerTick

ChunkerSpec == ChunkerInit /\ [][ChunkerNext]_chunkerVars
-----------------------------------------------------------------------------
(* Properties *)

\* Whatever arrives in whatever order, and however often, receiveChunk returns no text
\* but the one that was sent under the id (MessageChunker.ts:65-115).
Intact == \A id \in Id : returned[id] \subseteq {Data[id]}

\* "MessageChunker.reassemble() ... Complete Message" (ARCHITECTURE.md:109-112): when
\* all chunks of a message arrived, none later than the timeout, the message was
\* returned: no round of the cleanup timer falls between them.
ArrivedIsReturned ==
    \A id \in Id \ (unsent \cup spoilt) :
        (Data[id] # <<>> /\ \A m \in air : m.chunk.messageId # id) => returned[id] # {}

\* An incomplete message is dropped within two timeouts of its first chunk, also one that
\* a late duplicate opened anew after its message was returned.  (The timeout itself,
\* as ARCHITECTURE.md:778 has it, is not the bound: the cleanup timer has its period.)
\* After destroy no timer drops anything.
StaleIsDropped ==
    cleanup # NoTimer => \A id \in DOMAIN buffers : buffers[id].age <= 2 * Timeout
=============================================================================
