------------------------------- MODULE Gossip -------------------------------
(***************************************************************************)
(* services/mesh/GossipProtocol.ts on every device, with the splitting of  *)
(* large messages by MessageChunker.chunk and the delivery of what         *)
(* ConnectionManager writes.                                               *)
(*                                                                         *)
(* A message larger than the MTU leaves as chunks.  No code puts chunks    *)
(* together again: the receiver parses a chunk as if it were a message.    *)
(* Its messageId is the one all chunks of the message share, it has no     *)
(* type and so no handler, and no ttl: `undefined <= 0' is false, so it    *)
(* is forwarded once, with NaN - 1 for a ttl.  JSON writes NaN as null,    *)
(* and `null <= 0' is true: the next device drops it.  Such a forwarded    *)
(* chunk is called a husk.                                                 *)
(*                                                                         *)
(* Time is what is left of each device's 100 ms window and of each timer.  *)
(***************************************************************************)
EXTENDS SeenCache, Bags, FiniteSets

CONSTANTS
    Node,
    Msg,         \* the messages, for their random ids
    Origin,      \* [Msg -> Node], the device that publishes a message
    Large,       \* the messages longer than the MTU
    Chunks,      \* how many chunks a large message makes, two or more
    Links,       \* SUBSET (Node \X Node): <<n, m>> if n may be connected to m
    DefaultTtl,  \* DEFAULT_TTL (7 in the code)
    MaxSeen,     \* MAX_SEEN_TX_CACHE (1000)
    RateLimit,   \* GOSSIP_RATE_LIMIT_MS (100), in ticks
    MaxFaults    \* bound on lost packets, lost links and cleared caches

ASSUME GossipAssumption ==
    /\ Origin \in [Msg -> Node] /\ Large \subseteq Msg
    /\ Links \subseteq Node \X Node
    /\ Chunks \in Nat \ {0, 1} /\ DefaultTtl \in Nat \ {0} /\ MaxSeen \in Nat \ {0}
    /\ RateLimit \in Nat /\ MaxFaults \in Nat

\* Finitely many devices, without which the sums of NoStorm say nothing.
ASSUME FinitenessAssumption == IsFiniteSet(Node)

VARIABLES
    links,      \* the pairs whose ConnectionManager entry is CONNECTED
    seen,       \* seenMessages, oldest first
    window,     \* what is left of GOSSIP_RATE_LIMIT_MS since lastForwardTime
    air,        \* a bag: the packets written and not yet received
    waiting,    \* a bag: the forwards that wait for their timer
    chunksLeft, \* the chunks publish has not yet written
    \* History, read by no action:
    published,  \* the messages published
    handled,    \* how often a device's handlers were called with a message
    faults      \* the faults so far

vars == <<links, seen, window, air, waiting, chunksLeft, published, handled, faults>>

Ids == Msg \X {"message", "chunks"}
Packets == [msg : Msg, kind : {"message", "chunk", "husk"}, from : Node, to : Node,
            ttl : 0 .. DefaultTtl]
Waits == [packet : Packets, left : 0 .. RateLimit]

\* Types, and the bound on the seen cache.
TypeOK ==
    /\ links \subseteq Links
    /\ seen \in [Node -> Seq(Ids)] /\ \A n \in Node : Len(seen[n]) <= MaxSeen
    /\ window \in [Node -> 0 .. RateLimit]
    /\ IsABag(air) /\ BagToSet(air) \subseteq Packets
    /\ IsABag(waiting) /\ BagToSet(waiting) \subseteq Waits
    /\ chunksLeft \in [Msg -> 0 .. Chunks - 1]
    /\ published \subseteq Msg
    /\ handled \in [Node -> [Msg -> Nat]]
    /\ faults \in 0 .. MaxFaults

Init ==
    /\ links = Links
    /\ seen = [n \in Node |-> <<>>]
    /\ window = [n \in Node |-> 0]
    /\ air = EmptyBag /\ waiting = EmptyBag
    /\ chunksLeft = [m \in Msg |-> 0]
    /\ published = {}
    /\ handled = [n \in Node |-> [m \in Msg |-> 0]]
    /\ faults = 0
-----------------------------------------------------------------------------
\* The messageId a packet carries: chunk() draws one for all chunks of a message.
IdOf(p) == <<p.msg, IF p.kind = "message" THEN "message" ELSE "chunks">>

\* getConnectedDeviceIds
Connected(n) == {m \in Node : <<n, m>> \in links}

\* What a device writes to each of its targets.
Written(m, kind, n, targets, ttl) ==
    SetToBag({[msg |-> m, kind |-> kind, from |-> n, to |-> t, ttl |-> ttl] :
                  t \in targets})

\* Mutant: the cache is not trimmed.
RememberAll(n, id) == IF id \in ToSet(seen[n]) THEN seen[n] ELSE Append(seen[n], id)

\* seenMessages.add and trimSeenCache
Remember(n, id) == Add(seen[n], id, MaxSeen)

\* publish, up to the first await on the connections.
Publish(m) ==
    LET n == Origin[m]
        kind == IF m \in Large THEN "chunk" ELSE "message"
        ttl == IF m \in Large THEN 0 ELSE DefaultTtl
    IN  /\ m \notin published
        /\ published' = published \cup {m}
        /\ seen' = [seen EXCEPT ![n] = Remember(n, <<m, "message">>)]
        /\ air' = air (+) Written(m, kind, n, Connected(n), ttl)
        /\ chunksLeft' = [chunksLeft EXCEPT ![m] = IF m \in Large THEN Chunks - 1 ELSE 0]
        /\ UNCHANGED <<links, window, waiting, handled, faults>>

\* broadcast goes on with the next chunk, to who is connected by then.
PublishChunk(m) ==
    /\ chunksLeft[m] > 0
    /\ chunksLeft' = [chunksLeft EXCEPT ![m] = @ - 1]
    /\ air' = air (+) Written(m, "chunk", Origin[m], Connected(Origin[m]), 0)
    /\ UNCHANGED <<links, seen, window, waiting, published, handled, faults>>

\* Mutant: the dedup check is dropped.
NeverSeen(p) == FALSE

HasSeen(p) == IdOf(p) \in ToSet(seen[p.to])

\* message.ttl <= 0, for a ttl that may be undefined or null.
Expired(p) == CASE p.kind = "message" -> p.ttl = 0
                [] p.kind = "chunk" -> FALSE
                [] p.kind = "husk" -> TRUE

\* Mutant: the ttl is handed on as it came.
SameTtl(p) == p.ttl

NextTtl(p) == p.ttl - 1

\* Mutant: a forward goes back to the sender only.
BackToSender(p) == Connected(p.to) \cap {p.from}

\* Everyone connected but the device it came from.
Targets(p) == Connected(p.to) \ {p.from}

\* What forward writes, from the end of the rate limit on.
Forwarded(p) ==
    CASE p.kind = "chunk" -> Written(p.msg, "husk", p.to, Targets(p), 0)
      [] p.kind = "message" /\ NextTtl(p) > 0 ->
            Written(p.msg, "message", p.to, Targets(p), NextTtl(p))
      [] OTHER -> EmptyBag

\* handleIncoming returns early.
Drop(p) ==
    /\ BagIn(p, air)
    /\ HasSeen(p) \/ Expired(p)
    /\ air' = air (-) SetToBag({p})
    /\ UNCHANGED <<links, seen, window, waiting, chunksLeft, published, handled, faults>>

\* handleIncoming to its end, or to the timer of the rate limit.
Accept(p) ==
    LET n == p.to
    IN  /\ BagIn(p, air)
        /\ ~HasSeen(p) /\ ~Expired(p)
        /\ seen' = [seen EXCEPT ![n] = Remember(n, IdOf(p))]
        /\ handled' = IF p.kind = "message"
                      THEN [handled EXCEPT ![n][p.msg] = @ + 1] ELSE handled
        /\ IF window[n] > 0
           THEN /\ waiting' = waiting (+) SetToBag({[packet |-> p, left |-> window[n]]})
                /\ air' = air (-) SetToBag({p})
                /\ UNCHANGED window
           ELSE /\ window' = [window EXCEPT ![n] = RateLimit]
                /\ air' = (air (-) SetToBag({p})) (+) Forwarded(p)
                /\ UNCHANGED waiting
        /\ UNCHANGED <<links, chunksLeft, published, faults>>

\* The timer has fired: the forward goes on and does not look at the window again.
Resume(w) ==
    LET n == w.packet.to
    IN  /\ BagIn(w, waiting) /\ w.left = 0
        /\ waiting' = waiting (-) SetToBag({w})
        /\ window' = [window EXCEPT ![n] = RateLimit]
        /\ air' = air (+) Forwarded(w.packet)
        /\ UNCHANGED <<links, seen, chunksLeft, published, handled, faults>>

\* Mutant: a timer that never runs out.
Frozen(t) == t

Earlier(t) == IF t = 0 THEN 0 ELSE t - 1

\* Time passes; a timer that has run out may still be kept waiting.
Tick ==
    /\ \/ \E n \in Node : window[n] > 0
       \/ \E w \in BagToSet(waiting) : w.left > 0
    /\ window' = [n \in Node |-> Earlier(window[n])]
    /\ waiting' = BagOfAll(LAMBDA w : [w EXCEPT !.left = Earlier(@)], waiting)
    /\ UNCHANGED <<links, seen, air, chunksLeft, published, handled, faults>>
-----------------------------------------------------------------------------
(* The radio *)

Fault == faults < MaxFaults /\ faults' = faults + 1

\* A write fails; sendToDevice rejects and allSettled ignores it.
Lose(p) ==
    /\ Fault
    /\ BagIn(p, air)
    /\ air' = air (-) SetToBag({p})
    /\ UNCHANGED <<links, seen, window, waiting, chunksLeft, published, handled>>

LinkDown(l) ==
    /\ Fault
    /\ l \in links
    /\ links' = links \ {l}
    /\ UNCHANGED <<seen, window, air, waiting, chunksLeft, published, handled>>

LinkUp(l) ==
    /\ l \in Links \ links
    /\ links' = links \cup {l}
    /\ UNCHANGED <<seen, window, air, waiting, chunksLeft, published, handled, faults>>

ClearSeenCache(n) ==
    /\ Fault
    /\ seen' = [seen EXCEPT ![n] = <<>>]
    /\ UNCHANGED <<links, window, air, waiting, chunksLeft, published, handled>>

Receive == \E p \in BagToSet(air) : Drop(p) \/ Accept(p)

Next ==
    \/ \E m \in Msg : Publish(m) \/ PublishChunk(m)
    \/ Receive
    \/ \E w \in BagToSet(waiting) : Resume(w)
    \/ Tick
    \/ \E p \in BagToSet(air) : Lose(p)
    \/ \E l \in Links : LinkDown(l) \/ LinkUp(l)
    \/ \E n \in Node : ClearSeenCache(n)

Spec == Init /\ [][Next]_vars

\* What was written arrives (or is lost), awaited writes return and timers fire.
Fairness ==
    /\ WF_vars(Receive)
    /\ WF_vars(\E m \in Msg : PublishChunk(m))
    /\ WF_vars(\E w \in BagToSet(waiting) : Resume(w))
    /\ WF_vars(Tick)

FairSpec == Spec /\ Fairness
-----------------------------------------------------------------------------
(* Properties *)

Promise == INSTANCE Mesh WITH
    remembered <- [n \in Node |-> {m \in Msg : <<m, "message">> \in ToSet(seen[n])}]

\* The protocol keeps what Mesh promises: dedup before the ttl check, before the
\* handlers and before the await of the rate limit, so that no interleaving of
\* deliveries, waiting forwards and trimmed caches calls a handler twice for a
\* message the device remembers, or for its own (GossipProtocol.ts:75-92).
KeepsPromise == Promise!Spec

\* From any part of the devices a link leads out.
Strong ==
    \A part \in SUBSET Node \ {{}, Node} :
        \E n \in part, m \in Node \ part : <<n, m>> \in Links

\* ttl and dedup do not cut the flood short: without a fault a message of one packet
\* reaches every device, even if its first copy came the long way round, provided
\* that the default ttl is that of the longest way and that the cache holds all ids.
EventuallyHandled ==
    \A m \in Msg \ Large, n \in Node :
        (/\ Strong /\ n # Origin[m]
         /\ DefaultTtl >= Cardinality(Node) - 1 /\ MaxSeen >= 2 * Cardinality(Msg)
         /\ m \in published)
            ~> (handled[n][m] > 0 \/ faults > 0)

\* The ways of k hops from the origin, on which no device sends back what it got.
Ways(m, k) ==
    {w \in [0 .. k -> Node] :
        /\ w[0] = Origin[m]
        /\ \A i \in 1 .. k : <<w[i - 1], w[i]>> \in Links
        /\ \A i \in 2 .. k : w[i] # w[i - 2]}

\* No storm: however much the devices forget and however deliveries and waiting
\* forwards interleave, the handlers run no more often for a message, over all
\* devices, than there are ways of at most ttl hops (GossipProtocol.ts:171-182).
NoStorm ==
    \A m \in Msg :
        MapThenSumSet(LAMBDA n : handled[n][m], Node)
            <= MapThenSumSet(LAMBDA k : Cardinality(Ways(m, k)), 1 .. DefaultTtl)

\* The ttl ends every message, even where the seen cache is too small to stop it:
\* devices that forget hand it round until the hops are used up.
Quiet ==
    \A m \in Msg :
        m \in published ~>
            /\ \A p \in BagToSet(air) : p.msg # m
            /\ \A w \in BagToSet(waiting) : w.packet.msg # m

\* ARCHITECTURE.md, "Layer 2: Message Chunking": the receiver reassembles the chunks
\* and the message is handled.  The code does not: no receiver calls receiveChunk.
LargeEventuallyHandled ==
    \A m \in Large, n \in Node :
        (m \in published /\ n \in Connected(Origin[m]))
            ~> (handled[n][m] > 0 \/ faults > 0)
=============================================================================
