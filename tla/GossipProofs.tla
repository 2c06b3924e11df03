---------------------------- MODULE GossipProofs ----------------------------
(***************************************************************************)
(* The gossip protocol keeps its types, implements Mesh and makes no storm *)
(* (NoStorm), for every finite set of devices, every topology, every ttl   *)
(* and every size of the seen cache.                                       *)
(***************************************************************************)
EXTENDS Gossip, DataProofs

\* What the mesh carries: typed packets of published messages.
Carried ==
    /\ published \subseteq Msg
    /\ links \subseteq Links
    /\ seen \in [Node -> Seq(Ids)] /\ \A n \in Node : Len(seen[n]) <= MaxSeen
    /\ window \in [Node -> 0 .. RateLimit]
    /\ handled \in [Node -> [Msg -> Nat]]
    /\ chunksLeft \in [Msg -> Nat] /\ \A m \in Msg : chunksLeft[m] > 0 => m \in published
    /\ \A p \in BagToSet(air) : p \in Packets /\ p.msg \in published
    /\ \A w \in BagToSet(waiting) : w \in Waits /\ w.packet.msg \in published

\* The members of a union, a difference and a set turned into a bag.
LEMMA BagMembers ==
    ASSUME NEW A, NEW B, NEW S
    PROVE  /\ BagToSet(A (+) B) = BagToSet(A) \cup BagToSet(B)
           /\ BagToSet(A (-) B) \subseteq BagToSet(A)
           /\ BagToSet(SetToBag(S)) = S
           /\ BagToSet(EmptyBag) = {}
BY DEF BagToSet, SetToBag, EmptyBag, (+), (-)

\* What a device writes is packets of the message for other devices.
LEMMA WrittenType ==
    ASSUME NEW m \in Msg, NEW kind \in {"message", "chunk", "husk"}, NEW n \in Node,
           NEW targets \in SUBSET Node, NEW ttl \in 0 .. DefaultTtl
    PROVE  \A p \in BagToSet(Written(m, kind, n, targets, ttl)) :
               p \in Packets /\ p.msg = m
<1>1. BagToSet(Written(m, kind, n, targets, ttl))
        = {[msg |-> m, kind |-> kind, from |-> n, to |-> t, ttl |-> ttl] : t \in targets}
  BY BagMembers DEF Written
<1> QED
  BY <1>1 DEF Packets

\* What a device forwards is packets of the same message.
LEMMA ForwardedType ==
    ASSUME NEW p \in Packets
    PROVE  \A q \in BagToSet(Forwarded(p)) : q \in Packets /\ q.msg = p.msg
<1>1. /\ p.msg \in Msg /\ p.kind \in {"message", "chunk", "husk"} /\ p.to \in Node
      /\ p.ttl \in 0 .. DefaultTtl
  BY DEF Packets
<1>2. Targets(p) \in SUBSET Node
  BY DEF Targets, Connected
<1>3. CASE p.kind = "chunk"
  <2>1. Forwarded(p) = Written(p.msg, "husk", p.to, Targets(p), 0)
    BY <1>3 DEF Forwarded
  <2>2. 0 \in 0 .. DefaultTtl
    BY GossipAssumption
  <2> QED
    BY <1>1, <1>2, <2>1, <2>2, WrittenType
<1>4. CASE p.kind = "message" /\ NextTtl(p) > 0
  <2>1. Forwarded(p) = Written(p.msg, "message", p.to, Targets(p), NextTtl(p))
    BY <1>4 DEF Forwarded
  <2>2. NextTtl(p) \in 0 .. DefaultTtl
    BY <1>1, <1>4, GossipAssumption DEF NextTtl
  <2> QED
    BY <1>1, <1>2, <2>1, <2>2, WrittenType
<1>5. CASE p.kind # "chunk" /\ ~(p.kind = "message" /\ NextTtl(p) > 0)
  <2>1. Forwarded(p) = EmptyBag
    BY <1>5 DEF Forwarded
  <2> QED
    BY <2>1, BagMembers
<1> QED
  BY <1>3, <1>4, <1>5

\* An id put into the seen cache is in it, and nothing else is new.
LEMMA RememberType ==
    ASSUME Carried, NEW n \in Node, NEW id \in Ids
    PROVE  /\ Remember(n, id) \in Seq(Ids) /\ Len(Remember(n, id)) <= MaxSeen
           /\ id \in ToSet(Remember(n, id))
           /\ ToSet(Remember(n, id)) \subseteq ToSet(seen[n]) \cup {id}
<1>1. seen[n] \in Seq(Ids) /\ Len(seen[n]) <= MaxSeen /\ MaxSeen \in Nat \ {0}
  BY GossipAssumption DEF Carried
<1>2. CASE id \in ToSet(seen[n])
  <2>1. Remember(n, id) = seen[n]
    <3>1. ~(Len(seen[n]) > MaxSeen)
      BY <1>1, LenProperties
    <3> QED
      BY <1>2, <3>1 DEF Remember, Add, Newest
  <2> QED
    BY <1>1, <1>2, <2>1
<1>3. CASE id \notin ToSet(seen[n])
  BY <1>1, <1>3, AddType, AddHolds DEF Remember
<1> QED
  BY <1>2, <1>3
-----------------------------------------------------------------------------
(* The invariant *)

LEMMA CarriedInit == Init => Carried
<1> SUFFICES ASSUME Init PROVE Carried
  OBVIOUS
<1>1. BagToSet(air) = {} /\ BagToSet(waiting) = {}
  BY BagMembers DEF Init
<1>2. \A n \in Node : seen[n] = <<>>
  BY DEF Init
<1>3. seen \in [Node -> Seq(Ids)] /\ \A n \in Node : Len(seen[n]) <= MaxSeen
  BY <1>2, GossipAssumption DEF Init
<1> QED
  BY <1>1, <1>3, GossipAssumption DEF Init, Carried

LEMMA CarriedNext == Carried /\ [Next]_vars => Carried'
<1> SUFFICES ASSUME Carried, [Next]_vars PROVE Carried'
  OBVIOUS
<1> USE GossipAssumption
<1>1. ASSUME NEW m \in Msg, Publish(m) PROVE Carried'
  <2> DEFINE n == Origin[m]
             kind == IF m \in Large THEN "chunk" ELSE "message"
             ttl == IF m \in Large THEN 0 ELSE DefaultTtl
             new == Written(m, kind, n, Connected(n), ttl)
  <2>1. /\ n \in Node /\ <<m, "message">> \in Ids
        /\ kind \in {"message", "chunk", "husk"} /\ ttl \in 0 .. DefaultTtl
        /\ Connected(n) \in SUBSET Node
    BY DEF Ids, Connected
  <2>2. \A p \in BagToSet(new) : p \in Packets /\ p.msg = m
    BY <2>1, WrittenType
  <2>3. /\ published' = published \cup {m}
        /\ air' = air (+) new
        /\ seen' = [seen EXCEPT ![n] = Remember(n, <<m, "message">>)]
        /\ chunksLeft' = [chunksLeft EXCEPT ![m] = IF m \in Large THEN Chunks - 1 ELSE 0]
        /\ UNCHANGED <<links, window, waiting, handled>>
    BY <1>1 DEF Publish
  <2> HIDE DEF new, n
  <2>4. BagToSet(air') = BagToSet(air) \cup BagToSet(new)
    BY <2>3, BagMembers
  <2>5. \A p \in BagToSet(air') : p \in Packets /\ p.msg \in published'
    BY <2>2, <2>3, <2>4 DEF Carried
  <2>6. seen' \in [Node -> Seq(Ids)] /\ \A k \in Node : Len(seen'[k]) <= MaxSeen
    BY <2>1, <2>3, RememberType DEF Carried
  <2>7. /\ chunksLeft' \in [Msg -> Nat]
        /\ \A k \in Msg : chunksLeft'[k] > 0 => k \in published'
    BY <2>3 DEF Carried
  <2>8. /\ published' \subseteq Msg /\ links' \subseteq Links
        /\ window' \in [Node -> 0 .. RateLimit] /\ handled' \in [Node -> [Msg -> Nat]]
        /\ \A w \in BagToSet(waiting') : w \in Waits /\ w.packet.msg \in published'
    BY <2>3 DEF Carried
  <2> QED
    BY <2>5, <2>6, <2>7, <2>8 DEF Carried
<1>2. ASSUME NEW m \in Msg, PublishChunk(m) PROVE Carried'
  <2> DEFINE new == Written(m, "chunk", Origin[m], Connected(Origin[m]), 0)
  <2>1. Origin[m] \in Node /\ Connected(Origin[m]) \in SUBSET Node /\ 0 \in 0 .. DefaultTtl
    BY DEF Connected
  <2>2. \A p \in BagToSet(new) : p \in Packets /\ p.msg = m
    BY <2>1, WrittenType
  <2>3. /\ chunksLeft[m] > 0 /\ chunksLeft' = [chunksLeft EXCEPT ![m] = @ - 1]
        /\ air' = air (+) new
        /\ UNCHANGED <<links, seen, window, waiting, published, handled>>
    BY <1>2 DEF PublishChunk
  <2> HIDE DEF new
  <2>4. BagToSet(air') = BagToSet(air) \cup BagToSet(new)
    BY <2>3, BagMembers
  <2>5. m \in published
    BY <2>3 DEF Carried
  <2>6. \A p \in BagToSet(air') : p \in Packets /\ p.msg \in published'
    BY <2>2, <2>3, <2>4, <2>5 DEF Carried
  <2>7. /\ chunksLeft' \in [Msg -> Nat]
        /\ \A k \in Msg : chunksLeft'[k] > 0 => k \in published'
    BY <2>3, <2>5 DEF Carried
  <2> QED
    BY <2>3, <2>6, <2>7 DEF Carried
<1>3. ASSUME NEW p \in BagToSet(air), Drop(p) PROVE Carried'
  <2>1. /\ air' = air (-) SetToBag({p})
        /\ UNCHANGED <<links, seen, window, waiting, chunksLeft, published, handled>>
    BY <1>3 DEF Drop
  <2>2. BagToSet(air') \subseteq BagToSet(air)
    BY <2>1, BagMembers
  <2> QED
    BY <2>1, <2>2 DEF Carried
<1>4. ASSUME NEW p \in BagToSet(air), Accept(p) PROVE Carried'
  <2> DEFINE n == p.to
             w == [packet |-> p, left |-> window[n]]
  <2>1. p \in Packets /\ p.msg \in published /\ n \in Node /\ p.msg \in Msg
    BY DEF Carried, Packets
  <2>2. IdOf(p) \in Ids
    BY <2>1 DEF IdOf, Ids
  <2>3. /\ seen' = [seen EXCEPT ![n] = Remember(n, IdOf(p))]
        /\ handled' = IF p.kind = "message"
                      THEN [handled EXCEPT ![n][p.msg] = @ + 1] ELSE handled
        /\ UNCHANGED <<links, chunksLeft, published>>
    BY <1>4 DEF Accept
  <2>4. seen' \in [Node -> Seq(Ids)] /\ \A k \in Node : Len(seen'[k]) <= MaxSeen
    BY <2>1, <2>2, <2>3, RememberType DEF Carried
  <2>5. handled' \in [Node -> [Msg -> Nat]]
    <3>1. handled \in [Node -> [Msg -> Nat]]
      BY DEF Carried
    <3>2. [handled[n] EXCEPT ![p.msg] = @ + 1] \in [Msg -> Nat]
      BY <2>1, <3>1
    <3>3. handled' = handled
             \/ handled' = [handled EXCEPT ![n] = [handled[n] EXCEPT ![p.msg] = @ + 1]]
      BY <2>1, <2>3, <3>1
    <3> QED
      BY <3>1, <3>2, <3>3
  <2>6. CASE window[n] > 0
    <3>1. /\ waiting' = waiting (+) SetToBag({w})
          /\ air' = air (-) SetToBag({p})
          /\ window' = window
      BY <1>4, <2>6 DEF Accept
    <3>2. w \in Waits
      BY <2>1 DEF Carried, Waits
    <3>4. w.packet = p
      OBVIOUS
    <3> HIDE DEF w
    <3>5. BagToSet(waiting') = BagToSet(waiting) \cup BagToSet(SetToBag({w}))
      BY <3>1, BagMembers
    <3>6. BagToSet(waiting') = BagToSet(waiting) \cup {w}
      BY <3>5, BagMembers
    <3>3. BagToSet(air') \subseteq BagToSet(air)
      BY <3>1, BagMembers
    <3> QED
      BY <2>1, <2>3, <2>4, <2>5, <3>1, <3>2, <3>3, <3>4, <3>6 DEF Carried
  <2>7. CASE ~(window[n] > 0)
    <3>1. /\ window' = [window EXCEPT ![n] = RateLimit]
          /\ air' = (air (-) SetToBag({p})) (+) Forwarded(p)
          /\ waiting' = waiting
      BY <1>4, <2>7 DEF Accept
    <3>2. BagToSet(air') \subseteq BagToSet(air) \cup BagToSet(Forwarded(p))
      <4> DEFINE rest == air (-) SetToBag({p})
                 more == Forwarded(p)
      <4>1. BagToSet(rest) \subseteq BagToSet(air)
        BY BagMembers
      <4>2. air' = rest (+) more
        BY <3>1
      <4> HIDE DEF rest, more
      <4>3. BagToSet(air') = BagToSet(rest) \cup BagToSet(more)
        BY <4>2, BagMembers
      <4> QED
        BY <4>1, <4>3 DEF more
    <3>3. \A q \in BagToSet(air') : q \in Packets /\ q.msg \in published
      BY <2>1, <3>2, ForwardedType DEF Carried
    <3>4. window' \in [Node -> 0 .. RateLimit]
      BY <2>1, <3>1 DEF Carried
    <3> QED
      BY <2>3, <2>4, <2>5, <3>1, <3>3, <3>4 DEF Carried
  <2> QED
    BY <2>6, <2>7
<1>5. ASSUME NEW w \in BagToSet(waiting), Resume(w) PROVE Carried'
  <2>1. w \in Waits /\ w.packet \in Packets /\ w.packet.msg \in published
    BY DEF Carried, Waits
  <2>2. w.packet.to \in Node
    BY <2>1 DEF Packets
  <2>3. /\ waiting' = waiting (-) SetToBag({w})
        /\ window' = [window EXCEPT ![w.packet.to] = RateLimit]
        /\ air' = air (+) Forwarded(w.packet)
        /\ UNCHANGED <<links, seen, chunksLeft, published, handled>>
    BY <1>5 DEF Resume
  <2>4. /\ BagToSet(air') = BagToSet(air) \cup BagToSet(Forwarded(w.packet))
        /\ BagToSet(waiting') \subseteq BagToSet(waiting)
    BY <2>3, BagMembers
  <2>5. \A q \in BagToSet(air') : q \in Packets /\ q.msg \in published
    BY <2>1, <2>4, ForwardedType DEF Carried
  <2>6. window' \in [Node -> 0 .. RateLimit]
    BY <2>2, <2>3 DEF Carried
  <2> QED
    BY <2>3, <2>4, <2>5, <2>6 DEF Carried
<1>6. ASSUME Tick PROVE Carried'
  <2>1. /\ window' = [n \in Node |-> Earlier(window[n])]
        /\ waiting' = BagOfAll(LAMBDA w : [w EXCEPT !.left = Earlier(@)], waiting)
        /\ UNCHANGED <<links, seen, air, chunksLeft, published, handled>>
    BY <1>6 DEF Tick
  <2>2. window' \in [Node -> 0 .. RateLimit]
    BY <2>1 DEF Carried, Earlier
  <2>3. BagToSet(waiting')
          = {[w EXCEPT !.left = Earlier(w.left)] : w \in BagToSet(waiting)}
    BY <2>1 DEF BagOfAll, BagToSet
  <2>4. ASSUME NEW w \in BagToSet(waiting)
        PROVE  /\ [w EXCEPT !.left = Earlier(w.left)] \in Waits
               /\ [w EXCEPT !.left = Earlier(w.left)].packet.msg \in published
    <3>1. w \in Waits /\ w.packet.msg \in published
      BY DEF Carried
    <3> QED
      BY <3>1 DEF Waits, Earlier
  <2> QED
    BY <2>1, <2>2, <2>3, <2>4 DEF Carried
<1>7. ASSUME NEW p \in BagToSet(air), Lose(p) PROVE Carried'
  <2>1. /\ air' = air (-) SetToBag({p})
        /\ UNCHANGED <<links, seen, window, waiting, chunksLeft, published, handled>>
    BY <1>7 DEF Lose
  <2>2. BagToSet(air') \subseteq BagToSet(air)
    BY <2>1, BagMembers
  <2> QED
    BY <2>1, <2>2 DEF Carried
<1>8. ASSUME NEW l \in Links, LinkDown(l) \/ LinkUp(l) PROVE Carried'
  BY <1>8 DEF LinkDown, LinkUp, Carried
<1>9. ASSUME NEW n \in Node, ClearSeenCache(n) PROVE Carried'
  <2>1. /\ seen' = [seen EXCEPT ![n] = <<>>]
        /\ UNCHANGED <<links, window, air, waiting, chunksLeft, published, handled>>
    BY <1>9 DEF ClearSeenCache
  <2>2. seen' \in [Node -> Seq(Ids)] /\ \A k \in Node : Len(seen'[k]) <= MaxSeen
    BY <2>1 DEF Carried
  <2> QED
    BY <2>1, <2>2 DEF Carried
<1>10. CASE UNCHANGED vars
  BY <1>10 DEF vars, Carried
<1> QED
  BY <1>1, <1>2, <1>3, <1>4, <1>5, <1>6, <1>7, <1>8, <1>9, <1>10 DEF Next, Receive

\* Every packet on the way is a typed packet of a published message, in every
\* reachable state: nothing is forwarded that no device published.
THEOREM CarriedAlways == Spec => []Carried
BY CarriedInit, CarriedNext, PTL DEF Spec
-----------------------------------------------------------------------------
(* Types *)

\* A set turned into a bag, a union and a difference of bags are bags.
LEMMA BagTypes ==
    ASSUME NEW A, NEW B, NEW S
    PROVE  /\ IsABag(SetToBag(S)) /\ IsABag(EmptyBag)
           /\ IsABag(A) /\ IsABag(B) => IsABag(A (+) B) /\ IsABag(A (-) B)
<1> DEFINE P == {n \in Nat : n > 0}
<1>1. IsABag(SetToBag(S)) /\ IsABag(EmptyBag)
  BY DEF IsABag, SetToBag, EmptyBag
<1>2. ASSUME IsABag(A), IsABag(B) PROVE IsABag(A (+) B) /\ IsABag(A (-) B)
  <2>1. /\ \A e \in DOMAIN A : A[e] \in Nat /\ A[e] > 0
        /\ \A e \in DOMAIN B : B[e] \in Nat /\ B[e] > 0
    BY <1>2 DEF IsABag
  <2>2. IsABag(A (+) B)
    <3> DEFINE f == A (+) B
    <3>1. /\ DOMAIN f = DOMAIN A \cup DOMAIN B
          /\ f = [e \in DOMAIN f |-> f[e]]
          /\ \A e \in DOMAIN f : f[e] = (IF e \in DOMAIN A THEN A[e] ELSE 0)
                                          + (IF e \in DOMAIN B THEN B[e] ELSE 0)
      BY DEF (+)
    <3> HIDE DEF f
    <3>2. \A e \in DOMAIN f : f[e] \in P
      BY <2>1, <3>1
    <3> QED
      BY <3>1, <3>2 DEF IsABag, f
  <2>3. IsABag(A (-) B)
    <3> DEFINE f == A (-) B
               g == [e \in DOMAIN A |-> IF e \in DOMAIN B THEN A[e] - B[e] ELSE A[e]]
    <3>1. /\ DOMAIN f = {d \in DOMAIN g : g[d] > 0}
          /\ f = [e \in DOMAIN f |-> f[e]]
          /\ \A e \in DOMAIN f : f[e] = g[e]
      BY DEF (-)
    <3>2. \A e \in DOMAIN A : g[e] \in Int
      BY <2>1
    <3>3. DOMAIN g = DOMAIN A
      OBVIOUS
    <3> HIDE DEF f, g
    <3>4. \A e \in DOMAIN f : f[e] \in P
      BY <3>1, <3>2, <3>3
    <3> QED
      BY <3>1, <3>4 DEF IsABag, f
  <2> QED
    BY <2>2, <2>3
<1> QED
  BY <1>1, <1>2

\* What is left of the timers after a tick, and how many of the old entries of a bag
\* become one of the new ones.
Ticked(w) == [w EXCEPT !.left = Earlier(w.left)]
Becoming(bag, e) == [w \in DOMAIN bag |-> IF Ticked(w) = e THEN bag[w] ELSE 0]

\* The timers of a finite set, brought forward, are finitely many.
LEMMA TickedFinite ==
    ASSUME NEW S, IsFiniteSet(S)
    PROVE  IsFiniteSet({Ticked(w) : w \in S})
<1> DEFINE Image(T) == {Ticked(w) : w \in T}
           G == {T \in SUBSET S : IsFiniteSet(Image(T))}
<1>1. ASSUME NEW T \in SUBSET S, \A x \in T : T \ {x} \in G
      PROVE  T \in G
  <2>1. CASE T = {}
    <3>1. Image(T) = {}
      BY <2>1
    <3> QED
      BY <3>1, FS_EmptySet
  <2>2. CASE T # {}
    <3>1. PICK x \in T : TRUE
      BY <2>2
    <3>2. IsFiniteSet(Image(T \ {x}))
      BY <1>1, <3>1
    <3>3. Image(T) = Image(T \ {x}) \cup {Ticked(x)}
      BY <3>1
    <3> HIDE DEF Image
    <3>4. IsFiniteSet(Image(T \ {x}) \cup {Ticked(x)})
      BY <3>2, FS_AddElement, Zenon
    <3>5. IsFiniteSet(Image(T))
      BY <3>3, <3>4
    <3> QED
      BY <3>5
  <2> QED
    BY <2>1, <2>2
<1> HIDE DEF G
<1>2. S \in G
  BY <1>1, SetOfSubsets DEF G
<1> QED
  BY <1>2 DEF G

\* Bringing every timer of a finite bag forward leaves a finite bag.
LEMMA TickedBag ==
    ASSUME NEW bag, IsABag(bag), IsFiniteSet(DOMAIN bag)
    PROVE  LET new == BagOfAll(LAMBDA w : [w EXCEPT !.left = Earlier(@)], bag)
           IN  IsABag(new) /\ IsFiniteSet(DOMAIN new)
<1> DEFINE new == BagOfAll(LAMBDA w : [w EXCEPT !.left = Earlier(@)], bag)
           image == {Ticked(w) : w \in DOMAIN bag}
<1>1. new = [e \in image |-> SumOver(Becoming(bag, e), DOMAIN bag)]
  <2>1. \A e : DOMAIN Becoming(bag, e) = DOMAIN bag
    BY DEF Becoming
  <2> QED
    BY <2>1 DEF BagOfAll, BagToSet, SumOver, Partial, Part, Becoming, Ticked
<1>2. \A w \in DOMAIN bag : bag[w] \in Nat /\ bag[w] > 0
  BY DEF IsABag
<1>3. ASSUME NEW e \in image
      PROVE  SumOver(Becoming(bag, e), DOMAIN bag) \in {n \in Nat : n > 0}
  <2> DEFINE f == Becoming(bag, e)
  <2>1. PICK w \in DOMAIN bag : e = Ticked(w)
    OBVIOUS
  <2>2. \A v \in DOMAIN bag : f[v] \in Nat
    BY <1>2 DEF Becoming
  <2>3. f[w] = bag[w]
    BY <2>1 DEF Becoming
  <2> HIDE DEF f
  <2>4. SumOver(f, DOMAIN bag) = f[w] + SumOver(f, DOMAIN bag \ {w})
    BY <2>2, SumRemove
  <2>5. SumOver(f, DOMAIN bag \ {w}) \in Nat
    BY <2>2, SumType
  <2> QED
    BY <1>2, <2>3, <2>4, <2>5 DEF f
<1>4. IsFiniteSet(image)
  BY TickedFinite
<1> HIDE DEF new
<1>5. DOMAIN new = image /\ IsABag(new)
  BY <1>1, <1>3 DEF IsABag
<1> QED
  BY <1>4, <1>5 DEF new

\* What the types need besides Carried: the bags are bags and the timers are finitely
\* many, or nothing could be said of the bag that a tick makes of them.
Bagged ==
    /\ IsABag(air)
    /\ IsABag(waiting) /\ IsFiniteSet(BagToSet(waiting))
    /\ chunksLeft \in [Msg -> 0 .. Chunks - 1]
    /\ faults \in 0 .. MaxFaults

\* What a device writes is a bag.
LEMMA WrittenBag ==
    /\ \A m, kind, n, targets, ttl : IsABag(Written(m, kind, n, targets, ttl))
    /\ \A p : IsABag(Forwarded(p))
<1>1. ASSUME NEW m, NEW kind, NEW n, NEW targets, NEW ttl
      PROVE  IsABag(Written(m, kind, n, targets, ttl))
  BY BagTypes DEF Written
<1>2. ASSUME NEW p PROVE IsABag(Forwarded(p))
  <2>1. IsABag(EmptyBag)
    BY BagTypes
  <2> QED
    BY <1>1, <2>1 DEF Forwarded
<1> QED
  BY <1>1, <1>2

LEMMA BaggedInit == Init => Bagged
<1> SUFFICES ASSUME Init PROVE Bagged
  OBVIOUS
<1>1. IsABag(EmptyBag) /\ BagToSet(EmptyBag) = {}
  BY BagTypes, BagMembers
<1>2. IsFiniteSet({})
  BY FS_EmptySet
<1> QED
  BY <1>1, <1>2, GossipAssumption DEF Init, Bagged

LEMMA BaggedNext == Bagged /\ Carried /\ [Next]_vars => Bagged'
<1> SUFFICES ASSUME Bagged, Carried, [Next]_vars PROVE Bagged'
  OBVIOUS
<1> USE GossipAssumption
<1>1. ASSUME NEW m \in Msg, Publish(m) \/ PublishChunk(m) PROVE Bagged'
  <2>1. PICK k \in {"chunk", "message"}, ttl \in 0 .. DefaultTtl :
            air' = air (+) Written(m, k, Origin[m], Connected(Origin[m]), ttl)
    <3>1. CASE Publish(m)
      BY <3>1 DEF Publish
    <3>2. CASE PublishChunk(m)
      BY <3>2 DEF PublishChunk
    <3> QED
      BY <1>1, <3>1, <3>2
  <2>2. IsABag(air')
    <3> DEFINE new == Written(m, k, Origin[m], Connected(Origin[m]), ttl)
    <3>1. IsABag(new)
      BY WrittenBag
    <3> HIDE DEF new
    <3> QED
      BY <2>1, <3>1, BagTypes DEF Bagged, new
  <2>3. chunksLeft' \in [Msg -> 0 .. Chunks - 1] /\ UNCHANGED <<waiting, faults>>
    <3>1. CASE Publish(m)
      BY <3>1 DEF Publish, Bagged
    <3>2. CASE PublishChunk(m)
      BY <3>2 DEF PublishChunk, Bagged
    <3> QED
      BY <1>1, <3>1, <3>2
  <2> QED
    BY <2>2, <2>3 DEF Bagged
<1>2. ASSUME NEW p \in BagToSet(air), Drop(p) \/ Lose(p) PROVE Bagged'
  <2>1. air' = air (-) SetToBag({p}) /\ UNCHANGED <<waiting, chunksLeft>>
    BY <1>2 DEF Drop, Lose
  <2>2. faults' \in 0 .. MaxFaults
    BY <1>2 DEF Drop, Lose, Fault, Bagged
  <2>3. IsABag(air')
    BY <2>1, BagTypes DEF Bagged
  <2> QED
    BY <2>1, <2>2, <2>3 DEF Bagged
<1>3. ASSUME NEW p \in BagToSet(air), Accept(p) PROVE Bagged'
  <2> DEFINE w == [packet |-> p, left |-> window[p.to]]
             one == SetToBag({w})
             rest == air (-) SetToBag({p})
             more == Forwarded(p)
  <2>1. UNCHANGED <<chunksLeft, faults>>
    BY <1>3 DEF Accept
  <2>2. IsABag(rest) /\ IsABag(one) /\ IsABag(more)
    BY BagTypes, WrittenBag DEF Bagged
  <2>3. BagToSet(one) = {w}
    BY BagMembers
  <2>4. CASE window[p.to] > 0
    <3>1. waiting' = waiting (+) one /\ air' = rest
      BY <1>3, <2>4 DEF Accept
    <3> HIDE DEF one, rest, more
    <3>2. BagToSet(waiting') = BagToSet(waiting) \cup BagToSet(one)
      BY <3>1, BagMembers
    <3>3. IsFiniteSet(BagToSet(waiting'))
      <4>1. IsFiniteSet(BagToSet(waiting) \cup {w})
        BY FS_AddElement, Zenon DEF Bagged
      <4> QED
        BY <2>3, <3>2, <4>1
    <3>4. IsABag(waiting')
      BY <2>2, <3>1, BagTypes DEF Bagged
    <3> QED
      BY <2>1, <2>2, <3>1, <3>3, <3>4 DEF Bagged
  <2>5. CASE ~(window[p.to] > 0)
    <3>1. waiting' = waiting /\ air' = rest (+) more
      BY <1>3, <2>5 DEF Accept
    <3> HIDE DEF one, rest, more
    <3>2. IsABag(air')
      BY <2>2, <3>1, BagTypes
    <3> QED
      BY <2>1, <3>1, <3>2 DEF Bagged
  <2> QED
    BY <2>4, <2>5
<1>4. ASSUME NEW w \in BagToSet(waiting), Resume(w) PROVE Bagged'
  <2> DEFINE more == Forwarded(w.packet)
  <2>1. /\ waiting' = waiting (-) SetToBag({w})
        /\ air' = air (+) more
        /\ UNCHANGED <<chunksLeft, faults>>
    BY <1>4 DEF Resume
  <2>2. IsABag(more) /\ IsABag(waiting')
    BY <2>1, BagTypes, WrittenBag DEF Bagged
  <2> HIDE DEF more
  <2>3. IsABag(air')
    BY <2>1, <2>2, BagTypes DEF Bagged
  <2>4. BagToSet(waiting') \subseteq BagToSet(waiting)
    BY <2>1, BagMembers
  <2>5. IsFiniteSet(BagToSet(waiting'))
    BY <2>4, FS_Subset DEF Bagged
  <2> QED
    BY <2>1, <2>2, <2>3, <2>5 DEF Bagged
<1>5. ASSUME Tick PROVE Bagged'
  <2>1. /\ waiting' = BagOfAll(LAMBDA w : [w EXCEPT !.left = Earlier(@)], waiting)
        /\ UNCHANGED <<air, chunksLeft, faults>>
    BY <1>5 DEF Tick
  <2>2. IsABag(waiting) /\ IsFiniteSet(DOMAIN waiting)
    BY DEF Bagged, BagToSet
  <2>3. IsABag(waiting') /\ IsFiniteSet(DOMAIN waiting')
    BY <2>1, <2>2, TickedBag
  <2> QED
    BY <2>1, <2>3 DEF Bagged, BagToSet
<1>6. ASSUME NEW l \in Links, LinkDown(l) \/ LinkUp(l) PROVE Bagged'
  <2>1. UNCHANGED <<air, waiting, chunksLeft>> /\ faults' \in 0 .. MaxFaults
    BY <1>6 DEF LinkDown, LinkUp, Fault, Bagged
  <2> QED
    BY <2>1 DEF Bagged
<1>7. ASSUME NEW n \in Node, ClearSeenCache(n) PROVE Bagged'
  <2>1. UNCHANGED <<air, waiting, chunksLeft>> /\ faults' \in 0 .. MaxFaults
    BY <1>7 DEF ClearSeenCache, Fault, Bagged
  <2> QED
    BY <2>1 DEF Bagged
<1>8. CASE UNCHANGED vars
  BY <1>8 DEF vars, Bagged
<1> QED
  BY <1>1, <1>2, <1>3, <1>4, <1>5, <1>6, <1>7, <1>8 DEF Next, Receive

\* The seen cache never grows over its limit, no message has more chunks left than it
\* has chunks, and no timer more than the rate limit, whatever the devices forget
\* and however often the mesh is cut.
THEOREM TypeCorrect == Spec => []TypeOK
<1>1. Init => Bagged /\ Carried
  BY BaggedInit, CarriedInit
<1>2. Bagged /\ Carried /\ [Next]_vars => Bagged' /\ Carried'
  BY BaggedNext, CarriedNext
<1>3. Bagged /\ Carried => TypeOK
  BY DEF Bagged, Carried, TypeOK
<1> QED
  BY <1>1, <1>2, <1>3, PTL DEF Spec
-----------------------------------------------------------------------------
(* The refinement *)

\* The messages of n's seen cache; KeepsPromise maps Mesh's remembered to it.
Known(n) == {m \in Msg : <<m, "message">> \in ToSet(seen[n])}
Remembered == [n \in Node |-> Known(n)]

\* A step that puts one id into one seen cache is a step of Mesh's memory.
LEMMA OneRemembers ==
    ASSUME Carried, NEW n \in Node, NEW id \in Ids,
           seen' = [seen EXCEPT ![n] = Remember(n, id)]
    PROVE  /\ \A m \in Msg : id = <<m, "message">> =>
                 \E kept \in SUBSET Known(n) :
                     Remembered' = [Remembered EXCEPT ![n] = kept \cup {m}]
           /\ id[2] = "chunks" =>
                 \E kept \in SUBSET Known(n) :
                     Remembered' = [Remembered EXCEPT ![n] = kept]
<1>1. /\ seen'[n] = Remember(n, id)
      /\ \A k \in Node \ {n} : seen'[k] = seen[k]
  BY DEF Carried
<1>2. /\ id \in ToSet(seen'[n])
      /\ ToSet(seen'[n]) \subseteq ToSet(seen[n]) \cup {id}
  BY <1>1, RememberType
<1>3. Remembered' = [Remembered EXCEPT ![n] = Known(n)']
  BY <1>1 DEF Remembered, Known
<1>4. ASSUME NEW m \in Msg, id = <<m, "message">>
      PROVE  \E kept \in SUBSET Known(n) :
                 Remembered' = [Remembered EXCEPT ![n] = kept \cup {m}]
  <2>1. Known(n)' = (Known(n)' \ {m}) \cup {m}
    BY <1>2, <1>4 DEF Known
  <2>2. Known(n)' \ {m} \in SUBSET Known(n)
    BY <1>2, <1>4 DEF Known
  <2> QED
    BY <1>3, <2>1, <2>2
<1>5. ASSUME id[2] = "chunks"
      PROVE  \E kept \in SUBSET Known(n) :
                 Remembered' = [Remembered EXCEPT ![n] = kept]
  <2>1. \A m \in Msg : <<m, "message">> # id
    BY <1>5
  <2>2. Known(n)' \in SUBSET Known(n)
    BY <1>2, <2>1 DEF Known
  <2> QED
    BY <1>3, <2>2
<1> QED
  BY <1>4, <1>5

LEMMA InitKeepsPromise == Init => Promise!Init
<1> SUFFICES ASSUME Init PROVE Promise!Init
  OBVIOUS
<1>1. \A n \in Node : ToSet(seen[n]) = {}
  BY DEF Init, ToSet
<1>2. \A n \in Node : {m \in Msg : <<m, "message">> \in ToSet(seen[n])} = {}
  BY <1>1
<1> QED
  BY <1>2 DEF Init, Promise!Init

\* Every step of the protocol is a step of Mesh or leaves what Mesh sees alone.
LEMMA StepKeepsPromise == Carried /\ [Next]_vars => [Promise!Next]_Promise!vars
<1> SUFFICES ASSUME Carried, [Next]_vars PROVE [Promise!Next]_Promise!vars
  OBVIOUS
<1> USE GossipAssumption
<1>0. ASSUME UNCHANGED <<seen, published, handled>> PROVE UNCHANGED Promise!vars
  BY <1>0 DEF Promise!vars
<1>1. ASSUME NEW m \in Msg, Publish(m) PROVE Promise!Publish(m)
  <2>1. Origin[m] \in Node /\ <<m, "message">> \in Ids
    BY DEF Ids
  <2>2. /\ m \notin published /\ published' = published \cup {m}
        /\ seen' = [seen EXCEPT ![Origin[m]] = Remember(Origin[m], <<m, "message">>)]
        /\ UNCHANGED handled
    BY <1>1 DEF Publish
  <2>3. \E kept \in SUBSET Known(Origin[m]) :
            Remembered' = [Remembered EXCEPT ![Origin[m]] = kept \cup {m}]
    BY <2>1, <2>2, OneRemembers
  <2>4. Promise!Remembers(Origin[m], m)
    BY <2>1, <2>3 DEF Promise!Remembers, Remembered, Known
  <2> QED
    BY <2>2, <2>4 DEF Promise!Publish
<1>2. ASSUME NEW p \in BagToSet(air), Accept(p), p.kind = "message"
      PROVE  Promise!Handle(p.to, p.msg)
  <2>1. p.to \in Node /\ p.msg \in Msg /\ p.msg \in published /\ IdOf(p) \in Ids
    BY DEF Carried, Packets, IdOf, Ids
  <2>2. IdOf(p) = <<p.msg, "message">>
    BY <1>2 DEF IdOf
  <2>3. /\ ~HasSeen(p)
        /\ seen' = [seen EXCEPT ![p.to] = Remember(p.to, IdOf(p))]
        /\ handled' = [handled EXCEPT ![p.to][p.msg] = @ + 1]
        /\ UNCHANGED published
    BY <1>2 DEF Accept
  <2>4. \E kept \in SUBSET Known(p.to) :
            Remembered' = [Remembered EXCEPT ![p.to] = kept \cup {p.msg}]
    BY <2>1, <2>2, <2>3, OneRemembers
  <2>5. Promise!Remembers(p.to, p.msg)
    BY <2>1, <2>4 DEF Promise!Remembers, Remembered, Known
  <2>6. p.msg \in published \ [n \in Node |->
            {m \in Msg : <<m, "message">> \in ToSet(seen[n])}][p.to]
    BY <2>1, <2>2, <2>3 DEF HasSeen
  <2> QED
    BY <2>3, <2>5, <2>6 DEF Promise!Handle
<1>3. ASSUME NEW p \in BagToSet(air), Accept(p), p.kind # "message"
      PROVE  p.to \in Node /\ Promise!Forget(p.to)
  <2>1. p.to \in Node /\ IdOf(p) \in Ids /\ IdOf(p)[2] = "chunks"
    BY <1>3 DEF Carried, Packets, IdOf, Ids
  <2>2. /\ seen' = [seen EXCEPT ![p.to] = Remember(p.to, IdOf(p))]
        /\ UNCHANGED <<handled, published>>
    BY <1>3 DEF Accept
  <2>3. \E kept \in SUBSET Known(p.to) :
            Remembered' = [Remembered EXCEPT ![p.to] = kept]
    BY <2>1, <2>2, OneRemembers
  <2> QED
    BY <2>1, <2>2, <2>3 DEF Promise!Forget, Remembered, Known
<1>4. ASSUME NEW n \in Node, ClearSeenCache(n) PROVE Promise!Forget(n)
  <2>1. /\ seen' = [seen EXCEPT ![n] = <<>>]
        /\ UNCHANGED <<published, handled>>
    BY <1>4 DEF ClearSeenCache
  <2>2. /\ Known(n)' = {}
        /\ \A k \in Node \ {n} : Known(k)' = Known(k)
    <3>1. seen'[n] = <<>> /\ \A k \in Node \ {n} : seen'[k] = seen[k]
      BY <2>1 DEF Carried
    <3>2. ToSet(seen'[n]) = {}
      BY <3>1 DEF ToSet
    <3> QED
      BY <3>1, <3>2 DEF Known
  <2>3. Remembered' = [Remembered EXCEPT ![n] = {}] /\ {} \in SUBSET Known(n)
    BY <2>2 DEF Remembered
  <2>4. \E kept \in SUBSET Known(n) : Remembered' = [Remembered EXCEPT ![n] = kept]
    BY <2>3
  <2> QED
    BY <2>1, <2>4 DEF Promise!Forget, Remembered, Known
<1>5. ASSUME NEW m \in Msg, PublishChunk(m) PROVE UNCHANGED Promise!vars
  BY <1>0, <1>5 DEF PublishChunk
<1>6. ASSUME NEW p \in BagToSet(air), Drop(p) \/ Lose(p) PROVE UNCHANGED Promise!vars
  BY <1>0, <1>6 DEF Drop, Lose
<1>7. ASSUME NEW w \in BagToSet(waiting), Resume(w) PROVE UNCHANGED Promise!vars
  BY <1>0, <1>7 DEF Resume
<1>8. ASSUME Tick PROVE UNCHANGED Promise!vars
  BY <1>0, <1>8 DEF Tick
<1>9. ASSUME NEW l \in Links, LinkDown(l) \/ LinkUp(l) PROVE UNCHANGED Promise!vars
  BY <1>0, <1>9 DEF LinkDown, LinkUp
<1>10. ASSUME UNCHANGED vars PROVE UNCHANGED Promise!vars
  BY <1>0, <1>10 DEF vars
<1>11. ASSUME NEW p \in BagToSet(air), Accept(p) PROVE Promise!Next
  <2>1. p.msg \in Msg /\ p.to \in Node
    BY DEF Carried, Packets
  <2> QED
    BY <1>2, <1>3, <1>11, <2>1 DEF Promise!Next
<1> QED
  BY <1>1, <1>4, <1>5, <1>6, <1>7, <1>8, <1>9, <1>10, <1>11
  DEF Next, Receive, Promise!Next

\* GossipProtocol implements Mesh (GossipProtocol.ts:65-93): for any devices and
\* topology no handler is called for a message that was not published or that the
\* device still remembers, whatever is lost, duplicated, delayed or forgotten.
THEOREM Refinement == Spec => KeepsPromise
<1>1. Init => Promise!Init
  BY InitKeepsPromise
<1>2. Carried /\ [Next]_vars => [Promise!Next]_Promise!vars
  BY StepKeepsPromise
<1> QED
  BY <1>1, <1>2, CarriedAlways, PTL DEF Spec, KeepsPromise, Promise!Spec

-----------------------------------------------------------------------------
(* Sums and numbers of members *)

\* Parts of a finite set that have no member in common have no more members together
\* than the set.
LEMMA SumOfParts ==
    ASSUME NEW S, IsFiniteSet(S), NEW D, IsFiniteSet(D), NEW f, NEW part,
           \A x \in S : f[x] \in Nat /\ part[x] \subseteq D /\ f[x] <= Cardinality(part[x]),
           \A x, y \in S : x # y => part[x] \cap part[y] = {}
    PROVE  SumOver(f, S) <= Cardinality(D)
<1> DEFINE All(T) == UNION {part[x] : x \in T}
           G == {T \in SUBSET S : SumOver(f, T) <= Cardinality(All(T))}
<1>0. ASSUME NEW T \in SUBSET S PROVE All(T) \subseteq D /\ IsFiniteSet(All(T))
  <2>1. All(T) \in SUBSET D
    OBVIOUS
  <2> HIDE DEF All
  <2> QED
    BY <2>1, FS_Subset, Zenon
<1>1. ASSUME NEW T \in SUBSET S, \A x \in T : T \ {x} \in G PROVE T \in G
  <2>1. CASE T = {}
    <3>1. SumOver(f, T) = 0
      BY <2>1, SumEmpty
    <3>2. Cardinality(All(T)) \in Nat
      BY <1>0, FS_CardinalityType, Zenon
    <3> HIDE DEF All
    <3> QED
      BY <3>1, <3>2
  <2>2. CASE T # {}
    <3>1. PICK x \in T : TRUE
      BY <2>2
    <3> DEFINE R == T \ {x}
    <3>2. IsFiniteSet(T) /\ \A y \in T : f[y] \in Nat
      BY FS_Subset
    <3>3. SumOver(f, T) = f[x] + SumOver(f, R)
      BY <3>1, <3>2, SumRemove
    <3>4. SumOver(f, R) <= Cardinality(All(R)) /\ R \in SUBSET S
      BY <1>1, <3>1
    <3>5. /\ All(T) = part[x] \cup All(R)
          /\ part[x] \cap All(R) = {}
      BY <3>1
    <3>6. part[x] \in SUBSET D /\ f[x] \in Nat /\ f[x] <= Cardinality(part[x])
      BY <3>1
    <3>7. SumOver(f, R) \in Nat
      BY <3>4, SumType
    <3> HIDE DEF All, R
    <3>8. IsFiniteSet(part[x]) /\ IsFiniteSet(All(R))
      BY <1>0, <3>4, <3>6, FS_Subset, Zenon
    <3>9. Cardinality(part[x] \cup All(R))
              = Cardinality(part[x]) + Cardinality(All(R)) - Cardinality(part[x] \cap All(R))
      BY <3>8, FS_Union, Zenon
    <3>10. /\ Cardinality(part[x]) \in Nat /\ Cardinality(All(R)) \in Nat
           /\ Cardinality(part[x] \cap All(R)) = 0
      <4>1. Cardinality(part[x]) \in Nat /\ Cardinality(All(R)) \in Nat
        BY <3>8, FS_CardinalityType, Zenon
      <4>2. Cardinality(part[x] \cap All(R)) = 0
        BY <3>5, FS_EmptySet, Zenon
      <4> QED
        BY <4>1, <4>2
    <3>11. Cardinality(All(T)) = Cardinality(part[x]) + Cardinality(All(R))
      BY <3>5, <3>9, <3>10
    <3> QED
      BY <3>3, <3>4, <3>6, <3>7, <3>10, <3>11
  <2> QED
    BY <2>1, <2>2
<1> HIDE DEF G
<1>2. S \in G
  BY <1>1, SetOfSubsets DEF G
<1>3. SumOver(f, S) <= Cardinality(All(S))
  BY <1>2 DEF G
<1>4. All(S) \in SUBSET D
  BY <1>0
<1> HIDE DEF All
<1>5. Cardinality(All(S)) <= Cardinality(D)
  BY <1>4, FS_Subset, Zenon
<1>6. Cardinality(All(S)) \in Nat /\ Cardinality(D) \in Nat
  BY <1>4, FS_Subset, FS_CardinalityType, Zenon
<1>7. SumOver(f, S) \in Nat
  BY SumType
<1> QED
  BY <1>3, <1>5, <1>6, <1>7

\* A union of finitely many finite sets has no more members than they have one by one.
LEMMA SumOfCover ==
    ASSUME NEW S, IsFiniteSet(S), NEW part, NEW f,
           \A x \in S : IsFiniteSet(part[x]) /\ f[x] = Cardinality(part[x])
    PROVE  /\ IsFiniteSet(UNION {part[x] : x \in S})
           /\ Cardinality(UNION {part[x] : x \in S}) <= SumOver(f, S)
<1> DEFINE All(T) == UNION {part[x] : x \in T}
           G == {T \in SUBSET S : /\ IsFiniteSet(All(T))
                                /\ Cardinality(All(T)) <= SumOver(f, T)}
<1>1. ASSUME NEW T \in SUBSET S, \A x \in T : T \ {x} \in G PROVE T \in G
  <2>1. CASE T = {}
    <3>1. SumOver(f, T) = 0
      BY <2>1, SumEmpty
    <3>2. All(T) = {}
      BY <2>1
    <3> HIDE DEF All
    <3>3. IsFiniteSet(All(T)) /\ Cardinality(All(T)) = 0
      BY <3>2, FS_EmptySet, Zenon
    <3> QED
      BY <3>1, <3>3
  <2>2. CASE T # {}
    <3>1. PICK x \in T : TRUE
      BY <2>2
    <3> DEFINE R == T \ {x}
    <3>2. \A y \in S : f[y] \in Nat
      BY FS_CardinalityType
    <3>3. SumOver(f, T) = f[x] + SumOver(f, R)
      BY <3>1, <3>2, FS_Subset, SumRemove
    <3>4. IsFiniteSet(All(R)) /\ Cardinality(All(R)) <= SumOver(f, R) /\ R \in SUBSET S
      BY <1>1, <3>1
    <3>5. All(T) = part[x] \cup All(R)
      BY <3>1
    <3>6. IsFiniteSet(part[x]) /\ f[x] = Cardinality(part[x]) /\ f[x] \in Nat
      BY <3>1, <3>2
    <3>7. SumOver(f, R) \in Nat
      BY <3>2, <3>4, SumType
    <3> HIDE DEF All, R
    <3>8. /\ IsFiniteSet(part[x] \cup All(R))
          /\ Cardinality(part[x] \cup All(R))
               = Cardinality(part[x]) + Cardinality(All(R)) - Cardinality(part[x] \cap All(R))
      BY <3>4, <3>6, FS_Union, Zenon
    <3>9. part[x] \cap All(R) \in SUBSET part[x]
      OBVIOUS
    <3>10. Cardinality(All(R)) \in Nat /\ Cardinality(part[x] \cap All(R)) \in Nat
      BY <3>4, <3>6, <3>9, FS_Subset, FS_CardinalityType, Zenon
    <3>11. Cardinality(part[x] \cup All(R)) <= f[x] + SumOver(f, R)
      BY <3>4, <3>6, <3>7, <3>8, <3>10
    <3>12. T \in SUBSET S /\ IsFiniteSet(All(T)) /\ Cardinality(All(T)) <= SumOver(f, T)
      BY <3>3, <3>5, <3>8, <3>11
    <3> QED
      BY <3>12
  <2> QED
    BY <2>1, <2>2
<1> HIDE DEF G
<1>2. S \in G
  BY <1>1, SetOfSubsets DEF G
<1> QED
  BY <1>2 DEF G

-----------------------------------------------------------------------------
(* Copies in a bag *)

Copies(e, bag) == IF e \in DOMAIN bag THEN bag[e] ELSE 0

\* The copies in a set turned into a bag: one of each member.
LEMMA CopiesOfSet ==
    ASSUME NEW S, NEW e
    PROVE  Copies(e, SetToBag(S)) = IF e \in S THEN 1 ELSE 0
BY DEF Copies, SetToBag

\* A bag holds a number of copies, more than none of its members.
LEMMA CopiesType ==
    ASSUME NEW A, IsABag(A), NEW e
    PROVE  /\ Copies(e, A) \in Nat
           /\ BagIn(e, A) <=> Copies(e, A) > 0
           /\ Copies(e, EmptyBag) = 0
BY DEF Copies, BagIn, BagToSet, IsABag, EmptyBag, SetToBag

\* The copies of two bags put together.
LEMMA CopiesPlus ==
    ASSUME NEW A, NEW B, IsABag(A), IsABag(B), NEW e
    PROVE  Copies(e, A (+) B) = Copies(e, A) + Copies(e, B)
<1>1. /\ \A x \in DOMAIN A : A[x] \in Nat
      /\ \A x \in DOMAIN B : B[x] \in Nat
  BY DEF IsABag
<1> QED
  BY <1>1 DEF Copies, BagIn, BagToSet, (+)

\* One copy taken out.
LEMMA CopiesMinus ==
    ASSUME NEW A, IsABag(A), NEW q, BagIn(q, A), NEW e
    PROVE  Copies(e, A (-) SetToBag({q})) = Copies(e, A) - (IF e = q THEN 1 ELSE 0)
<1>1. \A x \in DOMAIN A : A[x] \in Nat /\ A[x] > 0
  BY DEF IsABag
<1>2. q \in DOMAIN A
  BY DEF BagIn, BagToSet
<1> DEFINE g == [x \in DOMAIN A |-> IF x = q THEN A[x] - 1 ELSE A[x]]
           D == {x \in DOMAIN A : g[x] > 0}
<1>3. A (-) SetToBag({q}) = [x \in D |-> g[x]]
  <2>1. \A x : x \in DOMAIN SetToBag({q}) <=> x = q
    BY DEF SetToBag
  <2>2. SetToBag({q})[q] = 1
    BY DEF SetToBag
  <2>3. g = [x \in DOMAIN A |->
               IF x \in DOMAIN SetToBag({q}) THEN A[x] - SetToBag({q})[x] ELSE A[x]]
    BY <2>1, <2>2
  <2>4. A (-) SetToBag({q}) = [x \in {d \in DOMAIN A : g[d] > 0} |-> g[x]]
    BY <2>3 DEF (-)
  <2> QED
    BY <2>4
<1> DEFINE R == A (-) SetToBag({q})
<1>4. DOMAIN R = D /\ \A x \in D : R[x] = g[x]
  BY <1>3
<1>5. \A x \in DOMAIN A : g[x] = A[x] - (IF x = q THEN 1 ELSE 0)
  BY <1>1
<1>6. \A x : x \in D <=> x \in DOMAIN A /\ g[x] > 0
  OBVIOUS
<1> HIDE DEF D, R, g
<1>7. Copies(e, R) = Copies(e, A) - (IF e = q THEN 1 ELSE 0)
  <2>1. CASE e \in DOMAIN A
    BY <1>1, <1>4, <1>5, <1>6, <2>1 DEF Copies
  <2>2. CASE e \notin DOMAIN A
    BY <1>2, <1>4, <1>6, <2>2 DEF Copies
  <2> QED
    BY <2>1, <2>2
<1> QED
  BY <1>7 DEF R

-----------------------------------------------------------------------------
(* Ways *)

Hops(w) == Cardinality(DOMAIN w) - 1
Cut(w) == [i \in 0 .. Hops(w) - 1 |-> w[i]]
Longer(w, u) == [i \in 0 .. Hops(w) + 1 |-> IF i = Hops(w) + 1 THEN u ELSE w[i]]

\* All ways of a message, and the packet that makes the last hop of one.
Trips(m) == UNION {Ways(m, k) : k \in 1 .. DefaultTtl}
HopOn(m, w) == [msg |-> m, kind |-> "message", from |-> w[Hops(w) - 1], to |-> w[Hops(w)],
                ttl |-> DefaultTtl - Hops(w) + 1]

\* A way has the hops it is a way of.
LEMMA WayHops ==
    ASSUME NEW m, NEW k \in Nat, NEW w \in Ways(m, k)
    PROVE  Hops(w) = k /\ w \in [0 .. k -> Node]
<1>1. w \in [0 .. k -> Node] /\ DOMAIN w = 0 .. k
  BY DEF Ways
<1>2. Cardinality(0 .. k) = k + 1
  <2>1. Cardinality(0 .. k) = IF 0 > k THEN 0 ELSE k - 0 + 1
    BY FS_Interval
  <2> QED
    BY <2>1
<1> QED
  BY <1>1, <1>2 DEF Hops

\* A message's way has from one to DefaultTtl hops.
LEMMA TripHops ==
    ASSUME NEW m, NEW w \in Trips(m)
    PROVE  /\ Hops(w) \in 1 .. DefaultTtl /\ w \in Ways(m, Hops(w))
           /\ w \in [0 .. Hops(w) -> Node]
<1>1. PICK k \in 1 .. DefaultTtl : w \in Ways(m, k)
  BY DEF Trips
<1>2. k \in Nat
  BY GossipAssumption
<1>3. Hops(w) = k /\ w \in [0 .. k -> Node]
  BY <1>1, <1>2, WayHops
<1> QED
  BY <1>1, <1>3

\* The ways of one hop.
LEMMA FirstHop ==
    ASSUME NEW m \in Msg, NEW u \in Node, <<Origin[m], u>> \in Links
    PROVE  \E w \in Trips(m) :
              /\ Hops(w) = 1
              /\ HopOn(m, w) = [msg |-> m, kind |-> "message", from |-> Origin[m], to |-> u,
                                ttl |-> DefaultTtl]
<1> DEFINE w == [i \in 0 .. 1 |-> IF i = 0 THEN Origin[m] ELSE u]
<1>1. Origin[m] \in Node /\ DefaultTtl \in Nat /\ 1 \in 1 .. DefaultTtl
  BY GossipAssumption
<1>2. /\ w \in [0 .. 1 -> Node] /\ w[0] = Origin[m] /\ w[1] = u
  BY <1>1
<1> HIDE DEF w
<1>3. w \in Ways(m, 1)
  BY <1>1, <1>2 DEF Ways
<1>4. Hops(w) = 1 /\ w \in Trips(m)
  BY <1>1, <1>3, WayHops DEF Trips
<1> QED
  BY <1>1, <1>2, <1>4 DEF HopOn

\* One hop more, to a device that is not the one before.
LEMMA NextHop ==
    ASSUME NEW m \in Msg, NEW w \in Trips(m), Hops(w) < DefaultTtl,
           NEW u \in Node, <<w[Hops(w)], u>> \in Links, u # w[Hops(w) - 1]
    PROVE  LET v == Longer(w, u)
           IN  /\ v \in Trips(m) /\ Hops(v) = Hops(w) + 1 /\ Cut(v) = w
               /\ HopOn(m, v) = [msg |-> m, kind |-> "message", from |-> w[Hops(w)], to |-> u,
                                 ttl |-> DefaultTtl - Hops(w)]
<1> DEFINE k == Hops(w)
           v == Longer(w, u)
<1>1. k \in 1 .. DefaultTtl /\ w \in Ways(m, k) /\ w \in [0 .. k -> Node] /\ k \in Nat
      /\ DefaultTtl \in Nat /\ k < DefaultTtl
  BY TripHops, GossipAssumption
<1>2. v = [i \in 0 .. k + 1 |-> IF i = k + 1 THEN u ELSE w[i]]
  BY DEF Longer
<1>2a. <<w[k], u>> \in Links /\ u # w[k - 1]
  OBVIOUS
<1> HIDE DEF k, v
<1>3. /\ v \in [0 .. k + 1 -> Node] /\ v[k + 1] = u
      /\ \A i \in 0 .. k : v[i] = w[i]
  BY <1>1, <1>2
<1>4. v \in Ways(m, k + 1)
  <2>1. v[0] = Origin[m]
    BY <1>1, <1>3 DEF Ways
  <2>2. ASSUME NEW i \in 1 .. k + 1 PROVE <<v[i - 1], v[i]>> \in Links
    <3>1. CASE i = k + 1
      <4>1. v[i - 1] = w[k] /\ v[i] = u
        BY <1>1, <1>3, <3>1
      <4> QED
        BY <1>2a, <4>1
    <3>2. CASE i # k + 1
      <4>1. i \in 1 .. k /\ v[i - 1] = w[i - 1] /\ v[i] = w[i]
        BY <1>1, <1>3, <3>2
      <4> QED
        BY <1>1, <4>1 DEF Ways
    <3> QED
      BY <3>1, <3>2
  <2>3. ASSUME NEW i \in 2 .. k + 1 PROVE v[i] # v[i - 2]
    <3>1. CASE i = k + 1
      <4>1. v[i - 2] = w[k - 1] /\ v[i] = u
        BY <1>1, <1>3, <3>1
      <4> QED
        BY <1>2a, <4>1
    <3>2. CASE i # k + 1
      <4>1. i \in 2 .. k /\ v[i - 2] = w[i - 2] /\ v[i] = w[i]
        BY <1>1, <1>3, <3>2
      <4> QED
        BY <1>1, <4>1 DEF Ways
    <3> QED
      BY <3>1, <3>2
  <2> QED
    BY <1>3, <2>1, <2>2, <2>3 DEF Ways
<1>5. Hops(v) = k + 1 /\ v \in Trips(m)
  <2>1. k + 1 \in Nat /\ k + 1 \in 1 .. DefaultTtl
    BY <1>1
  <2>2. Hops(v) = k + 1
    BY <1>4, <2>1, WayHops
  <2> QED
    BY <1>4, <2>1, <2>2 DEF Trips
<1>6. Cut(v) = w
  <2>1. Cut(v) = [i \in 0 .. k |-> v[i]]
    BY <1>1, <1>5 DEF Cut
  <2>2. w = [i \in 0 .. k |-> w[i]]
    BY <1>1
  <2> QED
    BY <1>3, <2>1, <2>2
<1>7. HopOn(m, v) = [msg |-> m, kind |-> "message", from |-> w[k], to |-> u,
                     ttl |-> DefaultTtl - k]
  <2>1. /\ v[Hops(v) - 1] = w[k] /\ v[Hops(v)] = u
        /\ DefaultTtl - Hops(v) + 1 = DefaultTtl - k
    BY <1>1, <1>3, <1>5
  <2> QED
    BY <2>1 DEF HopOn
<1> QED
  BY <1>5, <1>6, <1>7 DEF k, v

\* There are finitely many ways, and no more than there are of each length together.
LEMMA WaysFinite ==
    ASSUME NEW m \in Msg, NEW k \in Nat
    PROVE  IsFiniteSet(Ways(m, k))
<1> DEFINE H == {n \in Nat : IsFiniteSet(Ways(m, n))}
<1>1. 0 \in H
  <2> DEFINE o == [i \in 0 .. 0 |-> Origin[m]]
  <2>1. Ways(m, 0) \subseteq {o}
    <3> SUFFICES ASSUME NEW w \in Ways(m, 0) PROVE w = o
      OBVIOUS
    <3>1. w \in [0 .. 0 -> Node] /\ w[0] = Origin[m]
      BY DEF Ways
    <3> QED
      BY <3>1
  <2> HIDE DEF o
  <2>2. IsFiniteSet(Ways(m, 0))
    BY <2>1, FS_Singleton, FS_Subset
  <2> QED
    BY <2>2
<1>2. ASSUME NEW n \in H PROVE n + 1 \in H
  <2>0. n \in Nat /\ IsFiniteSet(Ways(m, n))
    OBVIOUS
  <2> DEFINE S == Ways(m, n) \X Node
             f == [x \in S |-> [i \in 0 .. n + 1 |-> IF i = n + 1 THEN x[2] ELSE x[1][i]]]
             T == {f[x] : x \in S}
  <2>1. IsFiniteSet(S)
    BY <2>0, FinitenessAssumption, FS_Product
  <2>2. f \in Surjection(S, T)
    BY DEF Surjection
  <2>3. Ways(m, n + 1) \subseteq T
    <3> SUFFICES ASSUME NEW w \in Ways(m, n + 1) PROVE w \in T
      OBVIOUS
    <3> DEFINE c == [i \in 0 .. n |-> w[i]]
               x == <<c, w[n + 1]>>
    <3>1. /\ w \in [0 .. n + 1 -> Node] /\ w[0] = Origin[m]
          /\ \A i \in 1 .. n + 1 : <<w[i - 1], w[i]>> \in Links
          /\ \A i \in 2 .. n + 1 : w[i] # w[i - 2]
      BY DEF Ways
    <3>2. /\ c \in [0 .. n -> Node] /\ \A i \in 0 .. n : c[i] = w[i]
      BY <2>0, <3>1
    <3> HIDE DEF c
    <3>3. c \in Ways(m, n)
      <4>1. c[0] = Origin[m]
        BY <2>0, <3>1, <3>2
      <4>2. \A i \in 1 .. n : <<c[i - 1], c[i]>> \in Links
        BY <2>0, <3>1, <3>2
      <4>3. \A i \in 2 .. n : c[i] # c[i - 2]
        BY <2>0, <3>1, <3>2
      <4> QED
        BY <3>2, <4>1, <4>2, <4>3 DEF Ways
    <3>4. x \in S
      BY <2>0, <3>1, <3>3
    <3>5. f[x] = [i \in 0 .. n + 1 |-> IF i = n + 1 THEN w[n + 1] ELSE c[i]]
      BY <3>4
    <3>6. w = [i \in 0 .. n + 1 |-> w[i]]
      BY <3>1
    <3>7. f[x] = w
      <4>1. \A i \in 0 .. n + 1 : (IF i = n + 1 THEN w[n + 1] ELSE c[i]) = w[i]
        BY <2>0, <3>2
      <4> HIDE DEF f, x
      <4> QED
        BY <3>5, <3>6, <4>1
    <3> HIDE DEF f, x
    <3> QED
      BY <3>4, <3>7
  <2> HIDE DEF S, f, T
  <2>4. IsFiniteSet(T)
    BY <2>1, <2>2, FS_Surjection
  <2>5. IsFiniteSet(Ways(m, n + 1))
    BY <2>3, <2>4, FS_Subset
  <2> QED
    BY <2>0, <2>5
<1>3. H \in SUBSET Nat
  OBVIOUS
<1> HIDE DEF H
<1>4. H = Nat
  BY <1>1, <1>2, <1>3, SetOfNaturals
<1> QED
  BY <1>4 DEF H

\* A message has finitely many ways, no more than the sum by their hops.
LEMMA TripsFinite ==
    ASSUME NEW m \in Msg
    PROVE  LET f == [k \in 1 .. DefaultTtl |-> Cardinality(Ways(m, k))]
           IN  /\ IsFiniteSet(Trips(m))
               /\ Cardinality(Trips(m)) <= SumOver(f, 1 .. DefaultTtl)
<1> DEFINE S == 1 .. DefaultTtl
           part == [k \in S |-> Ways(m, k)]
           f == [k \in S |-> Cardinality(Ways(m, k))]
<1>1. IsFiniteSet(S) /\ \A k \in S : k \in Nat
  BY GossipAssumption, FS_Interval
<1>2. \A k \in S : IsFiniteSet(part[k]) /\ f[k] = Cardinality(part[k])
  BY <1>1, WaysFinite
<1>3. Trips(m) = UNION {part[k] : k \in S}
  BY DEF Trips
<1> HIDE DEF part, f, S
<1>4. /\ IsFiniteSet(UNION {part[k] : k \in S})
      /\ Cardinality(UNION {part[k] : k \in S}) <= SumOver(f, S)
  BY <1>1, <1>2, SumOfCover
<1> QED
  BY <1>3, <1>4 DEF f, S

-----------------------------------------------------------------------------
(* What the mesh carries, along the ways *)

\* The packets of a message that are not chunks.
Plain(m) == {p \in Packets : p.msg = m /\ p.kind = "message"}

\* The ways of which a packet is the last hop, those with a forward that waits as v
\* does, and those that lead to a device.
EndingOn(m, W, p) == {w \in W : HopOn(m, w) = p}
Due(m, L, v) == {w \in DOMAIN L : HopOn(m, w) = v.packet /\ L[w] = v.left}
LeadingTo(W, n) == {w \in W : w[Hops(w)] = n}

\* A is the ways whose last hop is on the air, H those whose last hop was handled, and L
\* gives those of H whose forward still waits what is left of their timer.  All but the
\* way up to the last hop has been forwarded.
Grown(pub, m, A, L, H) ==
    /\ A \subseteq Trips(m) /\ H \subseteq Trips(m) /\ A \cap H = {}
    /\ DOMAIN L \subseteq H
    /\ \A w \in A \cup H : IF Hops(w) = 1 THEN m \in pub ELSE Cut(w) \in H \ DOMAIN L

\* Each copy on the air, each waiting forward and each call of a handler has its way.
SentOn(bag, m, A) ==
    \A p \in Plain(m) : Copies(p, bag) <= Cardinality(EndingOn(m, A, p))
HeldOn(bag, m, L) ==
    \A v \in Waits : v.packet \in Plain(m) => Copies(v, bag) <= Cardinality(Due(m, L, v))
HeardOn(calls, m, H) ==
    \A n \in Node : calls[n][m] <= Cardinality(LeadingTo(H, n))

\* The inductive invariant.
Traced(m) ==
    \E A, L, H :
        /\ Grown(published, m, A, L, H)
        /\ SentOn(air, m, A) /\ HeldOn(waiting, m, L) /\ HeardOn(handled, m, H)

\* One member more or less of a finite set.
LEMMA MemberMore ==
    ASSUME NEW X, IsFiniteSet(X), NEW Y \in SUBSET X
    PROVE  /\ Cardinality(X) \in Nat /\ Cardinality(Y) \in Nat
           /\ Cardinality(Y) <= Cardinality(X)
           /\ \A w \in X \ Y : Cardinality(Y) + 1 <= Cardinality(X)
<1>1. IsFiniteSet(Y) /\ Cardinality(Y) <= Cardinality(X)
  BY FS_Subset, Zenon
<1>2. Cardinality(X) \in Nat /\ Cardinality(Y) \in Nat
  BY <1>1, FS_CardinalityType, Zenon
<1>3. ASSUME NEW w \in X \ Y PROVE Cardinality(Y) + 1 <= Cardinality(X)
  <2>1. Cardinality(Y \cup {w}) = IF w \in Y THEN Cardinality(Y) ELSE Cardinality(Y) + 1
    BY <1>1, FS_AddElement, Zenon
  <2>2. Y \cup {w} \in SUBSET X
    OBVIOUS
  <2>3. Cardinality(Y \cup {w}) <= Cardinality(X)
    BY <2>2, FS_Subset, Zenon
  <2>4. w \notin Y
    OBVIOUS
  <2> QED
    BY <2>1, <2>3, <2>4
<1> QED
  BY <1>1, <1>2, <1>3

\* A member taken out of a finite set.
LEMMA MemberLess ==
    ASSUME NEW X, IsFiniteSet(X), NEW w \in X
    PROVE  Cardinality(X \ {w}) = Cardinality(X) - 1 /\ Cardinality(X) \in Nat
<1>1. Cardinality(X \ {w}) = IF w \in X THEN Cardinality(X) - 1 ELSE Cardinality(X)
  BY FS_RemoveElement, Zenon
<1>2. Cardinality(X) \in Nat
  BY FS_CardinalityType, Zenon
<1> QED
  BY <1>1, <1>2

\* The ways are finitely many, of whatever kind.
LEMMA FewWays ==
    ASSUME NEW m \in Msg, NEW W \in SUBSET Trips(m)
    PROVE  /\ IsFiniteSet(W)
           /\ \A p : IsFiniteSet(EndingOn(m, W, p))
           /\ \A n : IsFiniteSet(LeadingTo(W, n))
           /\ \A L, v : DOMAIN L = W => IsFiniteSet(Due(m, L, v))
<1>1. IsFiniteSet(W)
  BY TripsFinite, FS_Subset
<1>2. \A p : EndingOn(m, W, p) \in SUBSET W
  BY DEF EndingOn
<1>3. \A n : LeadingTo(W, n) \in SUBSET W
  BY DEF LeadingTo
<1>4. \A L, v : DOMAIN L = W => Due(m, L, v) \in SUBSET W
  BY DEF Due
<1> QED
  BY <1>1, <1>2, <1>3, <1>4, FS_Subset

\* A copy less on the air, with its way or without.
LEMMA SentLess ==
    ASSUME NEW m \in Msg, NEW A \in SUBSET Trips(m), NEW bag, IsABag(bag), SentOn(bag, m, A),
           NEW p, BagIn(p, bag)
    PROVE  /\ SentOn(bag (-) SetToBag({p}), m, A)
           /\ \A w \in A : HopOn(m, w) = p => SentOn(bag (-) SetToBag({p}), m, A \ {w})
<1> DEFINE less == bag (-) SetToBag({p})
<1>1. \A q : /\ Copies(q, bag) \in Nat
             /\ Copies(q, less) = Copies(q, bag) - (IF q = p THEN 1 ELSE 0)
  BY CopiesType, CopiesMinus
<1>2. \A q : Cardinality(EndingOn(m, A, q)) \in Nat
  BY FewWays, FS_CardinalityType
<1> HIDE DEF less
<1>3. SentOn(less, m, A)
  <2> SUFFICES ASSUME NEW q \in Plain(m)
               PROVE  Copies(q, less) <= Cardinality(EndingOn(m, A, q))
    BY DEF SentOn
  <2>1. Copies(q, bag) <= Cardinality(EndingOn(m, A, q))
    BY DEF SentOn
  <2> QED
    BY <1>1, <1>2, <2>1
<1>4. ASSUME NEW w \in A, HopOn(m, w) = p PROVE SentOn(less, m, A \ {w})
  <2> SUFFICES ASSUME NEW q \in Plain(m)
               PROVE  Copies(q, less) <= Cardinality(EndingOn(m, A \ {w}, q))
    BY DEF SentOn
  <2>1. Copies(q, bag) <= Cardinality(EndingOn(m, A, q))
    BY DEF SentOn
  <2>2. CASE q = p
    <3>1. w \in EndingOn(m, A, q) /\ EndingOn(m, A \ {w}, q) = EndingOn(m, A, q) \ {w}
      BY <1>4, <2>2 DEF EndingOn
    <3>2. Cardinality(EndingOn(m, A, q) \ {w}) = Cardinality(EndingOn(m, A, q)) - 1
      BY <3>1, FewWays, MemberLess
    <3>3. Copies(q, less) = Copies(q, bag) - 1 /\ Copies(q, bag) \in Nat
      BY <1>1, <2>2
    <3>4. Cardinality(EndingOn(m, A, q)) \in Nat
      BY <1>2
    <3>5. Copies(q, less) <= Cardinality(EndingOn(m, A, q)) - 1
      BY <2>1, <3>3, <3>4
    <3> QED
      BY <3>1, <3>2, <3>5
  <2>3. CASE q # p
    <3>1. EndingOn(m, A \ {w}, q) = EndingOn(m, A, q)
      BY <1>4, <2>3 DEF EndingOn
    <3> QED
      BY <1>1, <2>1, <2>3, <3>1
  <2> QED
    BY <2>2, <2>3
<1> QED
  BY <1>3, <1>4 DEF less

\* Packets more on the air, with a new way for each.
LEMMA SentMore ==
    ASSUME NEW m \in Msg, NEW A \in SUBSET Trips(m), NEW bag, IsABag(bag), SentOn(bag, m, A),
           NEW N \in SUBSET Trips(m), A \cap N = {}, NEW X,
           \A q \in X \cap Plain(m) : \E w \in N : HopOn(m, w) = q
    PROVE  SentOn(bag (+) SetToBag(X), m, A \cup N)
<1> SUFFICES ASSUME NEW q \in Plain(m)
             PROVE  Copies(q, bag (+) SetToBag(X)) <= Cardinality(EndingOn(m, A \cup N, q))
  BY DEF SentOn
<1>1. /\ Copies(q, bag (+) SetToBag(X)) = Copies(q, bag) + (IF q \in X THEN 1 ELSE 0)
      /\ Copies(q, bag) \in Nat
  BY CopiesPlus, CopiesOfSet, CopiesType, BagTypes
<1>2. Copies(q, bag) <= Cardinality(EndingOn(m, A, q))
  BY DEF SentOn
<1>3. EndingOn(m, A, q) \in SUBSET EndingOn(m, A \cup N, q)
  BY DEF EndingOn
<1>4. IsFiniteSet(EndingOn(m, A \cup N, q))
  BY FewWays
<1>5. CASE q \in X
  <2>1. PICK w \in N : HopOn(m, w) = q
    BY <1>5
  <2>2. w \in EndingOn(m, A \cup N, q) \ EndingOn(m, A, q)
    BY <2>1 DEF EndingOn
  <2>3. /\ Cardinality(EndingOn(m, A, q)) + 1 <= Cardinality(EndingOn(m, A \cup N, q))
        /\ Cardinality(EndingOn(m, A, q)) \in Nat
        /\ Cardinality(EndingOn(m, A \cup N, q)) \in Nat
    BY <1>3, <1>4, <2>2, MemberMore
  <2> QED
    BY <1>1, <1>2, <1>5, <2>3
<1>6. CASE q \notin X
  <2>1. /\ Cardinality(EndingOn(m, A, q)) <= Cardinality(EndingOn(m, A \cup N, q))
        /\ Cardinality(EndingOn(m, A, q)) \in Nat
        /\ Cardinality(EndingOn(m, A \cup N, q)) \in Nat
    BY <1>3, <1>4, MemberMore
  <2> QED
    BY <1>1, <1>2, <1>6, <2>1
<1> QED
  BY <1>5, <1>6

\* What a forward writes, as a set: one hop more to each target while the ttl lasts.
LEMMA ForwardedSet ==
    ASSUME NEW m \in Msg, NEW p \in Packets
    PROVE  /\ p \in Plain(m) =>
                  Forwarded(p) = SetToBag(
                      {q \in {[msg |-> m, kind |-> "message", from |-> p.to, to |-> u,
                               ttl |-> p.ttl - 1] : u \in Targets(p)} : p.ttl - 1 > 0})
           /\ p \notin Plain(m) =>
                  \E X : Forwarded(p) = SetToBag(X) /\ X \cap Plain(m) = {}
<1>1. EmptyBag = SetToBag({})
  BY DEF EmptyBag
<1>2. p.ttl \in Int /\ p.msg \in Msg /\ p.kind \in {"message", "chunk", "husk"}
  BY GossipAssumption DEF Packets
<1>3. CASE p \in Plain(m)
  <2> DEFINE X == {[msg |-> m, kind |-> "message", from |-> p.to, to |-> u,
                    ttl |-> p.ttl - 1] : u \in Targets(p)}
  <2>1. p.msg = m /\ p.kind = "message"
    BY <1>3 DEF Plain
  <2>2. CASE p.ttl - 1 > 0
    <3>1. {q \in X : p.ttl - 1 > 0} = X
      BY <2>2
    <3>2. Forwarded(p) = SetToBag(X)
      BY <2>1, <2>2 DEF Forwarded, Written, NextTtl
    <3> QED
      BY <1>3, <3>1, <3>2
  <2>3. CASE ~(p.ttl - 1 > 0)
    <3>1. {q \in X : p.ttl - 1 > 0} = {}
      BY <2>3
    <3>2. Forwarded(p) = EmptyBag
      BY <2>1, <2>3 DEF Forwarded, NextTtl
    <3> QED
      BY <1>1, <1>3, <3>1, <3>2
  <2> QED
    BY <2>2, <2>3
<1>4. CASE p \notin Plain(m)
  <2>1. CASE p.kind = "chunk"
    <3> DEFINE X == {[msg |-> p.msg, kind |-> "husk", from |-> p.to, to |-> u, ttl |-> 0] :
                         u \in Targets(p)}
    <3>1. Forwarded(p) = SetToBag(X)
      BY <2>1 DEF Forwarded, Written
    <3>2. X \cap Plain(m) = {}
      BY DEF Plain
    <3> QED
      BY <1>4, <3>1, <3>2
  <2>2. CASE p.kind = "message" /\ NextTtl(p) > 0
    <3> DEFINE X == {[msg |-> p.msg, kind |-> "message", from |-> p.to, to |-> u,
                      ttl |-> NextTtl(p)] : u \in Targets(p)}
    <3>1. p.msg # m
      BY <1>4, <2>2 DEF Plain
    <3>2. Forwarded(p) = SetToBag(X)
      BY <2>2 DEF Forwarded, Written
    <3>3. X \cap Plain(m) = {}
      BY <3>1 DEF Plain
    <3> QED
      BY <1>4, <3>2, <3>3
  <2>3. CASE p.kind # "chunk" /\ ~(p.kind = "message" /\ NextTtl(p) > 0)
    <3>1. Forwarded(p) = EmptyBag
      BY <2>3 DEF Forwarded
    <3>2. {} \cap Plain(m) = {}
      OBVIOUS
    <3> QED
      BY <1>1, <1>4, <3>1, <3>2
  <2> QED
    BY <2>1, <2>2, <2>3
<1> QED
  BY <1>3, <1>4

\* A forward goes along the ways that are one hop longer than its own.
LEMMA ForwardGrows ==
    ASSUME links \subseteq Links, NEW m \in Msg, NEW A, NEW L, NEW H, NEW w \in H \ DOMAIN L,
           Grown(published, m, A, L, H),
           \A v \in A \cup H : Hops(v) = 1 \/ Cut(v) # w,
           NEW bag, IsABag(bag), SentOn(bag, m, A),
           HopOn(m, w) \in Plain(m)
    PROVE  \E B : /\ Grown(published, m, B, L, H)
                  /\ SentOn(bag (+) Forwarded(HopOn(m, w)), m, B)
<1> DEFINE p == HopOn(m, w)
           k == Hops(w)
           T == IF k < DefaultTtl THEN Targets(p) ELSE {}
           N == {Longer(w, u) : u \in T}
           X == {q \in {[msg |-> m, kind |-> "message", from |-> p.to, to |-> u,
                         ttl |-> p.ttl - 1] : u \in Targets(p)} : p.ttl - 1 > 0}
<1>1. w \in Trips(m) /\ A \subseteq Trips(m) /\ H \subseteq Trips(m)
  BY DEF Grown
<1>2. k \in 1 .. DefaultTtl /\ DefaultTtl \in Nat
  BY <1>1, TripHops, GossipAssumption
<1>3. p.to = w[k] /\ p.from = w[k - 1] /\ p.ttl = DefaultTtl - k + 1
  BY DEF HopOn
<1>4. ASSUME NEW u \in T
      PROVE  /\ Longer(w, u) \in Trips(m) /\ Hops(Longer(w, u)) = k + 1
             /\ Cut(Longer(w, u)) = w
             /\ HopOn(m, Longer(w, u)) = [msg |-> m, kind |-> "message", from |-> w[k],
                                          to |-> u, ttl |-> DefaultTtl - k]
  <2>1. /\ k < DefaultTtl /\ u \in Node /\ <<w[k], u>> \in Links /\ u # w[k - 1]
    BY <1>3 DEF Targets, Connected
  <2> QED
    BY <1>1, <2>1, NextHop
<1>5. Forwarded(p) = SetToBag(X)
  <2>1. p \in Packets
    BY DEF Plain
  <2> HIDE DEF p
  <2> QED
    BY <2>1, ForwardedSet DEF p
<1> HIDE DEF p
<1>6. N \subseteq Trips(m)
  BY <1>4
<1>7. \A v \in N : Hops(v) # 1 /\ Cut(v) = w
  BY <1>2, <1>4
<1>8. A \cap N = {} /\ H \cap N = {}
  BY <1>7
<1>9. \A q \in X \cap Plain(m) : \E v \in N : HopOn(m, v) = q
  <2> SUFFICES ASSUME NEW q \in X PROVE \E v \in N : HopOn(m, v) = q
    OBVIOUS
  <2>1. PICK u \in Targets(p) :
            q = [msg |-> m, kind |-> "message", from |-> p.to, to |-> u, ttl |-> p.ttl - 1]
    OBVIOUS
  <2>2. k < DefaultTtl /\ p.ttl - 1 = DefaultTtl - k
    BY <1>2, <1>3
  <2>3. u \in T
    BY <2>1, <2>2
  <2>4. HopOn(m, Longer(w, u)) = q
    BY <1>3, <1>4, <2>1, <2>2, <2>3
  <2> QED
    BY <2>3, <2>4
<1>10. Grown(published, m, A \cup N, L, H)
  <2>1. A \cup N \subseteq Trips(m) /\ (A \cup N) \cap H = {} /\ DOMAIN L \subseteq H
    BY <1>1, <1>6, <1>8 DEF Grown
  <2>2. ASSUME NEW v \in (A \cup N) \cup H
        PROVE  IF Hops(v) = 1 THEN m \in published ELSE Cut(v) \in H \ DOMAIN L
    <3>1. CASE v \in N
      BY <1>7, <3>1
    <3>2. CASE v \in A \cup H
      BY <3>2 DEF Grown
    <3> QED
      BY <3>1, <3>2
  <2> QED
    BY <1>1, <2>1, <2>2 DEF Grown
<1> HIDE DEF N, X
<1>11. SentOn(bag (+) SetToBag(X), m, A \cup N)
  BY <1>1, <1>6, <1>8, <1>9, SentMore
<1> QED
  BY <1>5, <1>10, <1>11 DEF p

\* One forward more that waits, one less, and one of another message.
LEMMA HeldMore ==
    ASSUME NEW m \in Msg, NEW L, DOMAIN L \subseteq Trips(m), NEW bag, IsABag(bag),
           HeldOn(bag, m, L), NEW v, NEW w \in Trips(m) \ DOMAIN L, HopOn(m, w) = v.packet
    PROVE  HeldOn(bag (+) SetToBag({v}), m,
                  [x \in DOMAIN L \cup {w} |-> IF x = w THEN v.left ELSE L[x]])
<1> DEFINE M == [x \in DOMAIN L \cup {w} |-> IF x = w THEN v.left ELSE L[x]]
<1>1. DOMAIN M = DOMAIN L \cup {w} /\ M[w] = v.left /\ \A x \in DOMAIN L : M[x] = L[x]
  OBVIOUS
<1> HIDE DEF M
<1> SUFFICES ASSUME NEW e \in Waits, e.packet \in Plain(m)
             PROVE  Copies(e, bag (+) SetToBag({v})) <= Cardinality(Due(m, M, e))
  BY DEF HeldOn, M
<1>2. /\ Copies(e, bag (+) SetToBag({v})) = Copies(e, bag) + (IF e = v THEN 1 ELSE 0)
      /\ Copies(e, bag) \in Nat
  <2>1. Copies(e, SetToBag({v})) = IF e = v THEN 1 ELSE 0
    BY CopiesOfSet
  <2> QED
    BY <2>1, CopiesPlus, CopiesType, BagTypes
<1>3. Copies(e, bag) <= Cardinality(Due(m, L, e))
  BY DEF HeldOn
<1>4. Due(m, L, e) \in SUBSET Due(m, M, e)
  BY <1>1 DEF Due
<1>5. IsFiniteSet(Due(m, M, e))
  <2>1. DOMAIN M \in SUBSET Trips(m)
    BY <1>1
  <2> QED
    BY <2>1, FewWays
<1>6. CASE e = v
  <2>1. w \in Due(m, M, e) \ Due(m, L, e)
    BY <1>1, <1>6 DEF Due
  <2>2. /\ Cardinality(Due(m, L, e)) + 1 <= Cardinality(Due(m, M, e))
        /\ Cardinality(Due(m, L, e)) \in Nat /\ Cardinality(Due(m, M, e)) \in Nat
    BY <1>4, <1>5, <2>1, MemberMore
  <2> QED
    BY <1>2, <1>3, <1>6, <2>2
<1>7. CASE e # v
  <2>1. /\ Cardinality(Due(m, L, e)) <= Cardinality(Due(m, M, e))
        /\ Cardinality(Due(m, L, e)) \in Nat /\ Cardinality(Due(m, M, e)) \in Nat
    BY <1>4, <1>5, MemberMore
  <2> QED
    BY <1>2, <1>3, <1>7, <2>1
<1> QED
  BY <1>6, <1>7

\* A forward that stops waiting takes its way off the timers.
LEMMA HeldLess ==
    ASSUME NEW m \in Msg, NEW L, DOMAIN L \subseteq Trips(m), NEW bag, IsABag(bag),
           HeldOn(bag, m, L), NEW v \in Waits, BagIn(v, bag),
           NEW w \in Due(m, L, v)
    PROVE  HeldOn(bag (-) SetToBag({v}), m, [x \in DOMAIN L \ {w} |-> L[x]])
<1> DEFINE M == [x \in DOMAIN L \ {w} |-> L[x]]
<1>1. DOMAIN M = DOMAIN L \ {w} /\ \A x \in DOMAIN M : M[x] = L[x]
  OBVIOUS
<1> HIDE DEF M
<1> SUFFICES ASSUME NEW e \in Waits, e.packet \in Plain(m)
             PROVE  Copies(e, bag (-) SetToBag({v})) <= Cardinality(Due(m, M, e))
  BY DEF HeldOn, M
<1>2. /\ Copies(e, bag (-) SetToBag({v})) = Copies(e, bag) - (IF e = v THEN 1 ELSE 0)
      /\ Copies(e, bag) \in Nat
  BY CopiesMinus, CopiesType
<1>3. Copies(e, bag) <= Cardinality(Due(m, L, e))
  BY DEF HeldOn
<1>4. IsFiniteSet(Due(m, L, e))
  BY FewWays
<1>5. CASE e = v
  <2>1. Due(m, M, e) = Due(m, L, e) \ {w} /\ w \in Due(m, L, e)
    BY <1>1, <1>5 DEF Due
  <2>2. /\ Cardinality(Due(m, L, e) \ {w}) = Cardinality(Due(m, L, e)) - 1
        /\ Cardinality(Due(m, L, e)) \in Nat
    BY <1>4, <2>1, MemberLess
  <2>3. Copies(e, bag (-) SetToBag({v})) = Copies(e, bag) - 1
    BY <1>2, <1>5
  <2>4. Copies(e, bag) - 1 <= Cardinality(Due(m, L, e)) - 1
    BY <1>2, <1>3, <2>2
  <2> QED
    BY <2>1, <2>2, <2>3, <2>4
<1>6. CASE e # v
  <2>1. Due(m, M, e) = Due(m, L, e)
    <3>1. ~(HopOn(m, w) = e.packet /\ L[w] = e.left)
      <4>1. HopOn(m, w) = v.packet /\ L[w] = v.left
        BY DEF Due
      <4> QED
        BY <1>6, <4>1 DEF Waits
    <3> QED
      BY <1>1, <3>1 DEF Due
  <2> QED
    BY <1>2, <1>3, <1>6, <2>1
<1> QED
  BY <1>5, <1>6

\* The timers of other packets leave the ways of a message alone.
LEMMA HeldOther ==
    ASSUME NEW m \in Msg, NEW L, NEW bag, IsABag(bag), HeldOn(bag, m, L),
           NEW v, v.packet \notin Plain(m)
    PROVE  /\ HeldOn(bag (+) SetToBag({v}), m, L)
           /\ BagIn(v, bag) => HeldOn(bag (-) SetToBag({v}), m, L)
<1>1. ASSUME NEW e, e.packet \in Plain(m)
      PROVE  /\ Copies(e, bag (+) SetToBag({v})) = Copies(e, bag)
             /\ BagIn(v, bag) => Copies(e, bag (-) SetToBag({v})) = Copies(e, bag)
  <2>1. e # v
    BY <1>1
  <2>2. Copies(e, bag) \in Nat /\ Copies(e, SetToBag({v})) = 0
    BY <2>1, CopiesType, CopiesOfSet
  <2>3. Copies(e, bag (+) SetToBag({v})) = Copies(e, bag)
    BY <2>2, CopiesPlus, BagTypes
  <2>4. BagIn(v, bag) => Copies(e, bag (-) SetToBag({v})) = Copies(e, bag)
    BY <2>1, <2>2, CopiesMinus
  <2> QED
    BY <2>3, <2>4
<1> QED
  BY <1>1 DEF HeldOn

\* A tick brings the timers of the waiting forwards forward along their ways.
LEMMA HeldTick ==
    ASSUME NEW m \in Msg, NEW L, DOMAIN L \subseteq Trips(m),
           NEW bag, IsABag(bag), IsFiniteSet(DOMAIN bag), DOMAIN bag \subseteq Waits,
           HeldOn(bag, m, L)
    PROVE  HeldOn(BagOfAll(LAMBDA w : [w EXCEPT !.left = Earlier(@)], bag), m,
                  [x \in DOMAIN L |-> Earlier(L[x])])
<1> DEFINE M == [x \in DOMAIN L |-> Earlier(L[x])]
           new == BagOfAll(LAMBDA w : [w EXCEPT !.left = Earlier(@)], bag)
           image == {Ticked(w) : w \in DOMAIN bag}
<1>1. new = [e \in image |-> SumOver(Becoming(bag, e), DOMAIN bag)]
  <2>1. \A e : DOMAIN Becoming(bag, e) = DOMAIN bag
    BY DEF Becoming
  <2> QED
    BY <2>1 DEF BagOfAll, BagToSet, SumOver, Partial, Part, Becoming, Ticked
<1>2. DOMAIN M = DOMAIN L /\ \A x \in DOMAIN L : M[x] = Earlier(L[x])
  OBVIOUS
<1>3. \A w \in DOMAIN bag : bag[w] \in Nat /\ bag[w] > 0
  BY DEF IsABag
<1> HIDE DEF new, M
<1> SUFFICES ASSUME NEW e \in Waits, e.packet \in Plain(m)
             PROVE  Copies(e, new) <= Cardinality(Due(m, M, e))
  BY DEF HeldOn, new, M
<1>4. IsFiniteSet(Due(m, M, e))
  <2>1. DOMAIN M \in SUBSET Trips(m)
    BY <1>2
  <2> QED
    BY <2>1, FewWays
<1>5. CASE e \notin image
  <2>1. Copies(e, new) = 0
    BY <1>1, <1>5 DEF Copies
  <2> QED
    BY <1>4, <2>1, FS_CardinalityType
<1>6. CASE e \in image
  <2> DEFINE f == Becoming(bag, e)
             part == [v \in DOMAIN bag |-> IF Ticked(v) = e THEN Due(m, L, v) ELSE {}]
  <2>1. Copies(e, new) = SumOver(f, DOMAIN bag)
    BY <1>1, <1>6 DEF Copies
  <2>2. ASSUME NEW v \in DOMAIN bag, Ticked(v) = e
        PROVE  v.packet = e.packet /\ Earlier(v.left) = e.left /\ v \in Waits
    <3>1. v = [packet |-> v.packet, left |-> v.left] /\ v \in Waits
      BY DEF Waits
    <3>2. Ticked(v) = [packet |-> v.packet, left |-> Earlier(v.left)]
      BY <3>1 DEF Ticked
    <3> QED
      BY <2>2, <3>1, <3>2
  <2>3. ASSUME NEW v \in DOMAIN bag
        PROVE  f[v] \in Nat /\ part[v] \subseteq Due(m, M, e) /\ f[v] <= Cardinality(part[v])
    <3>1. CASE Ticked(v) = e
      <4>1. f[v] = bag[v] /\ f[v] \in Nat
        BY <1>3, <3>1 DEF Becoming
      <4>2. part[v] = Due(m, L, v)
        BY <3>1
      <4>3. Due(m, L, v) \subseteq Due(m, M, e)
        BY <1>2, <2>2, <3>1 DEF Due
      <4>4. Copies(v, bag) <= Cardinality(Due(m, L, v)) /\ Copies(v, bag) = bag[v]
        BY <2>2, <3>1 DEF HeldOn, Copies
      <4> QED
        BY <4>1, <4>2, <4>3, <4>4
    <3>2. CASE Ticked(v) # e
      <4>1. f[v] = 0 /\ part[v] = {}
        BY <3>2 DEF Becoming
      <4>2. Cardinality(part[v]) = 0
        BY <4>1, FS_EmptySet
      <4> QED
        BY <4>1, <4>2
    <3> QED
      BY <3>1, <3>2
  <2>4. ASSUME NEW v \in DOMAIN bag, NEW x \in DOMAIN bag, v # x
        PROVE  part[v] \cap part[x] = {}
    <3> SUFFICES ASSUME Ticked(v) = e, Ticked(x) = e, NEW w \in Due(m, L, v) \cap Due(m, L, x)
                 PROVE  FALSE
      OBVIOUS
    <3>1. v.packet = x.packet /\ v.left = x.left /\ v \in Waits /\ x \in Waits
      BY DEF Due
    <3> QED
      BY <2>4, <3>1 DEF Waits
  <2> HIDE DEF f, part
  <2>5. SumOver(f, DOMAIN bag) <= Cardinality(Due(m, M, e))
    BY <1>4, <2>3, <2>4, SumOfParts
  <2> QED
    BY <2>1, <2>5
<1> QED
  BY <1>5, <1>6

\* A handler is called along one more way.
LEMMA HeardMore ==
    ASSUME NEW m \in Msg, NEW H \in SUBSET Trips(m), NEW w \in Trips(m) \ H,
           NEW calls, NEW new, HeardOn(calls, m, H),
           \A n \in Node :
               /\ calls[n][m] \in Nat
               /\ new[n][m] = calls[n][m] + (IF n = w[Hops(w)] THEN 1 ELSE 0)
    PROVE  HeardOn(new, m, H \cup {w})
<1> SUFFICES ASSUME NEW n \in Node
             PROVE  new[n][m] <= Cardinality(LeadingTo(H \cup {w}, n))
  BY DEF HeardOn
<1>1. calls[n][m] <= Cardinality(LeadingTo(H, n)) /\ calls[n][m] \in Nat
  BY DEF HeardOn
<1>2. LeadingTo(H, n) \in SUBSET LeadingTo(H \cup {w}, n)
  BY DEF LeadingTo
<1>3. IsFiniteSet(LeadingTo(H \cup {w}, n))
  BY FewWays
<1>4. CASE n = w[Hops(w)]
  <2>1. w \in LeadingTo(H \cup {w}, n) \ LeadingTo(H, n)
    BY <1>4 DEF LeadingTo
  <2>2. /\ Cardinality(LeadingTo(H, n)) + 1 <= Cardinality(LeadingTo(H \cup {w}, n))
        /\ Cardinality(LeadingTo(H, n)) \in Nat
        /\ Cardinality(LeadingTo(H \cup {w}, n)) \in Nat
    BY <1>2, <1>3, <2>1, MemberMore
  <2>3. new[n][m] = calls[n][m] + 1
    BY <1>4
  <2> QED
    BY <1>1, <2>2, <2>3
<1>5. CASE n # w[Hops(w)]
  <2>1. /\ Cardinality(LeadingTo(H, n)) <= Cardinality(LeadingTo(H \cup {w}, n))
        /\ Cardinality(LeadingTo(H, n)) \in Nat
        /\ Cardinality(LeadingTo(H \cup {w}, n)) \in Nat
    BY <1>2, <1>3, MemberMore
  <2>2. new[n][m] = calls[n][m]
    BY <1>1, <1>5
  <2> QED
    BY <1>1, <2>1, <2>2
<1> QED
  BY <1>4, <1>5

-----------------------------------------------------------------------------
(* Steps *)

\* What every packet on the air and every waiting forward is.
LEMMA CarriedPackets ==
    ASSUME Carried, Bagged
    PROVE  /\ IsABag(air) /\ IsABag(waiting) /\ IsFiniteSet(DOMAIN waiting)
           /\ \A p : BagIn(p, air) => p \in Packets
           /\ \A v : BagIn(v, waiting) => v \in Waits /\ v.packet \in Packets
           /\ DOMAIN waiting \subseteq Waits
           /\ links \subseteq Links
           /\ \A n \in Node, m \in Msg : handled[n][m] \in Nat
BY DEF Carried, Bagged, BagIn, BagToSet, Waits

\* Publishing puts the ways of one hop on the air, where none was before.
LEMMA TracedPublish ==
    ASSUME Carried, Bagged, NEW m \in Msg, Traced(m), NEW o \in Msg,
           Publish(o) \/ PublishChunk(o)
    PROVE  Traced(m)'
<1> PICK A, L, H : /\ Grown(published, m, A, L, H)
                   /\ SentOn(air, m, A) /\ HeldOn(waiting, m, L) /\ HeardOn(handled, m, H)
  BY DEF Traced
<1>0. waiting' = waiting /\ handled' = handled /\ published \subseteq published'
  BY DEF Publish, PublishChunk
<1>1. A \in SUBSET Trips(m) /\ IsABag(air)
  BY CarriedPackets DEF Grown
<1>2. Grown(published', m, A, L, H)
  BY <1>0 DEF Grown
<1>3. CASE \E X : air' = air (+) SetToBag(X) /\ X \cap Plain(m) = {}
  <2>1. PICK X : air' = air (+) SetToBag(X) /\ X \cap Plain(m) = {}
    BY <1>3
  <2>2. SentOn(air (+) SetToBag(X), m, A \cup {})
    BY <1>1, <2>1, SentMore
  <2>3. A \cup {} = A
    OBVIOUS
  <2>4. SentOn(air', m, A)
    BY <2>1, <2>2, <2>3
  <2> QED
    BY <1>0, <1>2, <2>4 DEF Traced
<1>4. CASE PublishChunk(o) \/ o \in Large \/ o # m
  <2>1. \E kind, ttl : /\ air' = air (+) Written(o, kind, Origin[o], Connected(Origin[o]), ttl)
                       /\ kind # "message" \/ o # m
    <3>1. CASE PublishChunk(o)
      BY <3>1 DEF PublishChunk
    <3>2. CASE Publish(o) /\ o \in Large
      BY <3>2 DEF Publish
    <3>3. CASE Publish(o) /\ o \notin Large /\ o # m
      BY <3>3 DEF Publish
    <3> QED
      BY <1>4, <3>1, <3>2, <3>3
  <2>2. PICK kind, ttl :
            /\ air' = air (+) Written(o, kind, Origin[o], Connected(Origin[o]), ttl)
            /\ kind # "message" \/ o # m
    BY <2>1
  <2> DEFINE X == {[msg |-> o, kind |-> kind, from |-> Origin[o], to |-> t, ttl |-> ttl] :
                       t \in Connected(Origin[o])}
  <2>3. X \cap Plain(m) = {}
    BY <2>2 DEF Plain
  <2>4. air' = air (+) SetToBag(X)
    BY <2>2 DEF Written
  <2> QED
    BY <1>3, <2>3, <2>4
<1>5. CASE Publish(o) /\ o \notin Large /\ o = m
  <2> DEFINE n == Origin[m]
             X == {[msg |-> m, kind |-> "message", from |-> n, to |-> t,
                    ttl |-> DefaultTtl] : t \in Connected(n)}
             N == {w \in Trips(m) : Hops(w) = 1}
  <2>1. /\ air' = air (+) SetToBag(X)
        /\ m \notin published /\ m \in published'
    BY <1>5 DEF Publish, Written
  <2>2. A \cap N = {} /\ H \cap N = {}
    BY <2>1 DEF Grown
  <2>3. \A q \in X \cap Plain(m) : \E w \in N : HopOn(m, w) = q
    <3> SUFFICES ASSUME NEW t \in Connected(n)
                 PROVE  \E w \in N : HopOn(m, w) = [msg |-> m, kind |-> "message",
                                         from |-> n, to |-> t, ttl |-> DefaultTtl]
      OBVIOUS
    <3>1. t \in Node /\ <<n, t>> \in Links
      BY CarriedPackets DEF Connected
    <3> QED
      BY <3>1, FirstHop
  <2>4. N \in SUBSET Trips(m)
    OBVIOUS
  <2>5. Grown(published', m, A \cup N, L, H)
    BY <2>1, <2>2, <1>2, <2>4 DEF Grown
  <2> HIDE DEF N, X
  <2>6. SentOn(air (+) SetToBag(X), m, A \cup N)
    BY <1>1, <2>2, <2>3, <2>4, SentMore
  <2>7. SentOn(air', m, A \cup N)
    BY <2>1, <2>6
  <2> QED
    BY <1>0, <2>5, <2>7 DEF Traced
<1> QED
  BY <1>4, <1>5

\* A packet lost takes its way off the air; the way is not used again.
LEMMA TracedLose ==
    ASSUME Carried, Bagged, NEW m \in Msg, Traced(m), NEW p, BagIn(p, air),
           air' = air (-) SetToBag({p}), UNCHANGED <<published, waiting, handled>>
    PROVE  Traced(m)'
<1> PICK A, L, H : /\ Grown(published, m, A, L, H)
                   /\ SentOn(air, m, A) /\ HeldOn(waiting, m, L) /\ HeardOn(handled, m, H)
  BY DEF Traced
<1>1. A \in SUBSET Trips(m) /\ IsABag(air)
  BY CarriedPackets DEF Grown
<1>2. SentOn(air (-) SetToBag({p}), m, A)
  BY <1>1, SentLess
<1> QED
  BY <1>2 DEF Traced

\* A packet of another message, or a chunk, is accepted or forwarded.
LEMMA TracedOther ==
    ASSUME Carried, Bagged, NEW m \in Msg, Traced(m), NEW p \in Packets, p \notin Plain(m),
           Accept(p) \/ \E v \in Waits : v.packet = p /\ Resume(v)
    PROVE  Traced(m)'
<1> PICK A, L, H : /\ Grown(published, m, A, L, H)
                   /\ SentOn(air, m, A) /\ HeldOn(waiting, m, L) /\ HeardOn(handled, m, H)
  BY DEF Traced
<1>1. /\ A \in SUBSET Trips(m) /\ IsABag(air) /\ IsABag(waiting)
      /\ \A n \in Node : handled[n][m] \in Nat
  BY CarriedPackets DEF Grown
<1>2. PICK X : Forwarded(p) = SetToBag(X) /\ X \cap Plain(m) = {}
  BY ForwardedSet
<1>3. ASSUME NEW bag, IsABag(bag), SentOn(bag, m, A) PROVE SentOn(bag (+) Forwarded(p), m, A)
  <2>1. SentOn(bag (+) SetToBag(X), m, A \cup {})
    BY <1>1, <1>2, <1>3, SentMore
  <2>2. A \cup {} = A
    OBVIOUS
  <2> QED
    BY <1>2, <2>1, <2>2
<1>4. CASE Accept(p)
  <2>1. SentOn(air (-) SetToBag({p}), m, A) /\ IsABag(air (-) SetToBag({p}))
    BY <1>1, <1>4, SentLess, BagTypes DEF Accept
  <2>2. SentOn(air', m, A)
    BY <1>3, <1>4, <2>1 DEF Accept
  <2>3. HeldOn(waiting', m, L)
    <3>1. HeldOn(waiting (+) SetToBag({[packet |-> p, left |-> window[p.to]]}), m, L)
      BY <1>1, HeldOther
    <3> QED
      BY <1>4, <3>1 DEF Accept
  <2>4. HeardOn(handled', m, H) /\ published' = published
    <3>1. \A n \in Node : handled'[n][m] = handled[n][m]
      <4>1. p.kind # "message" \/ p.msg # m
        BY DEF Plain
      <4>2. handled \in [Node -> [Msg -> Nat]]
        BY DEF Carried
      <4> QED
        BY <1>4, <4>1, <4>2 DEF Accept
    <3> QED
      BY <1>4, <3>1 DEF Accept, HeardOn
  <2> QED
    BY <2>2, <2>3, <2>4 DEF Traced
<1>5. CASE \E v \in Waits : v.packet = p /\ Resume(v)
  <2>1. PICK v \in Waits : v.packet = p /\ Resume(v)
    BY <1>5
  <2>2. SentOn(air', m, A)
    BY <1>1, <1>3, <2>1 DEF Resume
  <2>3. HeldOn(waiting', m, L)
    BY <1>1, <2>1, HeldOther DEF Resume
  <2> QED
    BY <2>1, <2>2, <2>3 DEF Traced, Resume
<1> QED
  BY <1>4, <1>5

\* The handlers are called along the way of the packet, and the forward takes it on or waits.
LEMMA TracedAccept ==
    ASSUME Carried, Bagged, NEW m \in Msg, Traced(m), NEW p \in Plain(m), Accept(p)
    PROVE  Traced(m)'
<1> PICK A, L, H : /\ Grown(published, m, A, L, H)
                   /\ SentOn(air, m, A) /\ HeldOn(waiting, m, L) /\ HeardOn(handled, m, H)
  BY DEF Traced
<1>0. /\ A \in SUBSET Trips(m) /\ H \in SUBSET Trips(m) /\ DOMAIN L \subseteq H
      /\ A \cap H = {} /\ IsABag(air) /\ IsABag(waiting) /\ links \subseteq Links
      /\ BagIn(p, air)
  BY CarriedPackets DEF Grown, Accept
<1>1. PICK w \in A : HopOn(m, w) = p
  <2>1. Copies(p, air) > 0 /\ Copies(p, air) \in Nat
    BY <1>0, CopiesType
  <2>2. Copies(p, air) <= Cardinality(EndingOn(m, A, p))
    BY DEF SentOn
  <2>3. EndingOn(m, A, p) # {}
    BY <2>1, <2>2, FS_EmptySet
  <2> QED
    BY <2>3 DEF EndingOn
<1> DEFINE A1 == A \ {w}
           H1 == H \cup {w}
           less == air (-) SetToBag({p})
<1>2. w \in Trips(m) /\ w \notin H /\ w \notin DOMAIN L /\ w[Hops(w)] = p.to
  BY <1>0, <1>1 DEF HopOn
<1>3. Hops(w) \in 1 .. DefaultTtl /\ DefaultTtl \in Nat
  BY <1>2, TripHops, GossipAssumption
<1>4. \A x \in A \cup H : Hops(x) = 1 \/ Cut(x) # w
  BY <1>2 DEF Grown
<1>5. A1 \subseteq Trips(m) /\ H1 \subseteq Trips(m) /\ A1 \cap H1 = {}
  BY <1>0, <1>2
<1>6. \A x \in A1 \cup H1 : IF Hops(x) = 1 THEN m \in published ELSE Cut(x) \in H \ DOMAIN L
  BY <1>1 DEF Grown
<1>7. SentOn(less, m, A1) /\ IsABag(less)
  BY <1>0, <1>1, SentLess, BagTypes
<1>8. HeardOn(handled', m, H1)
  <2>1. handled \in [Node -> [Msg -> Nat]] /\ p.kind = "message" /\ p.msg = m /\ p.to \in Node
    BY DEF Carried, Plain, Packets
  <2>2. handled' = [handled EXCEPT ![p.to][m] = @ + 1]
    BY <2>1 DEF Accept
  <2>3. \A n \in Node : /\ handled[n][m] \in Nat
                        /\ handled'[n][m] = handled[n][m]
                                              + (IF n = w[Hops(w)] THEN 1 ELSE 0)
    BY <1>2, <2>1, <2>2
  <2> QED
    BY <1>0, <1>2, <2>3, HeardMore
<1>9. published' = published
  BY DEF Accept
<1>10. CASE window[p.to] > 0
  <2> DEFINE v == [packet |-> p, left |-> window[p.to]]
             M == [x \in DOMAIN L \cup {w} |-> IF x = w THEN v.left ELSE L[x]]
  <2>1. waiting' = waiting (+) SetToBag({v}) /\ air' = less
    BY <1>10 DEF Accept
  <2>2. v.packet = HopOn(m, w)
    BY <1>1
  <2>3. DOMAIN M = DOMAIN L \cup {w}
    OBVIOUS
  <2>4. HeldOn(waiting (+) SetToBag({v}), m, M)
    <3>1. DOMAIN L \subseteq Trips(m) /\ w \in Trips(m) \ DOMAIN L
      BY <1>0, <1>2
    <3> HIDE DEF v
    <3> QED
      BY <1>0, <2>2, <3>1, HeldMore
  <2> HIDE DEF M, v
  <2>5. Grown(published, m, A1, M, H1)
    <3>1. \A x \in A1 \cup H1 : Hops(x) = 1 \/ Cut(x) # w
      BY <1>1, <1>4
    <3>2. DOMAIN M \subseteq H1
      BY <1>0, <2>3
    <3>3. \A x \in A1 \cup H1 : IF Hops(x) = 1 THEN m \in published
                                ELSE Cut(x) \in H1 \ DOMAIN M
      BY <1>6, <2>3, <3>1
    <3> QED
      BY <1>5, <3>2, <3>3 DEF Grown
  <2> HIDE DEF A1, H1, less
  <2> QED
    BY <1>7, <1>8, <1>9, <2>1, <2>4, <2>5 DEF Traced
<1>11. CASE ~(window[p.to] > 0)
  <2>1. waiting' = waiting /\ air' = less (+) Forwarded(p)
    BY <1>11 DEF Accept
  <2>2. Grown(published, m, A1, L, H1)
    <3>1. \A x \in A1 \cup H1 : IF Hops(x) = 1 THEN m \in published
                                ELSE Cut(x) \in H1 \ DOMAIN L
      BY <1>2, <1>6
    <3> QED
      BY <1>0, <1>5, <3>1 DEF Grown
  <2>3. w \in H1 \ DOMAIN L /\ \A x \in A1 \cup H1 : Hops(x) = 1 \/ Cut(x) # w
    BY <1>1, <1>2, <1>4
  <2> HIDE DEF A1, H1, less
  <2>4. PICK B : Grown(published, m, B, L, H1) /\ SentOn(less (+) Forwarded(p), m, B)
    BY <1>0, <1>1, <1>7, <2>2, <2>3, ForwardGrows
  <2> QED
    BY <1>8, <1>9, <2>1, <2>4 DEF Traced
<1> QED
  BY <1>10, <1>11

\* The forward that waited takes the packet on.
LEMMA TracedResume ==
    ASSUME Carried, Bagged, NEW m \in Msg, Traced(m), NEW v \in Waits, v.packet \in Plain(m),
           Resume(v)
    PROVE  Traced(m)'
<1> PICK A, L, H : /\ Grown(published, m, A, L, H)
                   /\ SentOn(air, m, A) /\ HeldOn(waiting, m, L) /\ HeardOn(handled, m, H)
  BY DEF Traced
<1>0. /\ A \in SUBSET Trips(m) /\ H \in SUBSET Trips(m) /\ DOMAIN L \subseteq H
      /\ A \cap H = {} /\ IsABag(air) /\ IsABag(waiting) /\ links \subseteq Links
      /\ BagIn(v, waiting)
  BY CarriedPackets DEF Grown, Resume
<1>1. PICK w : w \in Due(m, L, v)
  <2>1. Copies(v, waiting) > 0 /\ Copies(v, waiting) \in Nat
    BY <1>0, CopiesType
  <2>2. Copies(v, waiting) <= Cardinality(Due(m, L, v))
    BY DEF HeldOn
  <2>3. Due(m, L, v) # {}
    BY <2>1, <2>2, FS_EmptySet
  <2> QED
    BY <2>3
<1> DEFINE M == [x \in DOMAIN L \ {w} |-> L[x]]
<1>2. w \in DOMAIN L /\ HopOn(m, w) = v.packet /\ DOMAIN M = DOMAIN L \ {w}
  BY <1>1 DEF Due
<1>3. HeldOn(waiting', m, M)
  <2>1. HeldOn(waiting (-) SetToBag({v}), m, M)
    <3>1. DOMAIN L \subseteq Trips(m)
      BY <1>0
    <3> QED
      BY <1>0, <1>1, <3>1, HeldLess
  <2> QED
    BY <2>1 DEF Resume
<1> HIDE DEF M
<1>4. Grown(published, m, A, M, H)
  BY <1>2 DEF Grown
<1>5. w \in H \ DOMAIN M /\ \A x \in A \cup H : Hops(x) = 1 \/ Cut(x) # w
  BY <1>0, <1>2 DEF Grown
<1>6. PICK B : Grown(published, m, B, M, H) /\ SentOn(air (+) Forwarded(v.packet), m, B)
  BY <1>0, <1>2, <1>4, <1>5, ForwardGrows
<1>7. air' = air (+) Forwarded(v.packet) /\ published' = published /\ handled' = handled
  BY DEF Resume
<1> QED
  BY <1>3, <1>6, <1>7 DEF Traced

\* Time passes on every timer alike, so the waiting ways keep apart.
LEMMA TracedTick ==
    ASSUME Carried, Bagged, NEW m \in Msg, Traced(m), Tick
    PROVE  Traced(m)'
<1> PICK A, L, H : /\ Grown(published, m, A, L, H)
                   /\ SentOn(air, m, A) /\ HeldOn(waiting, m, L) /\ HeardOn(handled, m, H)
  BY DEF Traced
<1> DEFINE M == [x \in DOMAIN L |-> Earlier(L[x])]
<1>1. HeldOn(waiting', m, M)
  <2>1. DOMAIN L \subseteq Trips(m)
    BY DEF Grown
  <2>2. waiting' = BagOfAll(LAMBDA w : [w EXCEPT !.left = Earlier(@)], waiting)
    BY DEF Tick
  <2>3. HeldOn(BagOfAll(LAMBDA w : [w EXCEPT !.left = Earlier(@)], waiting), m, M)
    BY <2>1, CarriedPackets, HeldTick
  <2> HIDE DEF M
  <2> QED
    BY <2>2, <2>3
<1>2. DOMAIN M = DOMAIN L
  OBVIOUS
<1> HIDE DEF M
<1>3. Grown(published, m, A, M, H)
  BY <1>2 DEF Grown
<1> QED
  BY <1>1, <1>3 DEF Traced, Tick

\* Every step keeps the ways.
LEMMA TracedNext ==
    ASSUME Carried, Bagged, NEW m \in Msg, Traced(m), [Next]_vars
    PROVE  Traced(m)'
<1>1. ASSUME NEW o \in Msg, Publish(o) \/ PublishChunk(o) PROVE Traced(m)'
  BY <1>1, TracedPublish
<1>2. ASSUME NEW p \in BagToSet(air), Drop(p) \/ Lose(p) PROVE Traced(m)'
  BY <1>2, TracedLose DEF Drop, Lose
<1>3. ASSUME NEW p \in BagToSet(air), Accept(p) PROVE Traced(m)'
  <2>1. p \in Packets
    BY CarriedPackets DEF BagIn
  <2> QED
    BY <1>3, <2>1, TracedAccept, TracedOther
<1>4. ASSUME NEW v \in BagToSet(waiting), Resume(v) PROVE Traced(m)'
  <2>1. v \in Waits /\ v.packet \in Packets
    BY CarriedPackets DEF BagIn
  <2>2. CASE v.packet \in Plain(m)
    BY <1>4, <2>1, <2>2, TracedResume
  <2>3. CASE v.packet \notin Plain(m)
    BY <1>4, <2>1, <2>3, TracedOther
  <2> QED
    BY <2>2, <2>3
<1>5. CASE Tick
  BY <1>5, TracedTick
<1>6. CASE UNCHANGED <<air, waiting, published, handled>>
  BY <1>6 DEF Traced
<1>7. ASSUME NEW l \in Links, LinkDown(l) \/ LinkUp(l) PROVE Traced(m)'
  BY <1>6, <1>7 DEF LinkDown, LinkUp
<1>8. ASSUME NEW n \in Node, ClearSeenCache(n) PROVE Traced(m)'
  BY <1>6, <1>8 DEF ClearSeenCache
<1>9. CASE UNCHANGED vars
  BY <1>6, <1>9 DEF vars
<1> QED
  BY <1>1, <1>2, <1>3, <1>4, <1>5, <1>7, <1>8, <1>9 DEF Next, Receive

\* At first no way is in use.
LEMMA TracedInit ==
    ASSUME Init, NEW m \in Msg
    PROVE  Traced(m)
<1> DEFINE L == [x \in {} |-> 0]
<1>1. DOMAIN L = {}
  OBVIOUS
<1> HIDE DEF L
<1>2. Grown(published, m, {}, L, {})
  BY <1>1 DEF Grown
<1>3. /\ \A e : Copies(e, EmptyBag) = 0
      /\ \A p, v, n : /\ EndingOn(m, {}, p) = {} /\ Due(m, L, v) = {}
                      /\ LeadingTo({}, n) = {}
  BY <1>1, CopiesType, BagTypes DEF EndingOn, Due, LeadingTo
<1>4. \A p, v, n : /\ Cardinality(EndingOn(m, {}, p)) = 0
                    /\ Cardinality(Due(m, L, v)) = 0
                    /\ Cardinality(LeadingTo({}, n)) = 0
  BY <1>3, FS_EmptySet
<1>5. SentOn(air, m, {}) /\ HeldOn(waiting, m, L)
  BY <1>3, <1>4 DEF Init, SentOn, HeldOn
<1>6. HeardOn(handled, m, {})
  BY <1>4 DEF Init, HeardOn
<1> QED
  BY <1>2, <1>5, <1>6 DEF Traced

\* The sums of NoStorm.
LEMMA CallsAreSum ==
    ASSUME NEW m
    PROVE  MapThenSumSet(LAMBDA n : handled[n][m], Node)
               = SumOver([n \in Node |-> handled[n][m]], Node)
<1> DEFINE f == [n \in Node |-> handled[n][m]]
           A(it) == [s \in SUBSET Node |->
                       IF s = {} THEN 0
                       ELSE LET x == CHOOSE x \in s : TRUE
                            IN  handled[x][m] + it[s \ {x}]]
           B(it) == [s \in SUBSET Node |-> Part(f, s, it)]
<1>1. MapThenSumSet(LAMBDA n : handled[n][m], Node) = (CHOOSE it : it = A(it))[Node]
  BY DEF MapThenSumSet, MapThenFoldSet
<1>2. SumOver(f, Node) = (CHOOSE it : it = B(it))[Node]
  BY DEF SumOver, Partial
<1>3. \A it : A(it) = B(it)
  <2> TAKE it
  <2>1. \A s \in SUBSET Node : s # {} => (CHOOSE x \in s : TRUE) \in Node
    OBVIOUS
  <2> QED
    BY <2>1 DEF Part
<1> HIDE DEF A, B
<1>4. (CHOOSE it : it = A(it)) = (CHOOSE it : it = B(it))
  BY <1>3
<1> QED
  BY <1>1, <1>2, <1>4

\* The bound of NoStorm, with the sum by the number of hops as a sum of a function.
LEMMA WaysAreSum ==
    ASSUME NEW m
    PROVE  MapThenSumSet(LAMBDA k : Cardinality(Ways(m, k)), 1 .. DefaultTtl)
               = SumOver([k \in 1 .. DefaultTtl |-> Cardinality(Ways(m, k))], 1 .. DefaultTtl)
<1> DEFINE S == 1 .. DefaultTtl
           C(k) == Cardinality(Ways(m, k))
           f == [k \in S |-> C(k)]
           A(it) == [s \in SUBSET S |->
                       IF s = {} THEN 0
                       ELSE LET x == CHOOSE x \in s : TRUE
                            IN  C(x) + it[s \ {x}]]
           B(it) == [s \in SUBSET S |-> Part(f, s, it)]
<1>1. MapThenSumSet(LAMBDA k : Cardinality(Ways(m, k)), S) = (CHOOSE it : it = A(it))[S]
  BY DEF MapThenSumSet, MapThenFoldSet
<1>2. SumOver(f, S) = (CHOOSE it : it = B(it))[S]
  BY DEF SumOver, Partial
<1>3. \A it : A(it) = B(it)
  <2> TAKE it
  <2> HIDE DEF S
  <2>1. \A s \in SUBSET S : s # {} => (CHOOSE x \in s : TRUE) \in S
    OBVIOUS
  <2> HIDE DEF C
  <2> QED
    BY <2>1 DEF Part
<1> HIDE DEF A, B
<1>4. (CHOOSE it : it = A(it)) = (CHOOSE it : it = B(it))
  BY <1>3
<1> QED
  BY <1>1, <1>2, <1>4

\* However much the devices forget, lose or delay, their handlers run for a message no
\* more often than there are ways of at most DefaultTtl hops from its origin along which
\* no device sends it back to the one before (GossipProtocol.ts:139-182).
THEOREM NoStormAlways == Spec => []NoStorm
<1>1. Init => Carried /\ Bagged /\ \A m \in Msg : Traced(m)
  BY CarriedInit, BaggedInit, TracedInit
<1>2. /\ Carried /\ Bagged /\ (\A m \in Msg : Traced(m)) /\ [Next]_vars
      => Carried' /\ Bagged' /\ (\A m \in Msg : Traced(m))'
  BY CarriedNext, BaggedNext, TracedNext
<1>3. Carried /\ (\A m \in Msg : Traced(m)) => NoStorm
  <2> SUFFICES ASSUME Carried, NEW m \in Msg, Traced(m)
               PROVE  MapThenSumSet(LAMBDA n : handled[n][m], Node)
                        <= MapThenSumSet(LAMBDA k : Cardinality(Ways(m, k)), 1 .. DefaultTtl)
    BY DEF NoStorm
  <2> DEFINE f == [n \in Node |-> handled[n][m]]
             g == [k \in 1 .. DefaultTtl |-> Cardinality(Ways(m, k))]
  <2>1. PICK A, L, H : Grown(published, m, A, L, H) /\ HeardOn(handled, m, H)
    BY DEF Traced
  <2>2. IsFiniteSet(H) /\ H \in SUBSET Trips(m) /\ IsFiniteSet(Trips(m))
    BY <2>1, FewWays, TripsFinite DEF Grown
  <2> DEFINE part == [n \in Node |-> LeadingTo(H, n)]
  <2>3. \A n \in Node : /\ f[n] \in Nat /\ part[n] \subseteq H
                        /\ f[n] <= Cardinality(part[n])
    BY <2>1 DEF Carried, HeardOn, LeadingTo
  <2>4. \A n, o \in Node : n # o => part[n] \cap part[o] = {}
    BY DEF LeadingTo
  <2>5. Cardinality(Trips(m)) <= SumOver(g, 1 .. DefaultTtl)
    BY TripsFinite
  <2>6. \A k \in 1 .. DefaultTtl : g[k] \in Nat
    <3>1. \A k \in 1 .. DefaultTtl : k \in Nat
      OBVIOUS
    <3> QED
      BY <3>1, WaysFinite, FS_CardinalityType
  <2>7. SumOver(g, 1 .. DefaultTtl) \in Nat
    <3>1. IsFiniteSet(1 .. DefaultTtl)
      BY FS_Interval, GossipAssumption
    <3> HIDE DEF g
    <3> QED
      BY <2>6, <3>1, SumType
  <2> HIDE DEF f, g, part
  <2>8. SumOver(f, Node) <= Cardinality(H)
    BY <2>2, <2>3, <2>4, FinitenessAssumption, SumOfParts
  <2>9. SumOver(f, Node) \in Nat
    BY <2>3, FinitenessAssumption, SumType
  <2>10. /\ Cardinality(H) <= Cardinality(Trips(m))
         /\ Cardinality(H) \in Nat /\ Cardinality(Trips(m)) \in Nat
    BY <2>2, MemberMore
  <2>11. SumOver(f, Node) <= SumOver(g, 1 .. DefaultTtl)
    BY <2>5, <2>7, <2>8, <2>9, <2>10
  <2> QED
    BY <2>11, CallsAreSum, WaysAreSum DEF f, g
<1> QED
  BY <1>1, <1>2, <1>3, PTL DEF Spec

=============================================================================
