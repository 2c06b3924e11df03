--------------------------- MODULE TopologyProofs ---------------------------
(***************************************************************************)
(* Proofs about Topology, for any peers, periods and limits that keep its  *)
(* assumption: its types, and that no live peer is taken for stale.        *)
(***************************************************************************)
EXTENDS Topology, FiniteSetTheorems, TLAPS

\* The assumption, with what it says of one heartbeat more than may be missed.
LEMMA Margins ==
    /\ MaxPeers \in Nat /\ Timeout \in Nat \ {0} /\ Period \in Nat \ {0}
    /\ Cleanup \in Nat \ {0} /\ MaxDelay \in Nat /\ MaxMissed \in Nat /\ MaxDelay < Period
    /\ MaxMissed * Period \in Nat /\ MaxMissed * Period + Period + MaxDelay < Timeout
<1>1. (MaxMissed + 1) * Period = MaxMissed * Period + Period
  BY TopologyAssumption
<1>2. MaxMissed * Period \in Nat
  BY TopologyAssumption
<1> QED
  BY <1>1, <1>2, TopologyAssumption

\* More heartbeats missed take more time.
LEMMA MoreMissed ==
    ASSUME NEW k \in 0 .. MaxMissed
    PROVE  /\ k * Period \in Nat /\ k * Period <= MaxMissed * Period
           /\ (k + 1) * Period = k * Period + Period
<1>1. k * Period \in Nat /\ (MaxMissed - k) * Period \in Nat
  BY Margins
<1>2. (MaxMissed - k) * Period = MaxMissed * Period - k * Period
  BY Margins
<1>3. (k + 1) * Period = k * Period + Period
  BY Margins
<1> QED
  BY <1>1, <1>2, <1>3, Margins
-----------------------------------------------------------------------------
(* Types *)

\* The list is finite, which the count of it needs.
TypeInv == TypeOK /\ IsFiniteSet(DOMAIN peers)

Lists == {l \in UNION {[D -> 0 .. Timeout] : D \in SUBSET Peer} :
             IsFiniteSet(DOMAIN l) /\ Cardinality(DOMAIN l) <= MaxPeers}

LEMMA ListType ==
    ASSUME NEW l
    PROVE  l \in Lists <=> /\ DOMAIN l \subseteq Peer /\ l \in [DOMAIN l -> 0 .. Timeout]
                           /\ IsFiniteSet(DOMAIN l) /\ Cardinality(DOMAIN l) <= MaxPeers
BY DEF Lists

\* A list from which peers are taken is a list.
LEMMA CutType ==
    ASSUME NEW l \in Lists, NEW D \in SUBSET DOMAIN l
    PROVE  [q \in D |-> l[q]] \in Lists
<1>1. /\ DOMAIN l \subseteq Peer /\ l \in [DOMAIN l -> 0 .. Timeout]
      /\ IsFiniteSet(DOMAIN l) /\ Cardinality(DOMAIN l) <= MaxPeers
      /\ Cardinality(DOMAIN l) \in Nat
  BY ListType, FS_CardinalityType
<1>2. IsFiniteSet(D) /\ Cardinality(D) <= Cardinality(DOMAIN l) /\ Cardinality(D) \in Nat
  BY <1>1, FS_Subset, FS_CardinalityType
<1> DEFINE k == [q \in D |-> l[q]]
<1>3. DOMAIN k = D /\ k \in [D -> 0 .. Timeout]
  BY <1>1
<1> HIDE DEF k
<1>4. k \in Lists
  BY <1>1, <1>2, <1>3, ListType, Margins
<1> QED
  BY <1>4 DEF k

\* What the handlers make of a list is a list.
LEMMA HandlersType ==
    ASSUME NEW l \in Lists, NEW p \in Peer
    PROVE  /\ HandleHeartbeat(l, p) \in Lists /\ HandleDiscovery(l, p) \in Lists
           /\ RemovePeer(l, p) \in Lists
<1>1. /\ DOMAIN l \subseteq Peer /\ l \in [DOMAIN l -> 0 .. Timeout]
      /\ IsFiniteSet(DOMAIN l) /\ Cardinality(DOMAIN l) <= MaxPeers
      /\ Cardinality(DOMAIN l) \in Nat
  BY ListType, FS_CardinalityType
<1>2. ASSUME p \in DOMAIN l \/ ~Full(l) PROVE AddPeer(l, p) \in Lists
  <2>1. /\ DOMAIN AddPeer(l, p) = DOMAIN l \cup {p}
        /\ AddPeer(l, p) \in [DOMAIN l \cup {p} -> 0 .. Timeout]
    BY <1>1, Margins DEF AddPeer
  <2>2. /\ IsFiniteSet(DOMAIN l \cup {p})
        /\ Cardinality(DOMAIN l \cup {p}) =
              IF p \in DOMAIN l THEN Cardinality(DOMAIN l) ELSE Cardinality(DOMAIN l) + 1
    BY <1>1, FS_AddElement
  <2>3. Cardinality(DOMAIN l \cup {p}) <= MaxPeers
    BY <1>1, <1>2, <2>2, Margins DEF Full
  <2> QED
    BY <1>1, <2>1, <2>2, <2>3, ListType
<1>4. HandleHeartbeat(l, p) \in Lists /\ HandleDiscovery(l, p) \in Lists
  BY <1>2 DEF HandleHeartbeat, HandleDiscovery
<1>5. RemovePeer(l, p) \in Lists
  BY CutType DEF RemovePeer
<1> QED
  BY <1>4, <1>5

LEMMA TypeInit == Init => TypeInv
<1> SUFFICES ASSUME Init PROVE TypeInv
  OBVIOUS
<1>1. DOMAIN peers = {} /\ IsFiniteSet({}) /\ Cardinality({}) = 0
  BY FS_EmptySet DEF Init
<1>2. peers \in [DOMAIN peers -> 0 .. Timeout]
  BY DEF Init
<1>3. running \in BOOLEAN /\ leaked \in BOOLEAN
  BY DEF Init
<1>4. /\ cleanup \in 0 .. Cleanup /\ beat \in [Peer -> 0 .. Period]
      /\ missed \in [Peer -> 0 .. MaxMissed]
  BY Margins DEF Init
<1>5. up \in SUBSET Peer /\ air \in SUBSET Messages /\ steady \in SUBSET Peer
  BY DEF Init
<1>6. DOMAIN peers \subseteq Peer /\ Cardinality(DOMAIN peers) <= MaxPeers
  BY <1>1, Margins
<1> QED
  BY <1>1, <1>2, <1>3, <1>4, <1>5, <1>6 DEF TypeInv, TypeOK

\* The parts of the state beside the list.
RestType ==
    /\ running \in BOOLEAN /\ cleanup \in 0 .. Cleanup /\ leaked \in BOOLEAN
    /\ up \in SUBSET Peer /\ beat \in [Peer -> 0 .. Period]
    /\ air \in SUBSET Messages
    /\ missed \in [Peer -> 0 .. MaxMissed]
    /\ steady \in SUBSET Peer

LEMMA TypeParts == TypeInv <=> peers \in Lists /\ RestType
BY ListType DEF TypeInv, TypeOK, RestType

LEMMA TypeNext == TypeInv /\ [Next]_vars => TypeInv'
<1> SUFFICES ASSUME peers \in Lists, RestType, [Next]_vars
             PROVE  peers' \in Lists /\ RestType'
  BY TypeParts, ListType DEF TypeInv, TypeOK, RestType
<1> USE DEF RestType, timerVars
<1>1. ASSUME NEW p \in Peer, ComeUp(p) \/ GoDown(p) PROVE peers' \in Lists /\ RestType'
  BY <1>1, Margins DEF ComeUp, GoDown
<1>2. ASSUME NEW p \in Peer, AnnouncePresence(p) \/ HeartbeatFires(p)
      PROVE  peers' \in Lists /\ RestType'
  BY <1>2, Margins DEF AnnouncePresence, HeartbeatFires, Fresher, Messages
<1>3. ASSUME NEW p \in Peer, DeregisterPeer(p) PROVE peers' \in Lists /\ RestType'
  BY <1>3, HandlersType DEF DeregisterPeer
<1>4. ASSUME NEW m \in air, Receive(m) PROVE peers' \in Lists /\ RestType'
  <2>1. m.from \in Peer
    BY DEF Messages
  <2>2. peers' \in Lists
    BY <1>4, <2>1, HandlersType DEF Receive
  <2>3. missed' \in [Peer -> 0 .. MaxMissed] /\ steady' \in SUBSET Peer
    BY <1>4, <2>1, Margins DEF Receive
  <2> QED
    BY <1>4, <2>2, <2>3 DEF Receive
<1>5. ASSUME NEW m \in air, Lose(m) PROVE peers' \in Lists /\ RestType'
  <2>1. m.from \in Peer
    BY DEF Messages
  <2>2. \/ missed' = missed
        \/ missed[m.from] < MaxMissed /\ missed' = [missed EXCEPT ![m.from] = @ + 1]
    BY <1>5 DEF Lose
  <2>3. missed' \in [Peer -> 0 .. MaxMissed]
    <3>1. CASE missed' = missed
      BY <3>1
    <3>2. CASE missed[m.from] < MaxMissed /\ missed' = [missed EXCEPT ![m.from] = @ + 1]
      BY <3>2, <2>1, Margins
    <3> QED
      BY <2>2, <3>1, <3>2
  <2> QED
    BY <1>5, <2>3 DEF Lose
<1>6. ASSUME Stop \/ Initialize PROVE peers' \in Lists /\ RestType'
  <2>1. Cleanup \in 0 .. Cleanup
    BY Margins
  <2>2. peers' = peers /\ running' \in BOOLEAN /\ cleanup' \in {cleanup, Cleanup}
    BY <1>6 DEF Stop, Initialize
  <2> QED
    BY <1>6, <2>1, <2>2 DEF Stop, Initialize
<1>7. ASSUME CleanupFires \/ LeakedFires PROVE peers' \in Lists /\ RestType'
  <2>1. peers' \in Lists
    BY <1>7, CutType DEF CleanupFires, LeakedFires, RemoveStale
  <2> QED
    BY <1>7, <2>1, Margins DEF CleanupFires, LeakedFires
<1>8. ASSUME Tick PROVE peers' \in Lists /\ RestType'
  <2>1. peers' \in Lists
    <3>1. /\ DOMAIN peers \subseteq Peer /\ peers \in [DOMAIN peers -> 0 .. Timeout]
          /\ IsFiniteSet(DOMAIN peers) /\ Cardinality(DOMAIN peers) <= MaxPeers
      BY ListType
    <3>2. /\ DOMAIN peers' = DOMAIN peers
          /\ peers' \in [DOMAIN peers -> 0 .. Timeout]
      BY <1>8, <3>1, Margins DEF Tick, Older
    <3> QED
      BY <3>1, <3>2, ListType
  <2>2. cleanup' \in 0 .. Cleanup /\ beat' \in [Peer -> 0 .. Period]
    BY <1>8, Margins DEF Tick
  <2>3. air' \in SUBSET Messages
    BY <1>8, Margins DEF Tick, Messages
  <2> QED
    BY <1>8, <2>1, <2>2, <2>3 DEF Tick
<1>9. CASE UNCHANGED vars
  BY <1>9 DEF vars
<1> QED
  BY <1>1, <1>2, <1>3, <1>4, <1>5, <1>6, <1>7, <1>8, <1>9 DEF Next

\* The list stays one of peers, within its limit, whatever arrives and whichever timer
\* fires (MeshTopologyManager.ts, meshSlice.ts).
THEOREM TypeCorrect == Spec => []TypeOK
<1>1. TypeInv => TypeOK
  BY DEF TypeInv
<1> QED
  BY <1>1, TypeInit, TypeNext, PTL DEF Spec
-----------------------------------------------------------------------------
(* Live peers *)

\* The heartbeats of a peer on their way, and the ticks since the last was due to leave.
Beats(p) == {m \in air : m.type = "HEARTBEAT" /\ m.from = p}
Phase(p) == Period - beat[p]

\* No two heartbeats of a peer are on their way, and the one there is left before the
\* present phase began.
OneBeat ==
    \A p \in Peer :
        /\ p \notin up => beat[p] = Period
        /\ \A m, k \in Beats(p) : m = k
        /\ p \in up => \A m \in Beats(p) : Phase(p) <= m.age

\* The age of a live peer's entry is made up of the heartbeats it missed, of the one that
\* is on its way and of the phase of its timer.
Young ==
    \A p \in steady :
        /\ p \in up /\ p \in DOMAIN peers
        /\ Beats(p) = {} => peers[p] <= missed[p] * Period + Phase(p)
        /\ Beats(p) # {} => peers[p] <= missed[p] * Period + Period + Phase(p)

LiveInv == OneBeat /\ Young

\* A live peer is younger than the timeout.
LEMMA YoungIsFresh ==
    ASSUME TypeInv, LiveInv, NEW p \in steady
    PROVE  Fresh(peers[p])
<1>1. /\ p \in Peer /\ p \in up /\ p \in DOMAIN peers
      /\ peers[p] \in Nat /\ beat[p] \in 0 .. Period /\ missed[p] \in 0 .. MaxMissed
  BY DEF TypeInv, TypeOK, LiveInv, Young
<1>2. missed[p] * Period \in Nat /\ missed[p] * Period <= MaxMissed * Period
  BY <1>1, MoreMissed
<1>3. CASE Beats(p) = {}
  <2>1. peers[p] <= missed[p] * Period + Phase(p)
    BY <1>3 DEF LiveInv, Young
  <2> HIDE DEF Fresh
  <2>2. peers[p] < Timeout
    BY <1>1, <1>2, <2>1, Margins DEF Phase
  <2> QED
    BY <2>2 DEF Fresh
<1>4. CASE Beats(p) # {}
  <2>1. PICK m \in Beats(p) : TRUE
    BY <1>4
  <2>2. Phase(p) <= m.age /\ m.age \in 0 .. MaxDelay
    BY <1>1, <2>1 DEF LiveInv, OneBeat, Beats, TypeInv, TypeOK, Messages
  <2>3. peers[p] <= missed[p] * Period + Period + Phase(p)
    BY <1>4 DEF LiveInv, Young
  <2>4. peers[p] < Timeout
    BY <1>1, <1>2, <2>2, <2>3, Margins DEF Phase
  <2> QED
    BY <2>4 DEF Fresh
<1> QED
  BY <1>3, <1>4

LEMMA LiveInit == Init => LiveInv
<1> SUFFICES ASSUME Init PROVE LiveInv
  OBVIOUS
<1>1. \A p \in Peer : Beats(p) = {} /\ beat[p] = Period
  BY DEF Init, Beats
<1> QED
  BY <1>1 DEF Init, LiveInv, OneBeat, Young

\* What HandleHeartbeat and HandleDiscovery leave of a list.
LEMMA HandlersKeep ==
    ASSUME NEW l \in Lists, NEW p \in Peer, NEW new,
           new = HandleHeartbeat(l, p) \/ new = HandleDiscovery(l, p)
    PROVE  /\ DOMAIN l \subseteq DOMAIN new
           /\ \A q \in DOMAIN l : q # p => new[q] = l[q]
           /\ \A q \in DOMAIN l : new[q] = l[q] \/ new[q] = 0
           /\ p \in DOMAIN l /\ new = HandleHeartbeat(l, p) => new[p] = 0
           /\ p \notin DOMAIN l /\ p \in DOMAIN new => new[p] = 0
<1>1. CASE new = l
  BY <1>1 DEF HandleHeartbeat, AddPeer
<1>2. CASE new = AddPeer(l, p)
  BY <1>2 DEF AddPeer
<1> QED
  BY <1>1, <1>2 DEF HandleHeartbeat, HandleDiscovery

LEMMA LiveNext == TypeInv /\ LiveInv /\ [Next]_vars => LiveInv'
<1> SUFFICES ASSUME TypeInv, LiveInv, [Next]_vars
             PROVE  LiveInv'
  OBVIOUS
<1>0. peers \in Lists /\ RestType /\ TypeInv'
  BY TypeParts, TypeNext
<1>a. OneBeat /\ Young
  BY DEF LiveInv
<1>1. ASSUME NEW p \in Peer, ComeUp(p) PROVE LiveInv'
  <2>1. /\ p \notin up /\ beat[p] = Period /\ p \notin steady
    BY <1>1, <1>a DEF ComeUp, OneBeat, Young
  <2>2. \A q \in Peer : Beats(q)' = Beats(q) /\ Phase(q)' = Phase(q)
    BY <1>1 DEF ComeUp, Beats, Phase
  <2>3. OneBeat'
    BY <1>0, <1>1, <1>a, <2>1, <2>2, Margins
       DEF ComeUp, OneBeat, Beats, Phase, RestType, Messages
  <2>4. Young'
    BY <1>0, <1>1, <1>a, <2>1, <2>2 DEF ComeUp, Young, RestType
  <2> QED
    BY <2>3, <2>4 DEF LiveInv
<1>2. ASSUME NEW p \in Peer, GoDown(p) PROVE LiveInv'
  <2>1. /\ \A q \in Peer : Beats(q)' = Beats(q)
        /\ \A q \in Peer \ {p} : Phase(q)' = Phase(q) /\ beat'[q] = beat[q]
        /\ beat'[p] = Period
    BY <1>0, <1>2 DEF GoDown, Beats, Phase, RestType
  <2>2. OneBeat'
    BY <1>2, <1>a, <2>1 DEF GoDown, OneBeat
  <2>3. Young'
    BY <1>0, <1>2, <1>a, <2>1 DEF GoDown, Young, RestType
  <2> QED
    BY <2>2, <2>3 DEF LiveInv
<1>3. ASSUME NEW p \in Peer, AnnouncePresence(p) PROVE LiveInv'
  <2>1. \A q \in Peer : Beats(q)' = Beats(q) /\ Phase(q)' = Phase(q)
    BY <1>3 DEF AnnouncePresence, Fresher, Beats, Phase
  <2> QED
    BY <1>0, <1>3, <1>a, <2>1
       DEF AnnouncePresence, LiveInv, OneBeat, Young, RestType
<1>4. ASSUME NEW p \in Peer, HeartbeatFires(p) PROVE LiveInv'
  <2> DEFINE new == Fresher("HEARTBEAT", p)
  <2>1. p \in up /\ beat[p] = 0 /\ Phase(p) = Period
    BY <1>4, Margins DEF HeartbeatFires, Phase
  <2>2. Beats(p) = {}
    BY <1>0, <1>a, <2>1, Margins DEF OneBeat, Beats, RestType, Messages
  <2>3. /\ \A q \in Peer \ {p} : Beats(q)' = Beats(q) /\ Phase(q)' = Phase(q)
        /\ Beats(p)' = {new} /\ new.age = 0
        /\ beat'[p] = Period /\ Phase(p)' = 0
        /\ \A q \in Peer \ {p} : beat'[q] = beat[q]
    <3>1. \A q \in Peer \ {p} : beat'[q] = beat[q]
      BY <1>0, <1>4 DEF HeartbeatFires, RestType
    <3>2. beat'[p] = Period /\ Phase(p)' = 0
      BY <1>0, <1>4, Margins DEF HeartbeatFires, RestType, Phase
    <3>3. \A q \in Peer \ {p} : Beats(q)' = Beats(q) /\ Phase(q)' = Phase(q)
      BY <1>4, <3>1 DEF HeartbeatFires, Fresher, Beats, Phase
    <3>4. Beats(p)' = {new} /\ new.age = 0
      BY <1>4, <2>2 DEF HeartbeatFires, Fresher, Beats
    <3> QED
      BY <3>1, <3>2, <3>3, <3>4
  <2> HIDE DEF new
  <2>4. OneBeat'
    BY <1>4, <1>a, <2>1, <2>3 DEF HeartbeatFires, OneBeat
  <2>5. ASSUME p \in steady PROVE peers[p] <= missed[p] * Period + Period
    BY <1>a, <2>1, <2>2, <2>5 DEF Young
  <2>6. missed[p] * Period + Period = missed[p] * Period + Period + Phase(p)'
    BY <1>0, <2>3, MoreMissed, Margins DEF RestType
  <2>7. Young'
    BY <1>0, <1>4, <1>a, <2>3, <2>5, <2>6 DEF HeartbeatFires, Young, RestType
  <2> QED
    BY <2>4, <2>7 DEF LiveInv
<1>5. ASSUME NEW p \in Peer, DeregisterPeer(p) PROVE LiveInv'
  <2>1. \A q \in Peer : Beats(q)' = Beats(q) /\ Phase(q)' = Phase(q)
    BY <1>5 DEF DeregisterPeer, Beats, Phase
  <2>2. \A q \in DOMAIN peers \ {p} : q \in DOMAIN peers' /\ peers'[q] = peers[q]
    BY <1>5 DEF DeregisterPeer, RemovePeer
  <2>3. OneBeat'
    BY <1>5, <1>a, <2>1 DEF DeregisterPeer, OneBeat
  <2>4. Young'
    BY <1>0, <1>5, <1>a, <2>1, <2>2 DEF DeregisterPeer, Young, RestType
  <2> QED
    BY <2>3, <2>4 DEF LiveInv
<1>6. ASSUME NEW m \in air, Receive(m) PROVE LiveInv'
  <2> DEFINE p == m.from
  <2>1. p \in Peer /\ m.type \in {"DISCOVERY", "HEARTBEAT"}
    BY <1>0 DEF RestType, Messages
  <2>2. \A q \in Peer : Beats(q)' = Beats(q) \ {m} /\ Phase(q)' = Phase(q)
    BY <1>6 DEF Receive, Beats, Phase
  <2>3. \A q \in Peer : m.type # "HEARTBEAT" \/ q # p => Beats(q)' = Beats(q)
    BY <2>2 DEF Beats
  <2>4. m.type = "HEARTBEAT" => Beats(p)' = {}
    BY <1>a, <2>1, <2>2 DEF OneBeat, Beats
  <2>5. OneBeat'
    BY <1>6, <1>a, <2>2 DEF Receive, OneBeat
  <2>6. \/ peers' = HandleHeartbeat(peers, p) /\ m.type = "HEARTBEAT"
        \/ peers' = HandleDiscovery(peers, p) /\ m.type = "DISCOVERY"
    BY <1>6, <2>1 DEF Receive
  <2>7. /\ DOMAIN peers \subseteq DOMAIN peers'
        /\ \A q \in DOMAIN peers : q # p => peers'[q] = peers[q]
        /\ \A q \in DOMAIN peers : peers'[q] = peers[q] \/ peers'[q] = 0
        /\ p \in DOMAIN peers /\ m.type = "HEARTBEAT" => peers'[p] = 0
        /\ p \notin DOMAIN peers /\ p \in DOMAIN peers' => peers'[p] = 0
    <3> HIDE DEF p
    <3> QED
      BY <1>0, <2>1, <2>6, HandlersKeep
  <2>8. /\ \A q \in Peer \ {p} : missed'[q] = missed[q] /\ (q \in steady' <=> q \in steady)
        /\ missed'[p] = missed[p] \/ missed'[p] = 0
        /\ m.type # "HEARTBEAT" => missed' = missed
        /\ p \in steady' /\ p \notin steady =>
              /\ p \in up /\ p \in DOMAIN peers'
              /\ m.type = "HEARTBEAT" \/ p \notin DOMAIN peers
        /\ up' = up
    BY <1>0, <1>6, <2>1 DEF Receive, RestType
  <2>9. \A q \in Peer : Phase(q) \in Nat /\ missed[q] * Period \in Nat /\ missed'[q] * Period \in Nat
    BY <1>0, MoreMissed, Margins DEF RestType, Phase, TypeInv, TypeOK
  <2>10. ASSUME NEW q \in steady'
         PROVE  /\ q \in up' /\ q \in DOMAIN peers'
                /\ Beats(q)' = {} => peers'[q] <= missed'[q] * Period + Phase(q)
                /\ Beats(q)' # {} => peers'[q] <= missed'[q] * Period + Period + Phase(q)
    <3>1. q \in Peer
      BY <1>0 DEF TypeInv, TypeOK
    <3>2. CASE q # p
      BY <3>1, <3>2, <1>a, <2>3, <2>7, <2>8 DEF Young
    <3>3. CASE q = p /\ peers'[q] = 0
      <4>1. q \in up' /\ q \in DOMAIN peers'
        BY <3>1, <3>3, <1>a, <2>7, <2>8 DEF Young
      <4>2. Phase(q) \in Nat /\ missed'[q] * Period \in Nat
        BY <3>1, <2>9
      <4> QED
        BY <3>3, <4>1, <4>2, Margins
    <3>4. CASE q = p /\ peers'[q] # 0
      <4>1. q \in steady /\ m.type = "DISCOVERY"
        BY <3>4, <2>1, <2>7, <2>8, <1>a DEF Young
      <4>2. /\ q \in up /\ q \in DOMAIN peers /\ peers'[q] = peers[q]
        BY <3>4, <4>1, <1>a, <2>7 DEF Young
      <4> QED
        BY <3>1, <3>4, <4>1, <4>2, <1>a, <2>3, <2>7, <2>8 DEF Young
    <3> QED
      BY <3>2, <3>3, <3>4
  <2>11. Young'
    BY <1>0, <2>2, <2>10 DEF Young, TypeInv, TypeOK
  <2> QED
    BY <2>5, <2>11 DEF LiveInv
<1>7. ASSUME NEW m \in air, Lose(m) PROVE LiveInv'
  <2> DEFINE p == m.from
  <2>1. p \in Peer /\ m.type \in {"DISCOVERY", "HEARTBEAT"}
    BY <1>0 DEF RestType, Messages
  <2>2. \A q \in Peer : Beats(q)' = Beats(q) \ {m} /\ Phase(q)' = Phase(q)
    BY <1>7 DEF Lose, Beats, Phase
  <2>3. \A q \in Peer : m.type # "HEARTBEAT" \/ q # p => Beats(q)' = Beats(q)
    BY <2>2 DEF Beats
  <2>4. OneBeat'
    BY <1>7, <1>a, <2>2 DEF Lose, OneBeat
  <2>5. peers' = peers /\ up' = up /\ steady' = steady
    BY <1>7 DEF Lose
  <2>6. /\ \A q \in Peer \ {p} : missed'[q] = missed[q]
        /\ m.type = "DISCOVERY" => missed' = missed
        /\ m.type = "HEARTBEAT" /\ p \in up => missed'[p] = missed[p] + 1
    BY <1>0, <1>7, <2>1 DEF Lose, RestType
  <2>7. ASSUME NEW q \in steady
        PROVE  /\ Beats(q)' = {} => peers[q] <= missed'[q] * Period + Phase(q)
               /\ Beats(q)' # {} => peers[q] <= missed'[q] * Period + Period + Phase(q)
    <3>1. q \in Peer /\ q \in up /\ q \in DOMAIN peers
      BY <1>0, <1>a DEF TypeInv, TypeOK, Young
    <3>2. CASE q # p \/ m.type # "HEARTBEAT"
      BY <3>1, <3>2, <1>a, <2>1, <2>3, <2>6 DEF Young
    <3>3. CASE q = p /\ m.type = "HEARTBEAT"
      <4>1. Beats(q) # {} /\ Beats(q)' = {}
        BY <3>1, <3>3, <1>a, <2>2 DEF OneBeat, Beats
      <4>2. missed'[q] * Period = missed[q] * Period + Period
        BY <1>0, <3>1, <3>3, <2>6, MoreMissed DEF RestType
      <4> QED
        BY <4>1, <4>2, <1>a DEF Young
    <3> QED
      BY <3>2, <3>3
  <2>8. Young'
    BY <1>0, <1>a, <2>2, <2>5, <2>7 DEF Young, TypeInv, TypeOK
  <2> QED
    BY <2>4, <2>8 DEF LiveInv
<1>8. ASSUME Stop \/ Initialize PROVE LiveInv'
  BY <1>8, <1>a DEF Stop, Initialize, LiveInv, OneBeat, Young, Beats, Phase
<1>9. ASSUME CleanupFires \/ LeakedFires PROVE LiveInv'
  <2>1. \A p \in steady : p \in DOMAIN peers' /\ peers'[p] = peers[p]
    BY <1>9, <1>a, YoungIsFresh DEF CleanupFires, LeakedFires, RemoveStale, Young
  <2>2. \A p \in Peer : Beats(p)' = Beats(p) /\ Phase(p)' = Phase(p)
    BY <1>9 DEF CleanupFires, LeakedFires, Beats, Phase
  <2>3. OneBeat'
    BY <1>9, <1>a, <2>2 DEF CleanupFires, LeakedFires, OneBeat
  <2>4. Young'
    BY <1>0, <1>9, <1>a, <2>1, <2>2 DEF CleanupFires, LeakedFires, Young, RestType
  <2> QED
    BY <2>3, <2>4 DEF LiveInv
<1>10. ASSUME Tick PROVE LiveInv'
  <2> DEFINE Later(m) == [m EXCEPT !.age = @ + 1]
  <2>1. ASSUME NEW m \in air PROVE Later(m).type = m.type /\ Later(m).from = m.from
                                   /\ Later(m).age = m.age + 1
    BY <1>0, <2>1 DEF RestType, Messages
  <2>2. air' = {Later(m) : m \in air}
    BY <1>10 DEF Tick
  <2> HIDE DEF Later
  <2>3. \A p \in Peer : Beats(p)' = {Later(m) : m \in Beats(p)}
    BY <2>1, <2>2 DEF Beats
  <2>4. /\ up' = up /\ missed' = missed /\ steady' = steady /\ DOMAIN peers' = DOMAIN peers
        /\ \A p \in up : Phase(p)' = Phase(p) + 1
        /\ \A p \in Peer \ up : beat'[p] = beat[p]
    BY <1>0, <1>10, Margins DEF Tick, Phase, RestType
  <2>5. \A p \in DOMAIN peers : peers'[p] <= peers[p] + 1
    BY <1>0, <1>10, Margins DEF Tick, Older, TypeInv, TypeOK
  <2>6. OneBeat'
    <3>1. \A p \in Peer : p \notin up' => beat'[p] = Period
      BY <1>a, <2>4 DEF OneBeat
    <3>2. \A p \in Peer : \A m, k \in Beats(p)' : m = k
      BY <1>a, <2>3 DEF OneBeat
    <3>3. ASSUME NEW p \in up', NEW n \in Beats(p)' PROVE Phase(p)' <= n.age
      <4>1. p \in Peer /\ p \in up
        BY <1>0, <2>4 DEF RestType
      <4>2. PICK m \in Beats(p) : n = Later(m)
        BY <2>3, <4>1
      <4>3. /\ Phase(p) <= m.age /\ n.age = m.age + 1 /\ m.age \in Nat /\ Phase(p) \in Nat
        BY <1>0, <1>a, <2>1, <4>1, <4>2, Margins
           DEF OneBeat, Beats, RestType, Messages, Phase
      <4> QED
        BY <2>4, <4>1, <4>3
    <3> QED
      BY <3>1, <3>2, <3>3 DEF OneBeat
  <2>7. Young'
    <3> SUFFICES ASSUME NEW p \in steady
                 PROVE  /\ p \in up /\ p \in DOMAIN peers
                        /\ Beats(p)' = {} => peers'[p] <= missed[p] * Period + Phase(p)'
                        /\ Beats(p)' # {} =>
                              peers'[p] <= missed[p] * Period + Period + Phase(p)'
      BY <2>4 DEF Young
    <3>1. /\ p \in Peer /\ p \in up /\ p \in DOMAIN peers
      BY <1>0, <1>a DEF RestType, Young
    <3>2. /\ peers[p] \in Nat /\ peers'[p] \in Nat /\ peers'[p] <= peers[p] + 1
          /\ missed[p] * Period \in Nat /\ Phase(p) \in Nat /\ Phase(p)' = Phase(p) + 1
      BY <1>0, <2>4, <2>5, <3>1, MoreMissed, Margins DEF RestType, TypeInv, TypeOK, Phase
    <3>3. Beats(p)' = {} <=> Beats(p) = {}
      BY <2>3, <3>1
    <3> QED
      BY <1>a, <3>1, <3>2, <3>3, Margins DEF Young
  <2> QED
    BY <2>6, <2>7 DEF LiveInv
<1>11. CASE UNCHANGED vars
  BY <1>11, <1>a DEF vars, LiveInv, OneBeat, Young, Beats, Phase
<1> QED
  BY <1>1, <1>2, <1>3, <1>4, <1>5, <1>6, <1>7, <1>8, <1>9, <1>10, <1>11 DEF Next

\* No peer that is up, and of whose heartbeats no more than MaxMissed in a row are lost,
\* is taken for stale, for any phases of the timers, delays and limit on the list
\* (MeshTopologyManager.ts:121-162, meshSlice.ts:66).
THEOREM LiveIsKeptAlways == Spec => []LiveIsKept
<1>1. LiveInv => LiveIsKept
  BY DEF LiveInv, Young, LiveIsKept
<1> QED
  BY <1>1, TypeInit, TypeNext, LiveInit, LiveNext, PTL DEF Spec
=============================================================================
