------------------------------ MODULE Topology ------------------------------
(***************************************************************************)
(* services/mesh/MeshTopologyManager.ts and store/meshSlice.ts: the list   *)
(* of peers one device keeps of the others.                                *)
(*                                                                         *)
(* Time passes in ticks, and timers are punctual: no tick passes one that  *)
(* is due.  A message of a peer that is up reaches the device at most      *)
(* MaxDelay ticks after it was published, and of its heartbeats at most    *)
(* MaxMissed in a row are lost; what the mesh does to get it there is the  *)
(* module Gossip.                                                          *)
(***************************************************************************)
EXTENDS Naturals, FiniteSets

CONSTANTS
    Peer,       \* the other devices
    MaxPeers,   \* MAX_PEERS
    Timeout,    \* PEER_TIMEOUT_MS, in ticks
    Period,     \* HEARTBEAT_INTERVAL_MS
    Cleanup,    \* the period of the cleanup timer, PEER_TIMEOUT_MS / 3
    MaxDelay,   \* bound on the time a message is on its way
    MaxMissed   \* bound on the heartbeats lost in a row

\* A message is gone before the next of its kind is published, and the next heartbeat
\* that arrives is in time.
ASSUME TopologyAssumption ==
    /\ MaxPeers \in Nat /\ Timeout \in Nat /\ MaxDelay \in Nat /\ MaxMissed \in Nat
    /\ Period \in Nat \ {0} /\ Cleanup \in Nat \ {0}
    /\ MaxDelay < Period
    /\ (MaxMissed + 1) * Period + MaxDelay < Timeout

VARIABLES
    peers,     \* of every peer in the list, the ticks since its lastSeen, up to Timeout
    running,   \* the timers of the last initialize are set: stop was not called since
    cleanup,   \* ticks until the cleanup timer fires, Cleanup when there is none
    leaked,    \* a cleanup timer runs that a later initialize put out of the field
    up,        \* the peers whose own manager runs
    beat,      \* ticks until a peer's heartbeat timer fires, likewise
    air,       \* the messages on their way, each with the ticks since it was published
    missed,    \* the heartbeats of a peer that were lost since one arrived
    \* History:
    steady     \* the peers that have been up since a heartbeat of theirs, or the
               \* announcement that listed them, came

timerVars == <<running, cleanup, leaked>>
vars == <<peers, timerVars, up, beat, air, missed, steady>>

Messages == [type : {"DISCOVERY", "HEARTBEAT"}, from : Peer, age : 0 .. MaxDelay]

\* Types, and the limit on the list.
TypeOK ==
    /\ DOMAIN peers \subseteq Peer /\ Cardinality(DOMAIN peers) <= MaxPeers
    /\ peers \in [DOMAIN peers -> 0 .. Timeout]
    /\ running \in BOOLEAN /\ cleanup \in 0 .. Cleanup /\ leaked \in BOOLEAN
    /\ up \in SUBSET Peer /\ beat \in [Peer -> 0 .. Period]
    /\ air \in SUBSET Messages
    /\ missed \in [Peer -> 0 .. MaxMissed]
    /\ steady \in SUBSET Peer

\* The device has just called initialize.
Init ==
    /\ peers = [p \in {} |-> 0] /\ running = TRUE /\ cleanup = Cleanup /\ leaked = FALSE
    /\ up = {} /\ beat = [p \in Peer |-> Period]
    /\ air = {} /\ missed = [p \in Peer |-> 0] /\ steady = {}
-----------------------------------------------------------------------------
(* The list *)

\* Mutant: a peer that is listed keeps the lastSeen it has.
KeepLastSeen(list, p) ==
    [q \in DOMAIN list \cup {p} |-> IF q \in DOMAIN list THEN list[q] ELSE 0]

\* addPeer
AddPeer(list, p) == [q \in DOMAIN list \cup {p} |-> IF q = p THEN 0 ELSE list[q]]

\* removePeer
RemovePeer(list, p) == [q \in DOMAIN list \ {p} |-> list[q]]

\* Mutant: the list may exceed its limit by one.
OneOverFull(list) == Cardinality(DOMAIN list) > MaxPeers

\* registerPeer looks at the length only: when the list is full, a peer that is in
\* it is not refreshed either.
Full(list) == Cardinality(DOMAIN list) >= MaxPeers

\* Mutant: the timeout is taken for seconds.
NeverStale(age) == age < 1000 * Timeout

Fresh(age) == age < Timeout

\* removeStale
RemoveStale(list) == [q \in {r \in DOMAIN list : Fresh(list[r])} |-> list[q]]

\* handleHeartbeat adds no peer that is not listed.
HandleHeartbeat(list, p) == IF p \in DOMAIN list THEN AddPeer(list, p) ELSE list

\* handleDiscoveryMessage
HandleDiscovery(list, p) == IF Full(list) THEN list ELSE AddPeer(list, p)
-----------------------------------------------------------------------------
(* The peers *)

\* A peer calls initialize.
ComeUp(p) ==
    /\ p \notin up
    /\ up' = up \cup {p}
    /\ missed' = [missed EXCEPT ![p] = 0]
    /\ UNCHANGED <<peers, timerVars, beat, air, steady>>

\* A peer calls stop, or leaves the mesh.
GoDown(p) ==
    /\ p \in up
    /\ up' = up \ {p}
    /\ beat' = [beat EXCEPT ![p] = Period]
    /\ steady' = steady \ {p}
    /\ UNCHANGED <<peers, timerVars, air, missed>>

Fresher(type, p) == [type |-> type, from |-> p, age |-> 0]

\* Nothing in the code repeats an announcement; it is made whenever the app asks.
AnnouncePresence(p) ==
    /\ p \in up
    /\ \A m \in air : ~(m.type = "DISCOVERY" /\ m.from = p)
    /\ air' = air \cup {Fresher("DISCOVERY", p)}
    /\ UNCHANGED <<peers, timerVars, up, beat, missed, steady>>

\* The timer of startHeartbeats.
HeartbeatFires(p) ==
    /\ p \in up
    /\ beat[p] = 0
    /\ beat' = [beat EXCEPT ![p] = Period]
    /\ air' = air \cup {Fresher("HEARTBEAT", p)}
    /\ UNCHANGED <<peers, timerVars, up, missed, steady>>
-----------------------------------------------------------------------------
(* The device *)

\* The handlers stay registered with the gossip protocol after stop.
Receive(m) ==
    /\ m \in air
    /\ air' = air \ {m}
    /\ peers' = IF m.type = "HEARTBEAT"
                THEN HandleHeartbeat(peers, m.from) ELSE HandleDiscovery(peers, m.from)
    /\ missed' = IF m.type = "HEARTBEAT" THEN [missed EXCEPT ![m.from] = 0] ELSE missed
    /\ steady' = IF /\ m.from \in up /\ m.from \in DOMAIN peers'
                    /\ m.type = "HEARTBEAT" \/ m.from \notin DOMAIN peers
                 THEN steady \cup {m.from} ELSE steady
    /\ UNCHANGED <<timerVars, up, beat>>

Lose(m) ==
    /\ m \in air
    /\ air' = air \ {m}
    /\ \/ m.type = "DISCOVERY" /\ UNCHANGED missed
       \/ /\ m.type = "HEARTBEAT"
          /\ m.from \in up => missed[m.from] < MaxMissed
          /\ missed' = IF m.from \in up
                       THEN [missed EXCEPT ![m.from] = @ + 1] ELSE missed
    /\ UNCHANGED <<peers, timerVars, up, beat, steady>>

DeregisterPeer(p) ==
    /\ p \in DOMAIN peers
    /\ peers' = RemovePeer(peers, p)
    /\ steady' = steady \ {p}
    /\ UNCHANGED <<timerVars, up, beat, air, missed>>

Stop ==
    /\ running
    /\ running' = FALSE
    /\ cleanup' = Cleanup
    /\ UNCHANGED <<peers, leaked, up, beat, air, missed, steady>>

\* initialize again: it registers handlers once more, which do what the first ones did,
\* and sets new timers, also when the old ones run, which no stop will then clear.
Initialize ==
    /\ running' = TRUE
    /\ cleanup' = Cleanup
    /\ leaked' = (leaked \/ running)
    /\ UNCHANGED <<peers, up, beat, air, missed, steady>>

\* The timer of startCleanup.
CleanupFires ==
    /\ running
    /\ cleanup = 0
    /\ cleanup' = Cleanup
    /\ peers' = RemoveStale(peers)
    /\ UNCHANGED <<running, leaked, up, beat, air, missed, steady>>

\* A cleanup timer out of the field, of which there may be several, fires in any phase.
LeakedFires ==
    /\ leaked
    /\ peers' = RemoveStale(peers)
    /\ UNCHANGED <<timerVars, up, beat, air, missed, steady>>

\* No test tells ages of Timeout or more apart.
Older(age) == IF age < Timeout THEN age + 1 ELSE age

\* A tick may pass when no timer is due and no message is late.
Tick ==
    /\ running => cleanup > 0
    /\ \A p \in up : beat[p] > 0
    /\ \A m \in air : m.age < MaxDelay
    /\ peers' = [p \in DOMAIN peers |-> Older(peers[p])]
    /\ cleanup' = IF running THEN cleanup - 1 ELSE cleanup
    /\ beat' = [p \in Peer |-> IF p \in up THEN beat[p] - 1 ELSE beat[p]]
    /\ air' = {[m EXCEPT !.age = @ + 1] : m \in air}
    /\ UNCHANGED <<running, leaked, up, missed, steady>>

Next ==
    \/ \E p \in Peer : \/ ComeUp(p) \/ GoDown(p) \/ AnnouncePresence(p)
                       \/ HeartbeatFires(p) \/ DeregisterPeer(p)
    \/ \E m \in air : Receive(m) \/ Lose(m)
    \/ Stop \/ Initialize \/ CleanupFires \/ LeakedFires
    \/ Tick

Spec == Init /\ [][Next]_vars

\* Time goes on, timers fire and messages arrive or are lost.
Fairness ==
    /\ WF_vars(Tick)
    /\ WF_vars(CleanupFires) /\ WF_vars(LeakedFires)
    /\ \A p \in Peer : WF_vars(HeartbeatFires(p))
    /\ WF_vars(\E m \in air : m.age = MaxDelay /\ (Receive(m) \/ Lose(m)))

FairSpec == Spec /\ Fairness
-----------------------------------------------------------------------------
(* Properties *)

\* No live peer is taken for stale: a listed peer that is up, and of whose heartbeats
\* no more than MaxMissed in a row are lost, stays in the list, whatever the phases of
\* its timer and of the cleanup timer (MeshTopologyManager.ts:121-162, meshSlice.ts:66).
\* An announcement of a peer that is listed already is not enough: when the list is full
\* it does not refresh the peer.
LiveIsKept == \A p \in steady : p \in DOMAIN peers

\* A peer that is gone is removed, even if messages of it still arrive and the list is
\* at its limit.
GoneIsRemoved ==
    \A p \in Peer :
        (p \notin up /\ running) ~> (p \notin DOMAIN peers \/ p \in up \/ ~running)
=============================================================================
