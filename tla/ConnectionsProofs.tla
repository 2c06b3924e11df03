------------------------- MODULE ConnectionsProofs -------------------------
(***************************************************************************)
(* Proofs about Connections, for any peers, retries and bounds: its types, *)
(* and that no entry is stranded and no parted peer comes back.            *)
(***************************************************************************)
EXTENDS Connections, TLAPS

(* What becomes of an entry *)

\* An entry that is not exhausted stays within the limit when its retry is counted.
LEMMA RetryingTypes ==
    ASSUME NEW e \in Entries, e.retryCount <= MaxRetries, ~Exhausted(e)
    PROVE  /\ Retrying(e) \in Entries /\ Retrying(e).retryCount <= MaxRetries
           /\ Retrying(e).state = e.state /\ Retrying(e).retryTimer
<1>1. PICK n \in Nat : n = e.retryCount + 1 /\ n <= MaxRetries
  BY ConnectionsAssumption DEF Exhausted, Entries
<1>2. Retrying(e) = [e EXCEPT !.retryCount = n, !.retryTimer = TRUE]
  BY <1>1 DEF Retrying
<1>3. [e EXCEPT !.retryCount = n, !.retryTimer = TRUE] \in Entries
  BY DEF Entries
<1> QED
  BY <1>1, <1>2, <1>3 DEF Entries

\* A lost peer's entry is a retry that counts, or gone, and no timer is forgotten.
LEMMA LostTypes ==
    ASSUME TypeOK, NEW p \in Peer, NEW e \in Entries, NEW s \in Strays,
           e.retryCount <= MaxRetries, Lost(p, e, s)
    PROVE  /\ entry' \in [Peer -> Entries] /\ stray' \in [Peer -> Strays]
           /\ \A q \in Peer : entry'[q].retryCount <= MaxRetries
           /\ \A q \in Peer \ {p} : entry'[q] = entry[q] /\ stray'[q] = stray[q]
           /\ \/ entry'[p] = NoEntry
              \/ entry'[p].state = "DISCONNECTED" /\ entry'[p].retryTimer
<1>1. MaxRetries \in Nat
  BY ConnectionsAssumption
<1> DEFINE u == Updated(e, "DISCONNECTED")
<1>2. /\ u \in Entries /\ u.retryCount <= MaxRetries
      /\ u.state = "DISCONNECTED" /\ u.retryCount = e.retryCount
  BY DEF Updated, Entries, States
<1>3. entry \in [Peer -> Entries] /\ stray \in [Peer -> Strays]
      /\ \A q \in Peer : entry[q].retryCount <= MaxRetries
  BY DEF TypeOK
<1>4. NoEntry \in Entries /\ NoEntry.retryCount <= MaxRetries
  BY <1>1 DEF NoEntry, Entries, States
<1>5. \A t \in BOOLEAN : Count(t) \in Nat
  BY DEF Count
<1>6. ScheduleReconnect(p, u, s)
  BY DEF Lost
<1> HIDE DEF u
<1>7. CASE Exhausted(u)
  <2>1. Delete(p, u, s)
    BY <1>6, <1>7 DEF ScheduleReconnect
  <2>2. [retries |-> s.retries + Count(u.retryTimer),
         heartbeats |-> s.heartbeats + Count(u.heartbeatTimer)] \in Strays
    BY <1>2, <1>5 DEF Strays, Entries
  <2> QED
    BY <1>3, <1>4, <2>1, <2>2 DEF Delete
<1>8. CASE ~Exhausted(u)
  <2>1. /\ entry' = [entry EXCEPT ![p] = Retrying(u)]
        /\ stray' = [stray EXCEPT ![p] = [s EXCEPT !.retries = @ + Count(u.retryTimer)]]
    BY <1>6, <1>8 DEF ScheduleReconnect
  <2>3. /\ Retrying(u) \in Entries /\ Retrying(u).retryCount <= MaxRetries
        /\ Retrying(u).state = "DISCONNECTED" /\ Retrying(u).retryTimer
    BY <1>2, <1>8, RetryingTypes
  <2>4. [s EXCEPT !.retries = @ + Count(u.retryTimer)] \in Strays
    BY <1>2, <1>5 DEF Strays, Entries
  <2> QED
    BY <1>3, <2>1, <2>3, <2>4
<1> QED
  BY <1>7, <1>8

\* The other changes of an entry.
LEMMA ChangeTypes ==
    ASSUME NEW e \in Entries, e.retryCount <= MaxRetries
    PROVE  /\ \A s \in States : /\ Updated(e, s) \in Entries
                                /\ Updated(e, s).retryCount <= MaxRetries
                                /\ Updated(e, s).state = s
           /\ Closing(e) \in Entries /\ Closing(e).retryCount <= MaxRetries
           /\ Closing(e).state = "DISCONNECTING"
           /\ ~Closing(e).retryTimer /\ ~Closing(e).heartbeatTimer
           /\ Watched(e) \in Entries /\ Watched(e).retryCount <= MaxRetries
           /\ Watched(e).state = "CONNECTED" /\ Watched(e).heartbeatTimer
<1>1. 0 <= MaxRetries /\ "CONNECTED" \in States /\ "DISCONNECTING" \in States
  BY ConnectionsAssumption DEF States
<1>2. \A s \in States : /\ Updated(e, s) \in Entries
                        /\ Updated(e, s).retryCount <= MaxRetries
                        /\ Updated(e, s).state = s
  BY DEF Updated, Entries
<1>3. /\ Closing(e) \in Entries /\ Closing(e).retryCount <= MaxRetries
      /\ Closing(e).state = "DISCONNECTING"
      /\ ~Closing(e).retryTimer /\ ~Closing(e).heartbeatTimer
  BY <1>1 DEF Closing, Entries
<1>4. PICK u \in Entries : u = Updated(e, "CONNECTED") /\ u.state = "CONNECTED"
  BY <1>1, <1>2
<1>5. Watched(e) = [u EXCEPT !.retryCount = 0, !.heartbeatTimer = TRUE]
  BY <1>4 DEF Watched
<1>6. [u EXCEPT !.retryCount = 0, !.heartbeatTimer = TRUE] \in Entries
  BY DEF Entries
<1>7. /\ [u EXCEPT !.retryCount = 0, !.heartbeatTimer = TRUE].retryCount = 0
      /\ [u EXCEPT !.retryCount = 0, !.heartbeatTimer = TRUE].state = u.state
      /\ [u EXCEPT !.retryCount = 0, !.heartbeatTimer = TRUE].heartbeatTimer
  BY DEF Entries
<1>8. /\ Watched(e) \in Entries /\ Watched(e).retryCount <= MaxRetries
      /\ Watched(e).state = "CONNECTED" /\ Watched(e).heartbeatTimer
  BY <1>1, <1>4, <1>5, <1>6, <1>7
<1> QED
  BY <1>2, <1>3, <1>8

\* Deleting an entry leaves its timers behind, as strays.
LEMMA DeleteTypes ==
    ASSUME TypeOK, NEW p \in Peer, Delete(p, entry[p], stray[p])
    PROVE  /\ entry' = [entry EXCEPT ![p] = NoEntry] /\ stray' \in [Peer -> Strays]
           /\ entry' \in [Peer -> Entries]
           /\ \A q \in Peer : entry'[q].retryCount <= MaxRetries
           /\ \A q \in Peer \ {p} : stray'[q] = stray[q]
           /\ /\ ~entry[p].retryTimer /\ ~entry[p].heartbeatTimer /\ stray[p] = NoStray
              => stray'[p] = NoStray
<1>1. NoEntry \in Entries /\ NoEntry.retryCount <= MaxRetries
  BY ConnectionsAssumption DEF NoEntry, Entries, States
<1>2. \A t \in BOOLEAN : Count(t) \in Nat /\ (~t => Count(t) = 0)
  BY DEF Count
<1>3. entry[p] \in Entries /\ stray[p] \in Strays
  BY DEF TypeOK
<1>4. PICK r \in Nat, h \in Nat :
        /\ r = stray[p].retries + Count(entry[p].retryTimer)
        /\ h = stray[p].heartbeats + Count(entry[p].heartbeatTimer)
  BY <1>2, <1>3 DEF Entries, Strays
<1>5. stray' = [stray EXCEPT ![p] = [retries |-> r, heartbeats |-> h]]
  BY <1>4 DEF Delete
<1>6. entry' = [entry EXCEPT ![p] = NoEntry]
  BY DEF Delete
<1>7. ASSUME ~entry[p].retryTimer, ~entry[p].heartbeatTimer, stray[p] = NoStray
      PROVE  r = 0 /\ h = 0
  BY <1>2, <1>3, <1>4, <1>7 DEF NoStray, Entries
<1> QED
  BY <1>1, <1>5, <1>6, <1>7 DEF TypeOK, Strays, NoStray
-----------------------------------------------------------------------------
(* The inductive invariant, one peer at a time *)

Moving(p) ==
    /\ entry[p].state = "CONNECTED" => entry[p].heartbeatTimer
    /\ entry[p].state = "CONNECTING" => connects[p] > 0
    /\ entry[p].state = "DISCONNECTING" => closes[p] > 0 \/ p \in sweep
    /\ entry[p].state = "DISCONNECTED" => entry[p].retryTimer

Parted(p) ==
    parted[p] => /\ Alone(p)
                 /\ entry[p].state \in {"DISCONNECTING", "ABSENT"}
                 /\ ~entry[p].retryTimer /\ ~entry[p].heartbeatTimer

IInv == TypeOK /\ \A p \in Peer : Moving(p) /\ Parted(p)

LEMMA Initially == Init => IInv
<1> SUFFICES ASSUME Init PROVE IInv
  OBVIOUS
<1>1. NoEntry \in Entries /\ NoEntry.retryCount = 0 /\ NoStray \in Strays
  BY DEF NoEntry, NoStray, Entries, Strays, States
<1>2. TypeOK
  <2>1. entry \in [Peer -> Entries] /\ \A p \in Peer : entry[p].retryCount <= MaxRetries
    BY <1>1, ConnectionsAssumption DEF Init
  <2>2. /\ stray \in [Peer -> Strays] /\ connects \in [Peer -> Nat] /\ closes \in [Peer -> Nat]
        /\ linked \in [Peer -> BOOLEAN] /\ parted \in [Peer -> BOOLEAN]
    BY <1>1 DEF Init
  <2>3. sweep \in SUBSET Peer /\ sweeping \in BOOLEAN
    BY DEF Init
  <2>4. calls \in 0 .. MaxCalls /\ drops \in 0 .. MaxDrops
    <3>1. calls = 0 /\ drops = 0
      BY DEF Init
    <3> QED
      BY <3>1, ConnectionsAssumption
  <2> QED
    BY <2>1, <2>2, <2>3, <2>4 DEF TypeOK
<1>3. \A p \in Peer : Moving(p) /\ Parted(p)
  BY DEF Init, Moving, Parted, NoEntry
<1> QED
  BY <1>2, <1>3 DEF IInv

\* A step that leaves alone what belongs to the other peers.
LEMMA OnePeer ==
    ASSUME IInv, TypeOK', NEW p \in Peer, Moving(p)', Parted(p)',
           \A q \in Peer \ {p} :
               /\ entry'[q] = entry[q] /\ stray'[q] = stray[q]
               /\ connects'[q] = connects[q] /\ closes'[q] = closes[q]
               /\ q \in sweep' <=> q \in sweep
               /\ parted'[q] = parted[q]
    PROVE  IInv'
<1> SUFFICES ASSUME NEW q \in Peer \ {p} PROVE Moving(q)' /\ Parted(q)'
  BY DEF IInv
<1>1. Moving(q) /\ Parted(q)
  BY DEF IInv
<1>2. Moving(q)'
  BY <1>1 DEF Moving
<1>3. Parted(q)'
  BY <1>1 DEF Parted, Alone
<1> QED
  BY <1>2, <1>3
-----------------------------------------------------------------------------
(* Each action preserves it *)

LEMMA ConnectStep == ASSUME IInv, NEW p \in Peer, Connect(p) PROVE IInv'
<1>1. TypeOK /\ entry[p] \in Entries /\ entry[p].retryCount <= MaxRetries
  BY DEF IInv, TypeOK
<1>2. PICK u \in Entries : /\ u = Updated(entry[p], "CONNECTING")
                           /\ u.retryCount <= MaxRetries /\ u.state = "CONNECTING"
  BY <1>1, ChangeTypes DEF States
<1>3. entry' = [entry EXCEPT ![p] = u] /\ connects' = [connects EXCEPT ![p] = @ + 1]
  BY <1>2 DEF Connect, StartConnect
<1>4. TypeOK'
  BY <1>1, <1>2, <1>3, ConnectionsAssumption DEF Connect, Call, TypeOK
<1>5. Moving(p)' /\ Parted(p)'
  BY <1>1, <1>2, <1>3 DEF Moving, Parted, Connect, TypeOK
<1> QED
  BY <1>1, <1>3, <1>4, <1>5, OnePeer DEF Connect, TypeOK

LEMMA DisconnectStep == ASSUME IInv, NEW p \in Peer, Disconnect(p) PROVE IInv'
<1>1. TypeOK /\ entry[p] \in Entries /\ entry[p].retryCount <= MaxRetries
  BY DEF IInv, TypeOK
<1>2. PICK u \in Entries : /\ u = Closing(entry[p]) /\ u.retryCount <= MaxRetries
                           /\ u.state = "DISCONNECTING"
                           /\ ~u.retryTimer /\ ~u.heartbeatTimer
  BY <1>1, ChangeTypes
<1>3. entry' = [entry EXCEPT ![p] = u] /\ closes' = [closes EXCEPT ![p] = @ + 1]
  BY <1>2 DEF Disconnect
<1>4. TypeOK'
  BY <1>1, <1>2, <1>3, ConnectionsAssumption DEF Disconnect, Call, TypeOK, Alone
<1>5. Moving(p)'
  BY <1>1, <1>2, <1>3 DEF Moving, TypeOK
<1>6. Parted(p)'
  <2>1. parted'[p] = Alone(p) /\ connects' = connects /\ stray' = stray
    BY <1>1 DEF Disconnect, TypeOK
  <2>2. entry'[p] = u
    BY <1>1, <1>3 DEF TypeOK
  <2> QED
    BY <1>2, <2>1, <2>2 DEF Parted, Alone
<1> QED
  BY <1>1, <1>3, <1>4, <1>5, <1>6, OnePeer DEF Disconnect, TypeOK

LEMMA DisconnectReturnsStep == ASSUME IInv, NEW p \in Peer, DisconnectReturns(p) PROVE IInv'
<1>1. TypeOK /\ entry[p] \in Entries /\ Parted(p)
  BY DEF IInv, TypeOK
<1>2. Delete(p, entry[p], stray[p])
  BY DEF DisconnectReturns
<1>3. /\ entry' = [entry EXCEPT ![p] = NoEntry] /\ stray' \in [Peer -> Strays]
      /\ entry' \in [Peer -> Entries] /\ \A q \in Peer : entry'[q].retryCount <= MaxRetries
      /\ \A q \in Peer \ {p} : stray'[q] = stray[q]
      /\ /\ ~entry[p].retryTimer /\ ~entry[p].heartbeatTimer /\ stray[p] = NoStray
         => stray'[p] = NoStray
  BY <1>1, <1>2, DeleteTypes
<1>4. /\ closes' \in [Peer -> Nat] /\ sweep' \in SUBSET Peer
      /\ \A q \in Peer \ {p} : closes'[q] = closes[q] /\ (q \in sweep' <=> q \in sweep)
  BY <1>1 DEF DisconnectReturns, TypeOK
<1>5. TypeOK'
  BY <1>1, <1>3, <1>4 DEF DisconnectReturns, TypeOK
<1>6. Moving(p)' /\ Parted(p)'
  BY <1>1, <1>3 DEF Moving, Parted, Alone, DisconnectReturns, TypeOK, NoEntry
<1> QED
  BY <1>1, <1>3, <1>4, <1>5, <1>6, OnePeer DEF DisconnectReturns, TypeOK

\* What Lost leaves behind is fine for a peer that is not parted.
LEMMA LostStep ==
    ASSUME IInv, NEW p \in Peer, NEW e \in Entries, NEW s \in Strays,
           e.retryCount <= MaxRetries, Lost(p, e, s), ~parted[p],
           connects' \in [Peer -> Nat], \A q \in Peer \ {p} : connects'[q] = connects[q],
           linked' \in [Peer -> BOOLEAN],
           UNCHANGED <<closes, sweep, sweeping, parted, calls, drops>>
    PROVE  IInv'
<1>1. TypeOK
  BY DEF IInv
<1>2. /\ entry' \in [Peer -> Entries] /\ stray' \in [Peer -> Strays]
      /\ \A q \in Peer : entry'[q].retryCount <= MaxRetries
      /\ \A q \in Peer \ {p} : entry'[q] = entry[q] /\ stray'[q] = stray[q]
      /\ \/ entry'[p] = NoEntry
         \/ entry'[p].state = "DISCONNECTED" /\ entry'[p].retryTimer
  BY <1>1, LostTypes
<1>3. TypeOK'
  BY <1>1, <1>2 DEF TypeOK
<1>4. Moving(p)'
  BY <1>2 DEF Moving, NoEntry
<1>5. Parted(p)'
  BY DEF Parted
<1> QED
  BY <1>2, <1>3, <1>4, <1>5, OnePeer

\* A call under way, or a stray timer, belongs to a peer that is not parted.
LEMMA NotAlone ==
    ASSUME IInv, NEW p \in Peer,
           \/ connects[p] > 0 \/ stray[p].retries > 0 \/ stray[p].heartbeats > 0
           \/ entry[p].retryTimer \/ entry[p].heartbeatTimer
    PROVE  ~parted[p]
BY DEF IInv, Parted, Alone, NoStray

LEMMA ConnectSucceedsStep == ASSUME IInv, NEW p \in Peer, ConnectSucceeds(p) PROVE IInv'
<1>1. TypeOK /\ entry[p] \in Entries /\ entry[p].retryCount <= MaxRetries
  BY DEF IInv, TypeOK
<1>2. PICK u \in Entries : /\ u = Watched(entry[p]) /\ u.retryCount <= MaxRetries
                           /\ u.state = "CONNECTED" /\ u.heartbeatTimer
  BY <1>1, ChangeTypes
<1>3. entry' = [entry EXCEPT ![p] = u] /\ connects' = [connects EXCEPT ![p] = @ - 1]
  BY <1>2 DEF ConnectSucceeds
<1>4. connects' \in [Peer -> Nat]
  BY <1>1, <1>3 DEF ConnectSucceeds, TypeOK
<1>5. TypeOK'
  BY <1>1, <1>2, <1>3, <1>4 DEF ConnectSucceeds, TypeOK
<1>6. Moving(p)'
  BY <1>1, <1>2, <1>3 DEF Moving, TypeOK
<1>7. Parted(p)'
  BY NotAlone DEF Parted, ConnectSucceeds
<1> QED
  BY <1>1, <1>3, <1>5, <1>6, <1>7, OnePeer DEF ConnectSucceeds, TypeOK

LEMMA ConnectFailsStep == ASSUME IInv, NEW p \in Peer, ConnectFails(p) PROVE IInv'
<1>1. TypeOK /\ entry[p] \in Entries /\ entry[p].retryCount <= MaxRetries /\ stray[p] \in Strays
  BY DEF IInv, TypeOK
<1>2. connects' \in [Peer -> Nat] /\ \A q \in Peer \ {p} : connects'[q] = connects[q]
  BY <1>1 DEF ConnectFails, TypeOK
<1>3. ~parted[p]
  BY NotAlone DEF ConnectFails
<1> QED
  BY <1>1, <1>2, <1>3, LostStep DEF ConnectFails, TypeOK

LEMMA HeartbeatFiresStep == ASSUME IInv, NEW p \in Peer, HeartbeatFires(p) PROVE IInv'
<1>1. TypeOK /\ entry[p] \in Entries /\ entry[p].retryCount <= MaxRetries /\ stray[p] \in Strays
  BY DEF IInv, TypeOK
<1>2. ~parted[p]
  BY NotAlone DEF HeartbeatFires
<1>3. CASE entry[p].heartbeatTimer /\ Lost(p, [entry[p] EXCEPT !.heartbeatTimer = FALSE], stray[p])
  <2>1. /\ [entry[p] EXCEPT !.heartbeatTimer = FALSE] \in Entries
        /\ [entry[p] EXCEPT !.heartbeatTimer = FALSE].retryCount <= MaxRetries
    BY <1>1 DEF Entries
  <2> QED
    BY <1>1, <1>2, <1>3, <2>1, LostStep DEF HeartbeatFires, TypeOK
<1>4. CASE /\ stray[p].heartbeats > 0
           /\ Lost(p, entry[p], [stray[p] EXCEPT !.heartbeats = @ - 1])
  <2>1. [stray[p] EXCEPT !.heartbeats = @ - 1] \in Strays
    BY <1>1, <1>4 DEF Strays
  <2> QED
    BY <1>1, <1>2, <1>4, <2>1, LostStep DEF HeartbeatFires, TypeOK
<1> QED
  BY <1>3, <1>4 DEF HeartbeatFires

\* A retry that fires finds the peer connected, or starts a connect.
LEMMA RetryStep ==
    ASSUME IInv, NEW p \in Peer, NEW e \in Entries, e.retryCount <= MaxRetries, ~parted[p],
           e.state = entry[p].state, e.heartbeatTimer = entry[p].heartbeatTimer,
           \/ /\ e.state = "CONNECTED"
              /\ entry' = [entry EXCEPT ![p] = e] /\ UNCHANGED connects
           \/ StartConnect(p, e),
           stray' \in [Peer -> Strays], \A q \in Peer \ {p} : stray'[q] = stray[q],
           UNCHANGED <<closes, sweep, sweeping, linked, parted, calls, drops>>
    PROVE  IInv'
<1>1. TypeOK /\ Moving(p)
  BY DEF IInv
<1>2. Parted(p)'
  BY DEF Parted
<1>3. CASE /\ e.state = "CONNECTED"
           /\ entry' = [entry EXCEPT ![p] = e] /\ UNCHANGED connects
  <2>1. TypeOK'
    BY <1>1, <1>3 DEF TypeOK
  <2>2. Moving(p)'
    BY <1>1, <1>3 DEF Moving, TypeOK
  <2> QED
    BY <1>1, <1>2, <1>3, <2>1, <2>2, OnePeer DEF TypeOK
<1>4. CASE StartConnect(p, e)
  <2>1. PICK u \in Entries : /\ u = Updated(e, "CONNECTING")
                             /\ u.retryCount <= MaxRetries /\ u.state = "CONNECTING"
    BY ChangeTypes DEF States
  <2>2. entry' = [entry EXCEPT ![p] = u] /\ connects' = [connects EXCEPT ![p] = @ + 1]
    BY <1>4, <2>1 DEF StartConnect
  <2>3. TypeOK'
    BY <1>1, <2>1, <2>2 DEF TypeOK
  <2>4. Moving(p)'
    BY <1>1, <2>1, <2>2 DEF Moving, TypeOK
  <2> QED
    BY <1>1, <1>2, <2>2, <2>3, <2>4, OnePeer DEF TypeOK
<1> QED
  BY <1>3, <1>4

LEMMA RetryFiresStep == ASSUME IInv, NEW p \in Peer, RetryFires(p) PROVE IInv'
<1>1. TypeOK /\ entry[p] \in Entries /\ entry[p].retryCount <= MaxRetries /\ stray[p] \in Strays
  BY DEF IInv, TypeOK
<1>2. ~parted[p]
  BY NotAlone DEF RetryFires
<1>3. CASE entry[p].retryTimer /\ UNCHANGED stray
  <2>1. PICK e \in Entries : e = [entry[p] EXCEPT !.retryTimer = FALSE]
    BY <1>1 DEF Entries
  <2>2. /\ e.retryCount <= MaxRetries /\ e.state = entry[p].state
        /\ e.heartbeatTimer = entry[p].heartbeatTimer
    BY <1>1, <2>1 DEF Entries
  <2>3. CASE \/ e.state = "CONNECTED" /\ entry' = [entry EXCEPT ![p] = e] /\ UNCHANGED connects
             \/ StartConnect(p, e)
    BY <1>1, <1>2, <1>3, <2>2, <2>3, RetryStep DEF RetryFires, TypeOK
  <2>4. CASE \/ entry[p].state = "CONNECTED" /\ UNCHANGED <<entry, connects>>
             \/ StartConnect(p, entry[p])
    <3>1. entry[p].state = "CONNECTED" /\ UNCHANGED <<entry, connects>>
          => entry' = [entry EXCEPT ![p] = entry[p]] /\ UNCHANGED connects
      BY <1>1 DEF TypeOK
    <3> QED
      BY <1>1, <1>2, <1>3, <2>4, <3>1, RetryStep DEF RetryFires, TypeOK
  <2> QED
    BY <1>3, <2>1, <2>3, <2>4 DEF RetryFires
<1>4. CASE /\ stray[p].retries > 0
           /\ stray' = [stray EXCEPT ![p].retries = @ - 1]
           /\ \/ entry[p].state = "CONNECTED" /\ UNCHANGED <<entry, connects>>
              \/ StartConnect(p, entry[p])
  <2>1. [stray[p] EXCEPT !.retries = @ - 1] \in Strays
    BY <1>1, <1>4 DEF Strays
  <2>2. stray' \in [Peer -> Strays] /\ \A q \in Peer \ {p} : stray'[q] = stray[q]
    BY <1>1, <1>4, <2>1 DEF TypeOK
  <2>3. entry[p].state = "CONNECTED" /\ UNCHANGED <<entry, connects>>
        => entry' = [entry EXCEPT ![p] = entry[p]] /\ UNCHANGED connects
    BY <1>1 DEF TypeOK
  <2> QED
    BY <1>1, <1>2, <1>4, <2>2, <2>3, RetryStep DEF RetryFires
<1> QED
  BY <1>3, <1>4 DEF RetryFires

LEMMA LinkDropsStep == ASSUME IInv, NEW p \in Peer, LinkDrops(p) PROVE IInv'
<1>1. TypeOK'
  BY ConnectionsAssumption DEF IInv, TypeOK, LinkDrops
<1>2. Moving(p)' /\ Parted(p)'
  BY DEF IInv, Moving, Parted, Alone, LinkDrops
<1> QED
  BY <1>1, <1>2, OnePeer DEF LinkDrops

LEMMA DisconnectAllStep == ASSUME IInv, DisconnectAll PROVE IInv'
<1>1. TypeOK /\ \A p \in Peer : entry[p] \in Entries /\ entry[p].retryCount <= MaxRetries
  BY DEF IInv, TypeOK
<1>2. \A p \in Peer :
        /\ entry[p].state = "ABSENT" => entry'[p] = entry[p] /\ parted'[p] = parted[p]
        /\ entry[p].state # "ABSENT" => /\ entry'[p] = Closing(entry[p])
                                        /\ parted'[p] = Alone(p) /\ p \in sweep'
  BY DEF DisconnectAll
<1>3. \A p \in Peer :
        entry[p].state # "ABSENT" => /\ entry'[p] \in Entries
                                     /\ entry'[p].retryCount <= MaxRetries
                                     /\ entry'[p].state = "DISCONNECTING"
                                     /\ ~entry'[p].retryTimer /\ ~entry'[p].heartbeatTimer
  BY <1>1, <1>2, ChangeTypes
<1>4. TypeOK'
  <2>1. \A p \in Peer : entry'[p] \in Entries /\ entry'[p].retryCount <= MaxRetries
    BY <1>1, <1>2, <1>3
  <2>2. entry' \in [Peer -> Entries]
    BY <2>1 DEF DisconnectAll
  <2>3. parted' \in [Peer -> BOOLEAN]
    BY <1>1 DEF DisconnectAll, Alone, TypeOK
  <2>4. calls' \in 0 .. MaxCalls
    BY <1>1, ConnectionsAssumption DEF DisconnectAll, Call, TypeOK
  <2> QED
    BY <1>1, <2>1, <2>2, <2>3, <2>4 DEF DisconnectAll, TypeOK
<1>5. ASSUME NEW p \in Peer PROVE Moving(p)' /\ Parted(p)'
  <2>1. Moving(p) /\ Parted(p)
    BY DEF IInv
  <2>2. CASE entry[p].state = "ABSENT"
    BY <1>2, <2>1, <2>2 DEF Moving, Parted, Alone, DisconnectAll
  <2>3. CASE entry[p].state # "ABSENT"
    BY <1>2, <1>3, <2>3 DEF Moving, Parted, Alone, DisconnectAll
  <2> QED
    BY <2>2, <2>3
<1> QED
  BY <1>4, <1>5 DEF IInv

LEMMA DisconnectAllReturnsStep == ASSUME IInv, DisconnectAllReturns PROVE IInv'
<1>1. TypeOK
  BY DEF IInv
<1>2. NoEntry \in Entries /\ NoEntry.retryCount <= MaxRetries
  BY ConnectionsAssumption DEF NoEntry, Entries, States
<1>3. \A t \in BOOLEAN : Count(t) \in Nat /\ (~t => Count(t) = 0)
  BY DEF Count
<1>4. ASSUME NEW p \in Peer
      PROVE  /\ stray'[p] \in Strays
             /\ /\ ~entry[p].retryTimer /\ ~entry[p].heartbeatTimer /\ stray[p] = NoStray
                => stray'[p] = NoStray
  <2>1. entry[p] \in Entries /\ stray[p] \in Strays
    BY <1>1 DEF TypeOK
  <2>2. PICK r \in Nat, h \in Nat :
          /\ r = stray[p].retries + Count(entry[p].retryTimer)
          /\ h = stray[p].heartbeats + Count(entry[p].heartbeatTimer)
    BY <1>3, <2>1 DEF Entries, Strays
  <2>3. stray'[p] = [retries |-> r, heartbeats |-> h]
    BY <2>2 DEF DisconnectAllReturns
  <2>4. ASSUME ~entry[p].retryTimer, ~entry[p].heartbeatTimer, stray[p] = NoStray
        PROVE  r = 0 /\ h = 0
    BY <1>3, <2>1, <2>2, <2>4 DEF NoStray, Entries
  <2> QED
    BY <2>3, <2>4 DEF Strays, NoStray
<1>5. TypeOK'
  <2>1. entry' \in [Peer -> Entries] /\ \A p \in Peer : entry'[p].retryCount <= MaxRetries
    BY <1>2 DEF DisconnectAllReturns
  <2>2. stray' \in [Peer -> Strays]
    BY <1>4 DEF DisconnectAllReturns
  <2> QED
    BY <1>1, <2>1, <2>2 DEF DisconnectAllReturns, TypeOK
<1>6. ASSUME NEW p \in Peer PROVE Moving(p)' /\ Parted(p)'
  <2>1. Parted(p)
    BY DEF IInv
  <2>2. entry'[p] = NoEntry
    BY DEF DisconnectAllReturns
  <2>3. Parted(p)'
    BY <1>4, <2>1, <2>2 DEF Parted, Alone, NoEntry, DisconnectAllReturns
  <2> QED
    BY <2>2, <2>3 DEF Moving, NoEntry
<1> QED
  BY <1>5, <1>6 DEF IInv
-----------------------------------------------------------------------------
(* The theorems *)

LEMMA Preserved == IInv /\ [Next]_vars => IInv'
<1> SUFFICES ASSUME IInv, [Next]_vars PROVE IInv'
  OBVIOUS
<1>1. ASSUME NEW p \in Peer,
             \/ Connect(p) \/ Disconnect(p) \/ DisconnectReturns(p)
             \/ ConnectSucceeds(p) \/ ConnectFails(p) \/ LinkDrops(p)
             \/ RetryFires(p) \/ HeartbeatFires(p)
      PROVE  IInv'
  BY <1>1, ConnectStep, DisconnectStep, DisconnectReturnsStep, ConnectSucceedsStep,
     ConnectFailsStep, LinkDropsStep, RetryFiresStep, HeartbeatFiresStep
<1>2. CASE DisconnectAll
  BY <1>2, DisconnectAllStep
<1>3. CASE DisconnectAllReturns
  BY <1>3, DisconnectAllReturnsStep
<1>4. CASE UNCHANGED vars
  BY <1>4 DEF vars, IInv, TypeOK, Moving, Parted, Alone
<1> QED
  BY <1>1, <1>2, <1>3, <1>4 DEF Next

LEMMA Invariant == Spec => []IInv
BY Initially, Preserved, PTL DEF Spec

\* The entries, timers and calls of ConnectionManager keep their types, and no entry is
\* retried more than RECONNECT_MAX_RETRIES times, for any peers and any limit
\* (ConnectionManager.ts:173-197).
THEOREM TypeCorrect == Spec => []TypeOK
<1>1. IInv => TypeOK
  BY DEF IInv
<1> QED
  BY <1>1, Invariant, PTL

\* No entry is ever left without the timer or the call that will move it on, however
\* many calls of connect, disconnect and disconnectAll overlap
\* (ConnectionManager.ts:38-81, 134-141, 173-215).
THEOREM NeverStrandedAlways == Spec => []NeverStranded
<1>1. IInv => NeverStranded
  BY DEF IInv, Moving, NeverStranded
<1> QED
  BY <1>1, Invariant, PTL

\* A peer that was disconnected with nothing of its under way stays so until the app
\* connects again: the timers disconnect clears are then all the timers of the peer
\* (ConnectionManager.ts:65-81).
THEOREM PartedAlways == Spec => []PartedStaysParted
<1>1. IInv => PartedStaysParted
  BY DEF IInv, Parted, PartedStaysParted
<1> QED
  BY <1>1, Invariant, PTL
=============================================================================
