---------------------------- MODULE Connections ----------------------------
(***************************************************************************)
(* services/ble/ConnectionManager.ts on one device, over BleService.       *)
(*                                                                         *)
(* The calls of connect and disconnect that are awaiting the BLE library   *)
(* are counted for each peer; nothing in the code keeps them apart or      *)
(* keeps them from overlapping.  A timer that no entry of the connections  *)
(* map refers to any more, so that nothing can clear it, is a stray: an    *)
(* entry was deleted, or its retryTimer overwritten, while it ran.         *)
(***************************************************************************)
EXTENDS Naturals

CONSTANTS
    Peer,        \* the device ids
    MaxRetries,  \* RECONNECT_MAX_RETRIES (5 in the code)
    MaxCalls,    \* bound on the calls the app makes
    MaxDrops     \* bound on the links that are lost

ASSUME ConnectionsAssumption ==
    MaxRetries \in Nat /\ MaxCalls \in Nat /\ MaxDrops \in Nat

VARIABLES
    entry,     \* connections, with the timers each entry holds
    stray,     \* the retry timeouts and heartbeat intervals that outlived theirs
    connects,  \* the calls of connect that await BleService
    closes,    \* the calls of disconnect that await BleService
    sweep,     \* the peers that disconnectAll still waits for
    sweeping,  \* disconnectAll is under way
    linked,    \* BleService.connectedDevices
    \* History and bounds:
    parted,    \* the app left the peer with nothing of its under way, and called no connect since
    calls,
    drops

vars == <<entry, stray, connects, closes, sweep, sweeping, linked, parted, calls, drops>>

States == {"ABSENT", "CONNECTING", "CONNECTED", "DISCONNECTING", "DISCONNECTED"}
Entries == [state : States, retryCount : Nat, retryTimer : BOOLEAN, heartbeatTimer : BOOLEAN]
Strays == [retries : Nat, heartbeats : Nat]
NoStray == [retries |-> 0, heartbeats |-> 0]
NoEntry ==
    [state |-> "ABSENT", retryCount |-> 0, retryTimer |-> FALSE, heartbeatTimer |-> FALSE]

\* Types, and the limit on the retries of an entry.
TypeOK ==
    /\ entry \in [Peer -> Entries] /\ \A p \in Peer : entry[p].retryCount <= MaxRetries
    /\ stray \in [Peer -> Strays]
    /\ connects \in [Peer -> Nat] /\ closes \in [Peer -> Nat]
    /\ sweep \in SUBSET Peer /\ sweeping \in BOOLEAN
    /\ linked \in [Peer -> BOOLEAN] /\ parted \in [Peer -> BOOLEAN]
    /\ calls \in 0 .. MaxCalls /\ drops \in 0 .. MaxDrops

Init ==
    /\ entry = [p \in Peer |-> NoEntry]
    /\ stray = [p \in Peer |-> NoStray]
    /\ connects = [p \in Peer |-> 0] /\ closes = [p \in Peer |-> 0]
    /\ sweep = {} /\ sweeping = FALSE
    /\ linked = [p \in Peer |-> FALSE] /\ parted = [p \in Peer |-> FALSE]
    /\ calls = 0 /\ drops = 0
-----------------------------------------------------------------------------
(* The connections map *)

Count(timer) == IF timer THEN 1 ELSE 0

\* updateConnectionState writes into the entry, or puts a new one in its place.
Updated(e, state) == [e EXCEPT !.state = state]

\* connections.delete(deviceId) clears no timer.
Delete(p, e, s) ==
    /\ entry' = [entry EXCEPT ![p] = NoEntry]
    /\ stray' = [stray EXCEPT ![p] = [retries |-> s.retries + Count(e.retryTimer),
                                      heartbeats |-> s.heartbeats + Count(e.heartbeatTimer)]]

\* Mutant: the last retry is one too many.
OneTooMany(e) == e.retryCount > MaxRetries

Exhausted(e) == e.retryCount >= MaxRetries

\* Mutant: the retries are not counted.
Uncounted(e) == [e EXCEPT !.retryTimer = TRUE]

Retrying(e) == [e EXCEPT !.retryCount = @ + 1, !.retryTimer = TRUE]

\* Mutant: the entry stays in the map after its last retry.
GiveUpKeepsEntry(p, e, s) ==
    /\ entry' = [entry EXCEPT ![p] = IF Exhausted(e) THEN e ELSE Retrying(e)]
    /\ stray' = [stray EXCEPT ![p] = s]

\* scheduleReconnect: a retryTimer that still runs is overwritten, not cleared.
ScheduleReconnect(p, e, s) ==
    IF Exhausted(e)
    THEN Delete(p, e, s)
    ELSE /\ entry' = [entry EXCEPT ![p] = Retrying(e)]
         /\ stray' = [stray EXCEPT ![p] = [s EXCEPT !.retries = @ + Count(e.retryTimer)]]

\* DISCONNECTED, and on to scheduleReconnect.
Lost(p, e, s) == ScheduleReconnect(p, Updated(e, "DISCONNECTED"), s)

\* connect, for an entry e that is not CONNECTED, up to its await.
StartConnect(p, e) ==
    /\ entry' = [entry EXCEPT ![p] = Updated(e, "CONNECTING")]
    /\ connects' = [connects EXCEPT ![p] = @ + 1]

\* Mutant: the retry timer is not cleared.
StillRetrying(e) == [e EXCEPT !.state = "DISCONNECTING", !.heartbeatTimer = FALSE]

\* disconnect, up to its await.
Closing(e) ==
    [e EXCEPT !.state = "DISCONNECTING", !.retryTimer = FALSE, !.heartbeatTimer = FALSE]

\* Nothing of the peer is under way but what its entry holds.
Alone(p) == connects[p] = 0 /\ stray[p] = NoStray

Call == calls < MaxCalls /\ calls' = calls + 1
-----------------------------------------------------------------------------
(* Calls of the app *)

Connect(p) ==
    /\ Call
    /\ entry[p].state # "CONNECTED"
    /\ StartConnect(p, entry[p])
    /\ parted' = [parted EXCEPT ![p] = FALSE]
    /\ UNCHANGED <<stray, closes, sweep, sweeping, linked, drops>>

Disconnect(p) ==
    /\ Call
    /\ entry[p].state # "ABSENT"
    /\ entry' = [entry EXCEPT ![p] = Closing(@)]
    /\ closes' = [closes EXCEPT ![p] = @ + 1]
    /\ parted' = [parted EXCEPT ![p] = Alone(p)]
    /\ UNCHANGED <<stray, connects, sweep, sweeping, linked, drops>>

\* One disconnectAll at a time.
DisconnectAll ==
    /\ Call
    /\ ~sweeping
    /\ sweeping' = TRUE
    /\ sweep' = {p \in Peer : entry[p].state # "ABSENT"}
    /\ entry' = [p \in Peer |-> IF entry[p].state = "ABSENT"
                                THEN entry[p] ELSE Closing(entry[p])]
    /\ parted' = [p \in Peer |-> IF entry[p].state = "ABSENT" THEN parted[p] ELSE Alone(p)]
    /\ UNCHANGED <<stray, connects, closes, linked, drops>>

\* disconnectDevice is over: the library's error, if any, is swallowed and the device
\* then stays in connectedDevices.
DisconnectReturns(p) ==
    /\ \/ /\ closes[p] > 0
          /\ closes' = [closes EXCEPT ![p] = @ - 1]
          /\ UNCHANGED sweep
       \/ /\ p \in sweep
          /\ sweep' = sweep \ {p}
          /\ UNCHANGED closes
    /\ \E error \in BOOLEAN : linked' = [linked EXCEPT ![p] = error /\ @]
    /\ Delete(p, entry[p], stray[p])
    /\ UNCHANGED <<connects, sweeping, parted, calls, drops>>

\* allSettled, and connections.clear().
DisconnectAllReturns ==
    /\ sweeping /\ sweep = {}
    /\ sweeping' = FALSE
    /\ entry' = [p \in Peer |-> NoEntry]
    /\ stray' = [p \in Peer |->
           [retries |-> stray[p].retries + Count(entry[p].retryTimer),
            heartbeats |-> stray[p].heartbeats + Count(entry[p].heartbeatTimer)]]
    /\ UNCHANGED <<connects, closes, sweep, linked, parted, calls, drops>>
-----------------------------------------------------------------------------
(* Answers of the library and timers *)

\* Mutant: no heartbeat is started.
Unwatched(e) == [Updated(e, "CONNECTED") EXCEPT !.retryCount = 0]

\* CONNECTED, the retries reset and the heartbeat started anew.
Watched(e) == [Updated(e, "CONNECTED") EXCEPT !.retryCount = 0, !.heartbeatTimer = TRUE]

ConnectSucceeds(p) ==
    /\ connects[p] > 0
    /\ connects' = [connects EXCEPT ![p] = @ - 1]
    /\ linked' = [linked EXCEPT ![p] = TRUE]
    /\ entry' = [entry EXCEPT ![p] = Watched(@)]
    /\ UNCHANGED <<stray, closes, sweep, sweeping, parted, calls, drops>>

\* Out of reach, timed out, cancelled, or connected already.
ConnectFails(p) ==
    /\ connects[p] > 0
    /\ connects' = [connects EXCEPT ![p] = @ - 1]
    /\ Lost(p, entry[p], stray[p])
    /\ UNCHANGED <<closes, sweep, sweeping, linked, parted, calls, drops>>

\* onDeviceDisconnected
LinkDrops(p) ==
    /\ drops < MaxDrops
    /\ linked[p]
    /\ drops' = drops + 1
    /\ linked' = [linked EXCEPT ![p] = FALSE]
    /\ UNCHANGED <<entry, stray, connects, closes, sweep, sweeping, parted, calls>>

\* A retry timeout calls connect, which returns at once if the peer is CONNECTED.
RetryFires(p) ==
    /\ \/ /\ entry[p].retryTimer
          /\ LET e == [entry[p] EXCEPT !.retryTimer = FALSE]
             IN  IF e.state = "CONNECTED"
                 THEN entry' = [entry EXCEPT ![p] = e] /\ UNCHANGED connects
                 ELSE StartConnect(p, e)
          /\ UNCHANGED stray
       \/ /\ stray[p].retries > 0
          /\ stray' = [stray EXCEPT ![p].retries = @ - 1]
          /\ IF entry[p].state = "CONNECTED"
             THEN UNCHANGED <<entry, connects>>
             ELSE StartConnect(p, entry[p])
    /\ UNCHANGED <<closes, sweep, sweeping, linked, parted, calls, drops>>

\* A heartbeat interval finds the peer gone, clears itself and reconnects, the stray
\* one on behalf of whatever entry there is by now.
HeartbeatFires(p) ==
    /\ ~linked[p]
    /\ \/ /\ entry[p].heartbeatTimer
          /\ Lost(p, [entry[p] EXCEPT !.heartbeatTimer = FALSE], stray[p])
       \/ /\ stray[p].heartbeats > 0
          /\ Lost(p, entry[p], [stray[p] EXCEPT !.heartbeats = @ - 1])
    /\ UNCHANGED <<connects, closes, sweep, sweeping, linked, parted, calls, drops>>

Next ==
    \/ \E p \in Peer : \/ Connect(p) \/ Disconnect(p) \/ DisconnectReturns(p)
                       \/ ConnectSucceeds(p) \/ ConnectFails(p) \/ LinkDrops(p)
                       \/ RetryFires(p) \/ HeartbeatFires(p)
    \/ DisconnectAll \/ DisconnectAllReturns

Spec == Init /\ [][Next]_vars

\* Timers fire and the library answers every call; that it ever connects is not assumed.
Fairness ==
    /\ \A p \in Peer : /\ WF_vars(DisconnectReturns(p))
                       /\ WF_vars(ConnectSucceeds(p) \/ ConnectFails(p))
                       /\ WF_vars(RetryFires(p))
                       /\ WF_vars(HeartbeatFires(p))
    /\ WF_vars(DisconnectAllReturns)

FairSpec == Spec /\ Fairness
-----------------------------------------------------------------------------
(* Properties *)

\* No peer is stranded: whatever calls overlap and whatever timers fire late, each
\* entry has the timer or the call under way that will move it on: a heartbeat when
\* CONNECTED, a retry when DISCONNECTED (ConnectionManager.ts:41-81, 173-215).
NeverStranded ==
    \A p \in Peer :
        /\ entry[p].state = "CONNECTED" => entry[p].heartbeatTimer
        /\ entry[p].state = "CONNECTING" => connects[p] > 0
        /\ entry[p].state = "DISCONNECTING" => closes[p] > 0 \/ p \in sweep
        /\ entry[p].state = "DISCONNECTED" => entry[p].retryTimer

\* A lost link does not stay CONNECTED in the map that the gossip sends by.
LossIsNoticed ==
    \A p \in Peer :
        (entry[p].state = "CONNECTED" /\ ~linked[p])
            ~> (entry[p].state # "CONNECTED" \/ linked[p])

\* Reconnecting ends, with a link or by giving up: once the app makes no more calls and
\* links are lost no more, no peer is tried for ever, although every deletion leaves
\* timers behind that start again with a new entry and a retryCount of 0.
RetriesEnd ==
    <>[](\A p \in Peer :
            /\ connects[p] = 0
            /\ ~entry[p].retryTimer /\ stray[p].retries = 0)

\* "Disconnect from a peer device" (ConnectionManager.ts:66): a peer that was left while
\* no connect was under way and no stray timer ran does not come back before the app
\* connects again, however the answers and the other peers' timers fall.  (A connect
\* under way, or a stray timer, does bring the entry back as CONNECTED.)
PartedStaysParted ==
    \A p \in Peer :
        parted[p] => /\ Alone(p)
                     /\ entry[p].state \in {"DISCONNECTING", "ABSENT"}
                     /\ ~entry[p].retryTimer /\ ~entry[p].heartbeatTimer
=============================================================================
