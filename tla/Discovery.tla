------------------------------ MODULE Discovery ------------------------------
(***************************************************************************)
(* services/ble/DeviceDiscoveryService.ts with BleService's initialize,    *)
(* startScan and stopScan: scans that end by a timeout of their own, the   *)
(* rescan and cleanup intervals, and stopDiscovery at any moment of them.  *)
(*                                                                         *)
(* Timers count down in ticks; at 1 a timer is due and must fire before    *)
(* the next tick, at 0 it is not set.  A call of startContinuousDiscovery  *)
(* is named by a member of Start, from which its timers keep the name.     *)
(* The app does not call this service yet.                                 *)
(***************************************************************************)
EXTENDS Naturals, FiniteSets

CONSTANTS
    Peer,           \* devices that advertise the service
    Start,          \* names for calls of startContinuousDiscovery: bounds how many overlap
    ScanTime,       \* SCAN_DURATION_MS (10 s), in ticks
    Period,         \* SCAN_DURATION_MS + 2000
    CleanupPeriod,  \* PEER_TIMEOUT_MS / 2
    PeerTimeout     \* PEER_TIMEOUT_MS (45 s)

\* Two periods and two scans are no longer than a device may go unseen, and one of each
\* shorter than the time between two cleanups, as 24 s + 20 s <= 45 s and 22 s < 22.5 s.
ASSUME DiscoveryAssumption ==
    /\ ScanTime \in Nat \ {0} /\ Period \in Nat /\ Period > ScanTime
    /\ CleanupPeriod \in Nat /\ CleanupPeriod > Period + ScanTime
    /\ PeerTimeout \in Nat /\ PeerTimeout >= 2 * (Period + ScanTime)

VARIABLES
    isReady,    \* BleService.isReady
    isScanning, \* DeviceDiscoveryService.isScanning
    stage,      \* of each start: awaiting its first scan, its intervals set, or neither
    left,       \* until the timeout of the start's pending startScan
    again,      \* until its rescan interval fires
    clean,      \* until its cleanup interval fires
    held,       \* the start whose intervals are in scanInterval and cleanupInterval
    listener,   \* the start whose callback the running BLE scan calls
    seen,       \* lastSeenTimes: how long ago, in a set of at most one
    missed,     \* history: the scans that ended since the device was last reported
    leftover    \* history: the last stopDiscovery left a start behind

timerVars == <<stage, left, again, clean, held>>
discoveryVars == <<isReady, isScanning, timerVars, listener, seen, missed, leftover>>

DiscoveryTypeOK ==
    /\ isReady \in BOOLEAN /\ isScanning \in BOOLEAN
    /\ stage \in [Start -> {"none", "first", "on"}]
    /\ left \in [Start -> 0 .. ScanTime + 1]
    /\ again \in [Start -> 0 .. Period + 1]
    /\ clean \in [Start -> 0 .. CleanupPeriod + 1]
    /\ held \in SUBSET Start /\ Cardinality(held) <= 1
    /\ listener \in SUBSET Start /\ Cardinality(listener) <= 1
    /\ seen \in [Peer -> SUBSET (0 .. PeerTimeout + 1)]
    /\ missed \in [Peer -> 0 .. 3] /\ leftover \in BOOLEAN

DiscoveryInit ==
    /\ isReady = FALSE /\ isScanning = FALSE
    /\ stage = [k \in Start |-> "none"]
    /\ left = [k \in Start |-> 0]
    /\ again = [k \in Start |-> 0] /\ clean = [k \in Start |-> 0]
    /\ held = {} /\ listener = {}
    /\ seen = [d \in Peer |-> {}]
    /\ missed = [d \in Peer |-> 0] /\ leftover = FALSE
-----------------------------------------------------------------------------
(* BleService *)

\* initialize resolves: Bluetooth is on.
BleReady ==
    /\ isReady' = TRUE
    /\ UNCHANGED <<isScanning, timerVars, listener, seen, missed, leftover>>

\* The scan that runs now, if any, ends, or none could begin.
EndScan(ends) ==
    missed' = IF ends THEN [d \in Peer |-> IF missed[d] < 3 THEN missed[d] + 1 ELSE 3]
              ELSE missed

\* startScan: throws when not ready; else takes the BLE scan over from any other.
StartScan(k) ==
    /\ EndScan(listener # {} \/ ~isReady)
    /\ IF isReady THEN left' = [left EXCEPT ![k] = ScanTime + 1] /\ listener' = {k}
       ELSE UNCHANGED <<left, listener>>

\* The BLE scan is over, whoever began it: stopDeviceScan, or the library gave it up.
BleScanEnds == listener' = {} /\ EndScan(listener # {})
-----------------------------------------------------------------------------
(* DeviceDiscoveryService *)

\* The awaited first scan is over, by timeout or error: both intervals are set.
SetIntervals(k) ==
    /\ stage' = [stage EXCEPT ![k] = "on"]
    /\ again' = [again EXCEPT ![k] = Period + 1]
    /\ clean' = [clean EXCEPT ![k] = CleanupPeriod + 1]
    /\ held' = {k}

\* What follows performScan: the intervals after a first scan, nothing after another.
ScanIsOver(k) ==
    IF stage[k] = "first" THEN SetIntervals(k) ELSE UNCHANGED <<stage, again, clean, held>>

\* Mutant: isScanning is not looked at.
MayAlways == TRUE

MayStart == ~isScanning

\* A startScan that throws is caught, and the intervals are set all the same.
StartContinuousDiscovery(k) ==
    /\ MayStart
    /\ stage[k] = "none" /\ left[k] = 0
    /\ isScanning' = TRUE
    /\ StartScan(k)
    /\ IF isReady THEN stage' = [stage EXCEPT ![k] = "first"] /\ UNCHANGED <<again, clean, held>>
       ELSE SetIntervals(k)
    /\ UNCHANGED <<isReady, seen, leftover>>

ScanTimesOut(k) ==
    /\ left[k] = 1
    /\ left' = [left EXCEPT ![k] = 0]
    /\ BleScanEnds
    /\ ScanIsOver(k)
    /\ UNCHANGED <<isReady, isScanning, seen, leftover>>

\* The library gives the scan up with an error: the callback clears the timeout and rejects
\* the promise, and calls nothing.
ScanFails(k) ==
    /\ listener = {k} /\ left[k] > 0
    /\ left' = [left EXCEPT ![k] = 0]
    /\ BleScanEnds
    /\ ScanIsOver(k)
    /\ UNCHANGED <<isReady, isScanning, seen, leftover>>

\* A device that is close enough is found.
DeviceFound(d) ==
    /\ listener # {}
    /\ seen' = [seen EXCEPT ![d] = {0}]
    /\ missed' = [missed EXCEPT ![d] = 0]
    /\ UNCHANGED <<isReady, isScanning, timerVars, listener, leftover>>

Rescan(k) ==
    /\ again[k] = 1 /\ left[k] = 0
    /\ again' = [again EXCEPT ![k] = Period + 1]
    /\ StartScan(k)
    /\ UNCHANGED <<isReady, isScanning, stage, clean, held, seen, leftover>>

\* Mutant: half the timeout will do.
StaleEarly(a) == a > PeerTimeout \div 2

IsStalePeer(a) == a > PeerTimeout

CleanupStalePeers(k) ==
    /\ clean[k] = 1
    /\ clean' = [clean EXCEPT ![k] = CleanupPeriod + 1]
    /\ seen' = [d \in Peer |-> {a \in seen[d] : ~IsStalePeer(a)}]
    /\ UNCHANGED <<isReady, isScanning, stage, left, again, held, listener, missed, leftover>>

\* Only the intervals in the two fields are cleared; the timeout of a scan runs on.
Stop ==
    /\ isScanning' = FALSE
    /\ BleScanEnds
    /\ stage' = [k \in Start |-> IF k \in held THEN "none" ELSE stage[k]]
    /\ again' = [k \in Start |-> IF k \in held THEN 0 ELSE again[k]]
    /\ clean' = [k \in Start |-> IF k \in held THEN 0 ELSE clean[k]]
    /\ held' = {}
    /\ leftover' = (\E k \in Start \ held : stage[k] # "none")
    /\ UNCHANGED <<isReady, left>>

StopDiscovery == Stop /\ UNCHANGED seen

DestroyDiscovery == Stop /\ seen' = [d \in Peer |-> {}]

Due == \E k \in Start : 1 \in {left[k], again[k], clean[k]}
Down(timer) == [k \in Start |-> IF timer[k] = 0 THEN 0 ELSE timer[k] - 1]

DiscoveryTick ==
    /\ ~Due
    /\ left' = Down(left) /\ again' = Down(again) /\ clean' = Down(clean)
    /\ seen' = [d \in Peer |-> {IF a <= PeerTimeout THEN a + 1 ELSE a : a \in seen[d]}]
    /\ UNCHANGED <<isReady, isScanning, stage, held, listener, missed, leftover>>

DiscoveryNext ==
    \/ BleReady
    \/ \E k \in Start :
        \/ StartContinuousDiscovery(k)
        \/ ScanTimesOut(k) \/ ScanFails(k) \/ Rescan(k) \/ CleanupStalePeers(k)
    \/ \E d \in Peer : DeviceFound(d)
    \/ StopDiscovery \/ DestroyDiscovery
    \/ DiscoveryTick

DiscoverySpec == DiscoveryInit /\ [][DiscoveryNext]_discoveryVars
-----------------------------------------------------------------------------
(* Properties *)

Running == {k \in Start : stage[k] # "none"}

\* DeviceDiscoveryService.ts:56, "Stop continuous discovery": once stopped, no interval is
\* set and no scan listens; once started, exactly one call's first scan or intervals are
\* there to carry it on.  Not so after a stop that came during a first scan: its intervals
\* are set afterwards (45-52), and no field holds them once another start has set its own.
RunsOnlyWhenOn ==
    ~leftover => /\ isScanning => Cardinality(Running) = 1
                 /\ ~isScanning => Running = {} /\ listener = {}

\* A device is given up as lost only when, after the scan that last found it, two more have
\* ended or failed to begin: stopping and starting again, when a timeout of the old scan may
\* cut the new one short (BleService.ts:61), does not lose a device that keeps being found.
LostWasMissed ==
    [][\A d \in Peer, k \in Start :
         (CleanupStalePeers(k) /\ ~leftover /\ seen[d] # {} /\ seen'[d] = {})
            => missed[d] = 3]_discoveryVars
=============================================================================
