----------------------------- MODULE Settlement -----------------------------
(***************************************************************************)
(* services/settlement/SettlementService.ts and SettlementServiceFactory.ts*)
(* on one device, with BackendService's two calls, the backend's           *)
(* /api/settle and /api/tx routes and what becomes of a payment on chain.  *)
(*                                                                         *)
(* A call of processSettlement that got past isProcessing is a worker; in  *)
(* the code there is no more than one, which is a property here and not an *)
(* assumption.  A payment's hash is its place in `chain'.                  *)
(***************************************************************************)
EXTENDS Naturals, Sequences, SequencesExt, FiniteSets

CONSTANTS
    Debit,      \* the ids of the ledger's debits
    Bad,        \* the debits the backend always refuses (to is no Algorand address)
    Worker,     \* names for the calls of processSettlement
    MaxBatch,   \* MAX_BATCH_SIZE (10 in the code)
    MaxPolls,   \* maxAttempts (20)
    MaxFaults   \* bound on timeouts, failed polls, 5xx answers and dropped payments

ASSUME SettlementAssumption ==
    /\ Bad \subseteq Debit /\ IsFiniteSet(Debit)
    /\ MaxBatch \in Nat \ {0} /\ MaxPolls \in Nat \ {0} /\ MaxFaults \in Nat

VARIABLES
    entries,      \* the ledger's debits, newest first
    settled,      \* those whose settled flag is set
    isRunning,    \* SettlementService.isRunning; the interval timer runs with it
    isProcessing, \* SettlementService.isProcessing
    worker,       \* what each call of processSettlement has still to do
    request,      \* the POST a worker waits for
    orphans,      \* POSTs given up by the app that may still reach the backend
    chain,        \* the payments the backend sent to Algorand
    isMonitoring, \* SettlementServiceFactory.isMonitoring
    checks,       \* what the connectivity checks under way were started by
    halted,       \* history: stopMonitoring ran with no check under way, and nobody started
                  \* anything since
    faults,       \* history: the faults so far
    failures      \* history: attempts that threw although a payment may come of them

ledgerVars == <<entries, settled>>
workVars == <<isProcessing, worker, request>>
netVars == <<orphans, chain>>
factoryVars == <<isMonitoring, checks, halted>>
vars == <<ledgerVars, isRunning, workVars, netVars, factoryVars, faults, failures>>

Payments == [debit : Debit, state : {"pending", "confirmed", "dropped"}]
NoRequest == [state |-> "none", hash |-> 0]
Idle == [stage |-> "idle"]
Jobs == [stage : {"posting", "polling"}, entry : Debit, rest : SUBSET Debit,
         polls : Nat, hash : Nat]

TypeOK ==
    /\ entries \in Seq(Debit) /\ settled \in SUBSET Debit
    /\ isRunning \in BOOLEAN /\ isProcessing \in BOOLEAN
    /\ worker \in [Worker -> Jobs \cup {Idle}]
    /\ request \in [Worker -> [state : {"none", "sent", "paid", "refused"}, hash : Nat]]
    /\ orphans \in [Debit -> Nat]
    /\ chain \in Seq(Payments)
    /\ isMonitoring \in BOOLEAN /\ checks \in SUBSET {"timer", "manual"}
    /\ halted \in BOOLEAN
    /\ faults \in Nat /\ failures \in [Debit -> Nat]

Init ==
    /\ entries = <<>> /\ settled = {}
    /\ isRunning = FALSE /\ isProcessing = FALSE
    /\ worker = [w \in Worker |-> Idle]
    /\ request = [w \in Worker |-> NoRequest]
    /\ orphans = [d \in Debit |-> 0]
    /\ chain = <<>>
    /\ isMonitoring = FALSE /\ checks = {} /\ halted = FALSE
    /\ faults = 0
    /\ failures = [d \in Debit |-> 0]
-----------------------------------------------------------------------------
(* processSettlement *)

Place(d) == CHOOSE i \in DOMAIN entries : entries[i] = d
Newer(d, e) == Place(d) < Place(e)

\* Mutant: the newest entries go to the backend, settled or not.
AllEntries ==
    {d \in ToSet(entries) : Cardinality({e \in ToSet(entries) : Newer(e, d)}) < MaxBatch}

\* getUnsettled, filtered and sliced: the newest MAX_BATCH_SIZE debits.
Batch ==
    LET unsettled == ToSet(entries) \ settled
    IN  {d \in unsettled : Cardinality({e \in unsettled : Newer(e, d)}) < MaxBatch}

\* The batch is gone through from the newest entry on.
Newest(batch) == CHOOSE d \in batch : \A e \in batch : ~Newer(e, d)

Job(batch) ==
    [stage |-> "posting", entry |-> Newest(batch), rest |-> batch \ {Newest(batch)},
     polls |-> 0, hash |-> 0]

\* Mutant: the reentrancy guard is dropped.
NeverBusy == FALSE

Busy == isProcessing

Free == {w \in Worker : worker[w].stage = "idle"}

\* processSettlement up to the await on the first POST.
ProcessSettlement ==
    IF Busy \/ Batch = {} \/ Free = {}
    THEN UNCHANGED workVars
    ELSE LET w == CHOOSE v \in Free : TRUE
         IN /\ isProcessing' = TRUE
            /\ worker' = [worker EXCEPT ![w] = Job(Batch)]
            /\ request' = [request EXCEPT ![w] = [state |-> "sent", hash |-> 0]]

Current(w) == worker[w].entry

Finish(w) ==
    /\ worker' = [worker EXCEPT ![w] = Idle]
    /\ request' = [request EXCEPT ![w] = NoRequest]
    /\ isProcessing' = FALSE

\* Mutant: the hash of the last entry serves for the next.
AdvanceWithHash(w) ==
    LET rest == worker[w].rest
    IN  IF rest = {} THEN Finish(w)
        ELSE /\ worker' = [worker EXCEPT ![w].entry = Newest(rest),
                                         ![w].rest = rest \ {Newest(rest)}]
             /\ UNCHANGED <<request, isProcessing>>

\* settleOnChain is over, by return or by throw: on to the next entry, whose POST
\* goes out at once, or to the finally.
Advance(w) ==
    LET rest == worker[w].rest
    IN  IF rest = {} THEN Finish(w)
        ELSE /\ worker' = [worker EXCEPT ![w] = Job(rest)]
             /\ request' = [request EXCEPT ![w] = [state |-> "sent", hash |-> 0]]
             /\ UNCHANGED isProcessing

\* The POST is answered with a hash, and the first GET goes out.
PostReturns(w) ==
    /\ request[w].state = "paid"
    /\ worker' = [worker EXCEPT ![w].stage = "polling", ![w].hash = request[w].hash]
    /\ request' = [request EXCEPT ![w] = NoRequest]
    /\ UNCHANGED <<ledgerVars, isRunning, isProcessing, netVars, factoryVars, faults,
                   failures>>

\* The POST is answered with an error, and nothing was sent to Algorand.
PostRefused(w) ==
    /\ request[w].state = "refused"
    /\ Advance(w)
    /\ UNCHANGED <<ledgerVars, isRunning, netVars, factoryVars, faults, failures>>

Fault == faults < MaxFaults /\ faults' = faults + 1

\* The POST is aborted after 8 s, or its answer is lost: the backend may have sent a
\* payment, or may do so later.
PostTimesOut(w) ==
    /\ Fault
    /\ request[w].state \in {"sent", "paid"}
    /\ orphans' = IF request[w].state = "sent"
                  THEN [orphans EXCEPT ![Current(w)] = @ + 1] ELSE orphans
    /\ failures' = [failures EXCEPT ![Current(w)] = @ + 1]
    /\ Advance(w)
    /\ UNCHANGED <<ledgerVars, isRunning, chain, factoryVars>>

State(w) == chain[worker[w].hash].state

\* The route answers pending also for a payment that is dropped, while its node remembers.
Confirmed(w) == State(w) = "confirmed"

\* Mutant: an unconfirmed payment is given up after the polls.
OnlyConfirmed(w) == Confirmed(w)

\* What makes settleOnChain mark the entry: confirmed, or pending for 20 polls.
Final(w) == Confirmed(w) \/ worker[w].polls + 1 = MaxPolls

PollSettles(w) ==
    /\ worker[w].stage = "polling"
    /\ Final(w)
    /\ settled' = settled \cup {Current(w)}
    /\ Advance(w)
    /\ UNCHANGED <<entries, isRunning, netVars, factoryVars, faults, failures>>

\* ... otherwise a payment that is said to be pending is polled again 3 s later.
PollPending(w) ==
    /\ worker[w].stage = "polling"
    /\ ~Confirmed(w) /\ worker[w].polls + 1 < MaxPolls
    /\ worker' = [worker EXCEPT ![w].polls = @ + 1]
    /\ UNCHANGED <<ledgerVars, isRunning, isProcessing, request, netVars, factoryVars,
                   faults, failures>>

\* The chain knows the payment no longer: not_found, or an error of the node.
PollNotFound(w) ==
    /\ worker[w].stage = "polling"
    /\ State(w) = "dropped"
    /\ failures' = [failures EXCEPT ![Current(w)] = @ + 1]
    /\ Advance(w)
    /\ UNCHANGED <<ledgerVars, isRunning, netVars, factoryVars, faults>>

\* getTxStatus throws: timeout, no network, or 404 before the payment has propagated.
PollFails(w) ==
    /\ Fault
    /\ worker[w].stage = "polling"
    /\ failures' = [failures EXCEPT ![Current(w)] = @ + 1]
    /\ Advance(w)
    /\ UNCHANGED <<ledgerVars, isRunning, netVars, factoryVars>>
-----------------------------------------------------------------------------
(* The backend and the chain *)

\* Mutant: the payment has a status the app does not know.
UnknownStatus(d) == Append(chain, [debit |-> d, state |-> "submitted"])

PaymentOf(d) == Append(chain, [debit |-> d, state |-> "pending"])

\* POST /api/settle signs a new payment each time; txId is only its note.
BackendPays(w) ==
    /\ request[w].state = "sent" /\ Current(w) \notin Bad
    /\ chain' = PaymentOf(Current(w))
    /\ request' = [request EXCEPT ![w] = [state |-> "paid", hash |-> Len(chain')]]
    /\ UNCHANGED <<ledgerVars, isRunning, isProcessing, worker, orphans, factoryVars,
                   faults, failures>>

\* 400 for an order that is no order.
BackendRefuses(w) ==
    /\ request[w].state = "sent" /\ Current(w) \in Bad
    /\ request' = [request EXCEPT ![w].state = "refused"]
    /\ UNCHANGED <<ledgerVars, isRunning, isProcessing, worker, netVars, factoryVars,
                   faults, failures>>

\* 422 or 502: Algorand took no payment.
BackendFails(w) ==
    /\ Fault
    /\ request[w].state = "sent"
    /\ request' = [request EXCEPT ![w].state = "refused"]
    /\ UNCHANGED <<ledgerVars, isRunning, isProcessing, worker, netVars, factoryVars,
                   failures>>

\* A POST the app gave up is carried out all the same.
OrphanPays(d) ==
    /\ orphans[d] > 0 /\ d \notin Bad
    /\ orphans' = [orphans EXCEPT ![d] = @ - 1]
    /\ chain' = PaymentOf(d)
    /\ UNCHANGED <<ledgerVars, isRunning, workVars, factoryVars, faults, failures>>

Confirm(h) ==
    /\ chain[h].state = "pending"
    /\ chain' = [chain EXCEPT ![h].state = "confirmed"]
    /\ UNCHANGED <<ledgerVars, isRunning, workVars, orphans, factoryVars, faults, failures>>

\* A payment that no block takes leaves the pool.
DropPayment(h) ==
    /\ Fault
    /\ chain[h].state = "pending"
    /\ chain' = [chain EXCEPT ![h].state = "dropped"]
    /\ UNCHANGED <<ledgerVars, isRunning, workVars, orphans, factoryVars, failures>>
-----------------------------------------------------------------------------
(* Timers and callers *)

\* LocalLedger.debit, from TransactionManager.
NewDebit(d) ==
    /\ d \notin ToSet(entries)
    /\ entries' = <<d>> \o entries
    /\ UNCHANGED <<settled, isRunning, workVars, netVars, factoryVars, faults, failures>>

\* The 30 s interval; stop() clears it, and does not touch a batch under way.
IntervalFires ==
    /\ isRunning
    /\ ProcessSettlement
    /\ UNCHANGED <<ledgerVars, isRunning, netVars, factoryVars, faults, failures>>

StartMonitoring ==
    /\ ~isMonitoring
    /\ isMonitoring' = TRUE
    /\ halted' = FALSE
    /\ UNCHANGED <<ledgerVars, isRunning, workVars, netVars, checks, faults, failures>>

\* stopMonitoring clears the interval, not the check it may have started.
StopMonitoring ==
    /\ isMonitoring' = FALSE
    /\ isRunning' = FALSE
    /\ halted' = (checks = {})
    /\ UNCHANGED <<ledgerVars, workVars, netVars, checks, faults, failures>>

\* Mutant: the interval outlives stopMonitoring.
NeverCleared(by) ==
    /\ by \notin checks
    /\ checks' = checks \cup {by}
    /\ halted' = (halted /\ by = "timer")
    /\ UNCHANGED <<ledgerVars, isRunning, workVars, netVars, isMonitoring, faults, failures>>

\* checkConnectivity goes out, from the interval or from triggerManualSettlement.
StartCheck(by) ==
    /\ by = "timer" => isMonitoring
    /\ by \notin checks
    /\ checks' = checks \cup {by}
    /\ halted' = (halted /\ by = "timer")
    /\ UNCHANGED <<ledgerVars, isRunning, workVars, netVars, isMonitoring, faults, failures>>

\* Online: the service is started if it does not run, which processes at once; a
\* manual trigger processes in any case.
CheckOnline(by) ==
    /\ by \in checks
    /\ checks' = checks \ {by}
    /\ isRunning' = TRUE
    /\ IF isRunning /\ by = "timer" THEN UNCHANGED workVars ELSE ProcessSettlement
    /\ UNCHANGED <<ledgerVars, netVars, isMonitoring, halted, faults, failures>>

\* Offline: the interval's check stops the service, a manual trigger gives up.
CheckOffline(by) ==
    /\ by \in checks
    /\ checks' = checks \ {by}
    /\ isRunning' = IF by = "timer" THEN FALSE ELSE isRunning
    /\ UNCHANGED <<ledgerVars, workVars, netVars, isMonitoring, halted, faults, failures>>

Work(w) ==
    \/ PostReturns(w) \/ PostRefused(w)
    \/ PollSettles(w) \/ PollPending(w) \/ PollNotFound(w)
    \/ BackendPays(w) \/ BackendRefuses(w)

Next ==
    \/ \E w \in Worker : \/ Work(w)
                         \/ PostTimesOut(w) \/ PollFails(w) \/ BackendFails(w)
    \/ \E d \in Debit : NewDebit(d) \/ OrphanPays(d)
    \/ \E h \in DOMAIN chain : Confirm(h) \/ DropPayment(h)
    \/ IntervalFires \/ StartMonitoring \/ StopMonitoring
    \/ \E by \in {"timer", "manual"} : StartCheck(by) \/ CheckOnline(by) \/ CheckOffline(by)

Spec == Init /\ [][Next]_vars

\* Answers arrive, timers fire and the promises of a worker resume.  No fairness for
\* Confirm: a payment may stay pending longer than the app polls.
Fairness ==
    /\ \A w \in Worker : WF_vars(Work(w))
    /\ WF_vars(IntervalFires)

FairSpec == Spec /\ Fairness
-----------------------------------------------------------------------------
(* Properties *)

PaymentsFor(d) == {h \in DOMAIN chain : chain[h].debit = d}

\* Each attempt pays once: the chain holds more payments of a debit than one only by
\* as many attempts as ended in an exception after the POST had gone out.  It takes
\* the reentrancy guard across the interval, start and the manual trigger
\* (SettlementService.ts:66) and the order of POST, poll and mark.
OnePaymentPerAttempt ==
    \A d \in Debit : Cardinality(PaymentsFor(d)) + orphans[d] <= 1 + failures[d]

\* An entry is marked settled only when a payment of it went to Algorand.
SettledWasPaid == \A d \in settled : PaymentsFor(d) # {}

\* The batch is a snapshot taken before the first await, yet no entry of it is settled
\* by the time its POST goes out, nor is it posted or polled twice at once.
WorkIsUnsettled ==
    \A w \in Worker :
        worker[w].stage # "idle" =>
            /\ ({worker[w].entry} \cup worker[w].rest) \cap settled = {}
            /\ \A v \in Worker \ {w} : worker[v].stage = "idle"

\* stopMonitoring stops the settlement for good, until somebody starts it again: no timer
\* or answer that is left turns it on (SettlementServiceFactory.ts:43-54).  It takes that
\* no connectivity check was under way at the call: one that was does restart the
\* service when it answers (line 36), with no monitor left to stop it.
HaltedStaysOff == halted => ~isRunning

\* With fewer hopeless debits than a batch holds, a debit is settled as long as the
\* service runs: ARCHITECTURE.md's "Eventually succeeds when RPC recovers".  With as many
\* hopeless newer debits as a batch holds, the older ones are starved.
EventuallySettled ==
    \A d \in Debit \ Bad :
        (Cardinality(Bad) < MaxBatch /\ d \in ToSet(entries) /\ isRunning)
            ~> (d \in settled \/ ~isRunning)

P == INSTANCE Payout WITH owed <- ToSet(entries), lost <- failures,
                          paid <- [d \in Debit |-> Cardinality(PaymentsFor(d))]

\* The interval, the monitor, the manual trigger, the POSTs given up and the chain come to
\* no more than owing, paying, losing and settling one debit at a time: nothing is paid
\* that is not owed, no second time but for an attempt lost before, and nothing is marked
\* unpaid or again (SettlementService.ts:66-135).
KeepsPayout == P!Spec

\* ARCHITECTURE.md:319: settlement on chain is where a double spend is prevented.  A
\* debit is paid twice by the code, after a timeout whose POST went through.
PaidOnce == \A d \in Debit : Cardinality(PaymentsFor(d)) <= 1
=============================================================================
