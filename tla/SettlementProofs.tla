-------------------------- MODULE SettlementProofs --------------------------
(***************************************************************************)
(* Proofs about Settlement, for any debits, calls, batch size, polls and   *)
(* faults: its types, that the work of a batch is not settled already,     *)
(* that settled debits were paid, that an attempt pays once, that          *)
(* stopMonitoring lasts, and that all of it implements Payout.             *)
(***************************************************************************)
EXTENDS Settlement, SequenceTheorems, FiniteSetTheorems, TLAPS

(* Stopped for good *)

\* stopMonitoring leaves no timer, and without a check nothing starts the service.
Halt == halted => ~isRunning /\ ~isMonitoring /\ checks = {}

LEMMA HaltNext == Halt /\ [Next]_vars => Halt'
<1> SUFFICES ASSUME Halt, [Next]_vars PROVE Halt'
  OBVIOUS
<1> USE DEF Halt, factoryVars, vars
<1>1. ASSUME UNCHANGED <<isRunning, factoryVars>> PROVE Halt'
  BY <1>1
<1>2. ASSUME NEW w \in Worker, Work(w) PROVE Halt'
  BY <1>1, <1>2 DEF Work, PostReturns, PostRefused, PollSettles, PollPending, PollNotFound,
     BackendPays, BackendRefuses
<1>3. ASSUME NEW w \in Worker, PostTimesOut(w) \/ PollFails(w) \/ BackendFails(w) PROVE Halt'
  BY <1>1, <1>3 DEF PostTimesOut, PollFails, BackendFails
<1>4. ASSUME NEW d \in Debit, NewDebit(d) \/ OrphanPays(d) PROVE Halt'
  BY <1>1, <1>4 DEF NewDebit, OrphanPays
<1>5. ASSUME NEW h \in DOMAIN chain, Confirm(h) \/ DropPayment(h) PROVE Halt'
  BY <1>1, <1>5 DEF Confirm, DropPayment
<1>6. ASSUME IntervalFires PROVE Halt'
  BY <1>1, <1>6 DEF IntervalFires
<1>7. ASSUME StartMonitoring \/ StopMonitoring PROVE Halt'
  BY <1>7 DEF StartMonitoring, StopMonitoring
<1>8. ASSUME NEW by \in {"timer", "manual"}, StartCheck(by) PROVE Halt'
  BY <1>8 DEF StartCheck
<1>9. ASSUME NEW by \in {"timer", "manual"}, CheckOnline(by) \/ CheckOffline(by) PROVE Halt'
  <2>1. by \in checks /\ halted' = halted
    BY <1>9 DEF CheckOnline, CheckOffline
  <2> QED
    BY <2>1
<1> QED
  BY <1>1, <1>2, <1>3, <1>4, <1>5, <1>6, <1>7, <1>8, <1>9 DEF Next

\* A stopMonitoring with no check under way stops the settlement until somebody starts it
\* again (SettlementServiceFactory.ts:43-54).
THEOREM HaltedStaysOffAlways == Spec => []HaltedStaysOff
<1>1. Init => Halt
  BY DEF Init, Halt
<1>2. Halt => HaltedStaysOff
  BY DEF Halt, HaltedStaysOff
<1> QED
  BY <1>1, <1>2, HaltNext, PTL DEF Spec

(* The inductive invariant *)

\* What a worker waits for is about its entry, which like the rest of its batch is not
\* settled; no other worker is there.
Sane(w) ==
    /\ worker[w].stage = "idle" => request[w].state = "none"
    /\ worker[w].stage # "idle" =>
           /\ isProcessing
           /\ \A v \in Worker \ {w} : worker[v].stage = "idle"
           /\ worker[w].rest \subseteq ToSet(entries) \ settled
           /\ worker[w].entry \notin settled /\ worker[w].entry \notin worker[w].rest
    /\ worker[w].stage = "polling" =>
           /\ request[w].state = "none"
           /\ worker[w].hash \in PaymentsFor(Current(w))
    /\ request[w].state = "paid" => request[w].hash \in PaymentsFor(Current(w))

Works == \A w \in Worker : Sane(w)

\* The attempt under way has paid.
Open(d) ==
    \E w \in Worker : /\ request[w].state = "paid" \/ worker[w].stage = "polling"
                      /\ Current(w) = d

Count(b) == IF b THEN 1 ELSE 0

\* A payment is of an attempt that threw, that marked the entry, or that is under way.
Counted ==
    \A d \in Debit :
        Cardinality(PaymentsFor(d)) + orphans[d]
            <= failures[d] + Count(d \in settled) + Count(Open(d))

IInv == TypeOK /\ Works /\ SettledWasPaid /\ Counted

(* Entries, batches and payments *)

\* The newest of some entries is one of them.
LEMMA NewestType ==
    ASSUME entries \in Seq(Debit), NEW S \in SUBSET ToSet(entries), S # {}
    PROVE  Newest(S) \in S
<1>1. DOMAIN entries = 1 .. Len(entries) /\ Len(entries) \in Nat
  BY LenProperties
<1>2. ASSUME NEW d \in S PROVE Place(d) \in Nat
  <2>1. \E i \in DOMAIN entries : entries[i] = d
    BY <1>2 DEF ToSet
  <2>2. Place(d) \in DOMAIN entries
    BY <2>1 DEF Place
  <2> QED
    BY <1>1, <2>2
<1> DEFINE T == {Place(d) : d \in S}
<1>3. T \subseteq Nat /\ T # {}
  BY <1>2
<1>4. PICK i \in T : \A j \in T : <<j, i>> \notin OpToRel(<, Nat)
  BY <1>3, NatLessThanWellFounded, WFMin
<1>5. PICK d \in S : i = Place(d)
  BY <1>4
<1>6. ASSUME NEW e \in S, Newer(e, d) PROVE FALSE
  <2>1. Place(e) \in T /\ Place(e) \in Nat /\ Place(d) \in Nat /\ Place(e) < Place(d)
    BY <1>2, <1>6 DEF Newer
  <2>2. <<Place(e), Place(d)>> \in OpToRel(<, Nat)
    BY <2>1 DEF OpToRel
  <2> QED
    BY <1>4, <1>5, <2>1, <2>2
<1>7. \E x \in S : \A e \in S : ~Newer(e, x)
  BY <1>6
<1> HIDE DEF T
<1> QED
  BY <1>7 DEF Newest

LEMMA EntriesType ==
    ASSUME entries \in Seq(Debit)
    PROVE  ToSet(entries) \subseteq Debit
  BY ElementOfSeq, LenProperties DEF ToSet

LEMMA JobType ==
    ASSUME entries \in Seq(Debit), NEW S \in SUBSET ToSet(entries), S # {}
    PROVE  /\ Job(S) \in Jobs /\ Job(S).stage = "posting"
           /\ Job(S).entry \in S /\ Job(S).rest \subseteq S
           /\ Job(S).entry \notin Job(S).rest
<1>1. Newest(S) \in S /\ Newest(S) \in Debit /\ S \subseteq Debit
  BY NewestType, EntriesType
<1> QED
  BY <1>1 DEF Job, Jobs

LEMMA PaymentsFinite ==
    ASSUME TypeOK, NEW d
    PROVE  IsFiniteSet(PaymentsFor(d)) /\ Cardinality(PaymentsFor(d)) \in Nat
<1>1. DOMAIN chain = 1 .. Len(chain) /\ Len(chain) \in Nat
  BY LenProperties DEF TypeOK
<1>2. IsFiniteSet(1 .. Len(chain))
  BY <1>1, FS_Interval
<1>3. PaymentsFor(d) \in SUBSET (1 .. Len(chain))
  BY <1>1 DEF PaymentsFor
<1>4. IsFiniteSet(PaymentsFor(d))
  BY <1>2, <1>3, FS_Subset
<1> QED
  BY <1>4, FS_CardinalityType

\* A payment of a debit is one more of it, under a hash of its own.
LEMMA PaymentAdded ==
    ASSUME TypeOK, NEW d \in Debit, chain' = PaymentOf(d)
    PROVE  /\ chain' \in Seq(Payments) /\ Len(chain') \in Nat
           /\ PaymentsFor(d)' = PaymentsFor(d) \cup {Len(chain')}
           /\ Cardinality(PaymentsFor(d)') = Cardinality(PaymentsFor(d)) + 1
           /\ \A e \in Debit \ {d} : PaymentsFor(e)' = PaymentsFor(e)
<1> DEFINE p == [debit |-> d, state |-> "pending"]
<1>1. p \in Payments /\ p.debit = d
  BY DEF Payments
<1> HIDE DEF p
<1>2. chain \in Seq(Payments) /\ chain' = Append(chain, p)
  BY DEF TypeOK, PaymentOf, p
<1>3. /\ chain' \in Seq(Payments) /\ Len(chain') = Len(chain) + 1 /\ Len(chain) \in Nat
      /\ \A h \in 1 .. Len(chain) : chain'[h] = chain[h]
      /\ chain'[Len(chain) + 1] = p
  BY <1>1, <1>2, AppendProperties, LenProperties
<1>4. DOMAIN chain = 1 .. Len(chain) /\ DOMAIN chain' = 1 .. Len(chain) + 1
  BY <1>2, <1>3, LenProperties
<1>5. PaymentsFor(d)' = PaymentsFor(d) \cup {Len(chain')}
  BY <1>1, <1>3, <1>4 DEF PaymentsFor
<1>6. \A e \in Debit \ {d} : PaymentsFor(e)' = PaymentsFor(e)
  BY <1>1, <1>3, <1>4 DEF PaymentsFor
<1>7. Len(chain') \notin PaymentsFor(d)
  BY <1>3, <1>4 DEF PaymentsFor
<1>8. Cardinality(PaymentsFor(d)') = Cardinality(PaymentsFor(d)) + 1
  BY <1>5, <1>7, PaymentsFinite, FS_AddElement
<1> QED
  BY <1>3, <1>5, <1>6, <1>8

\* What becomes of a payment does not change what it is for.
LEMMA PaymentMarked ==
    ASSUME TypeOK, NEW h \in DOMAIN chain, NEW s \in {"pending", "confirmed", "dropped"},
           chain' = [chain EXCEPT ![h].state = s]
    PROVE  chain' \in Seq(Payments) /\ \A d : PaymentsFor(d)' = PaymentsFor(d)
<1>1. chain \in Seq(Payments)
  BY DEF TypeOK
<1>2. chain[h] \in Payments
  BY <1>1, ElementOfSeq, LenProperties
<1>3. [chain[h] EXCEPT !.state = s] \in Payments
      /\ [chain[h] EXCEPT !.state = s].debit = chain[h].debit
  BY <1>2 DEF Payments
<1>4. chain' = [chain EXCEPT ![h] = [chain[h] EXCEPT !.state = s]]
  OBVIOUS
<1>5. chain' \in Seq(Payments)
  BY <1>1, <1>3, <1>4, ExceptSeq
<1>6. DOMAIN chain' = DOMAIN chain /\ \A g \in DOMAIN chain : chain'[g].debit = chain[g].debit
  BY <1>3, <1>4
<1> QED
  BY <1>5, <1>6 DEF PaymentsFor

(* What a worker does *)

\* A worker is idle or has a job, and its request is one.
LEMMA WorkerTypes ==
    ASSUME TypeOK, NEW w \in Worker
    PROVE  /\ worker[w].stage = "idle" => worker[w] = Idle
           /\ worker[w].stage # "idle" => worker[w] \in Jobs
           /\ worker[w].stage = "polling" => worker[w].hash \in Nat
           /\ request[w].hash \in Nat
  BY DEF TypeOK, Jobs, Idle

\* Who waits for an answer, or polls, has an entry.
LEMMA Waiting ==
    ASSUME TypeOK, Works, NEW w \in Worker,
           request[w].state # "none" \/ worker[w].stage = "polling"
    PROVE  worker[w].stage # "idle" /\ worker[w] \in Jobs /\ Current(w) \in Debit
<1>1. worker[w].stage # "idle"
  BY DEF Works, Sane
<1> QED
  BY <1>1, WorkerTypes DEF Jobs, Current

\* One worker takes a step of its own, after which it is sane again; the others stay idle.
LEMMA OneWorks ==
    ASSUME TypeOK, Works, NEW w \in Worker,
           \A v \in Worker \ {w} : /\ worker[v].stage = "idle"
                                  /\ worker'[v] = worker[v] /\ request'[v] = request[v],
           Sane(w)'
    PROVE  /\ Works'
           /\ \A d : Open(d)' <=> /\ request'[w].state = "paid" \/ worker'[w].stage = "polling"
                                  /\ Current(w)' = d
<1>1. ASSUME NEW v \in Worker \ {w}
      PROVE  worker'[v].stage = "idle" /\ request'[v].state = "none"
  BY <1>1 DEF Works, Sane
<1>2. Works'
  BY <1>1 DEF Works, Sane
<1>3. ASSUME NEW d
      PROVE  Open(d)' <=> /\ request'[w].state = "paid" \/ worker'[w].stage = "polling"
                          /\ Current(w)' = d
  BY <1>1 DEF Open
<1> QED
  BY <1>2, <1>3

\* The state with a job that was just begun, for one of the entries that are left.
LEMMA Begins ==
    ASSUME TypeOK, Works, NEW w \in Worker,
           NEW S \in SUBSET ToSet(entries), S # {}, S \cap settled' = {},
           \A v \in Worker \ {w} : worker[v].stage = "idle",
           worker' = [worker EXCEPT ![w] = Job(S)],
           request' = [request EXCEPT ![w] = [state |-> "sent", hash |-> 0]],
           isProcessing', entries' = entries
    PROVE  /\ worker' \in [Worker -> Jobs \cup {Idle}]
           /\ request' \in [Worker -> [state : {"none", "sent", "paid", "refused"}, hash : Nat]]
           /\ Works' /\ \A d : ~Open(d)'
<1>1. /\ Job(S) \in Jobs /\ Job(S).stage = "posting"
      /\ Job(S).entry \in S /\ Job(S).rest \subseteq S
      /\ Job(S).entry \notin Job(S).rest
  BY JobType DEF TypeOK
<1>2. /\ worker' \in [Worker -> Jobs \cup {Idle}] /\ worker'[w] = Job(S)
      /\ \A v \in Worker \ {w} : worker'[v] = worker[v]
  BY <1>1 DEF TypeOK
<1>3. /\ request' \in [Worker -> [state : {"none", "sent", "paid", "refused"}, hash : Nat]]
      /\ request'[w].state = "sent"
      /\ \A v \in Worker \ {w} : request'[v] = request[v]
  BY DEF TypeOK
<1>4. Sane(w)'
  BY <1>1, <1>2, <1>3 DEF Sane
<1>5. /\ Works'
      /\ \A d : Open(d)' <=> /\ request'[w].state = "paid" \/ worker'[w].stage = "polling"
                             /\ Current(w)' = d
  BY <1>2, <1>3, <1>4, OneWorks
<1> QED
  BY <1>1, <1>2, <1>3, <1>5

\* processSettlement starts an idle worker when none works, or does nothing.
LEMMA ProcessKeeps ==
    ASSUME TypeOK, Works, ProcessSettlement, UNCHANGED <<ledgerVars, chain>>
    PROVE  /\ worker' \in [Worker -> Jobs \cup {Idle}] /\ isProcessing' \in BOOLEAN
           /\ request' \in [Worker -> [state : {"none", "sent", "paid", "refused"}, hash : Nat]]
           /\ Works' /\ \A d : Open(d)' <=> Open(d)
<1>1. CASE Busy \/ Batch = {} \/ Free = {}
  <2>1. UNCHANGED workVars
    BY <1>1 DEF ProcessSettlement
  <2> QED
    BY <2>1 DEF workVars, ledgerVars, TypeOK, Works, Sane, Open, Current, PaymentsFor
<1>2. CASE ~(Busy \/ Batch = {} \/ Free = {})
  <2> DEFINE w == CHOOSE v \in Free : TRUE
  <2>1. /\ isProcessing' = TRUE
        /\ worker' = [worker EXCEPT ![w] = Job(Batch)]
        /\ request' = [request EXCEPT ![w] = [state |-> "sent", hash |-> 0]]
    BY <1>2 DEF ProcessSettlement
  <2>2. w \in Worker
    BY <1>2 DEF Free
  <2> HIDE DEF w
  <2>3. \A v \in Worker : worker[v].stage = "idle" /\ request[v].state = "none"
    BY <1>2 DEF Works, Sane, Busy
  <2>4. Batch \in SUBSET ToSet(entries) /\ Batch # {} /\ Batch \cap settled = {}
    BY <1>2 DEF Batch
  <2>5. settled' = settled /\ entries' = entries
    BY DEF ledgerVars
  <2>6. /\ worker' \in [Worker -> Jobs \cup {Idle}]
        /\ request' \in [Worker -> [state : {"none", "sent", "paid", "refused"}, hash : Nat]]
        /\ Works' /\ \A d : ~Open(d)'
    BY <2>1, <2>2, <2>3, <2>4, <2>5, Begins
  <2>7. \A d : ~Open(d)
    BY <2>3 DEF Open
  <2> QED
    BY <2>1, <2>6, <2>7
<1> QED
  BY <1>1, <1>2

\* After an entry the worker takes the next or is done; no attempt is open then.
LEMMA AdvanceKeeps ==
    ASSUME TypeOK, Works, NEW w \in Worker, worker[w].stage # "idle", Advance(w),
           entries' = entries, settled' \in SUBSET (settled \cup {Current(w)})
    PROVE  /\ worker' \in [Worker -> Jobs \cup {Idle}] /\ isProcessing' \in BOOLEAN
           /\ request' \in [Worker -> [state : {"none", "sent", "paid", "refused"}, hash : Nat]]
           /\ Works' /\ \A d : ~Open(d)'
<1>1. /\ isProcessing
      /\ \A v \in Worker \ {w} : worker[v].stage = "idle"
      /\ worker[w].rest \subseteq ToSet(entries) \ settled
      /\ worker[w].entry \notin worker[w].rest
  BY DEF Works, Sane
<1>2. CASE worker[w].rest = {}
  <2>1. /\ worker' = [worker EXCEPT ![w] = Idle]
        /\ request' = [request EXCEPT ![w] = NoRequest]
        /\ isProcessing' = FALSE
    BY <1>2 DEF Advance, Finish
  <2>2. /\ worker' \in [Worker -> Jobs \cup {Idle}] /\ worker'[w].stage = "idle"
        /\ \A v \in Worker \ {w} : worker'[v] = worker[v]
    BY <2>1 DEF TypeOK, Idle
  <2>3. NoRequest \in [state : {"none", "sent", "paid", "refused"}, hash : Nat]
    BY DEF NoRequest
  <2>4. /\ request' \in [Worker -> [state : {"none", "sent", "paid", "refused"}, hash : Nat]]
        /\ request'[w].state = "none"
        /\ \A v \in Worker \ {w} : request'[v] = request[v]
    BY <2>1, <2>3 DEF TypeOK, NoRequest
  <2>5. Sane(w)'
    BY <2>2, <2>4 DEF Sane
  <2>6. /\ Works'
        /\ \A d : Open(d)' <=> /\ request'[w].state = "paid" \/ worker'[w].stage = "polling"
                               /\ Current(w)' = d
    BY <1>1, <2>2, <2>4, <2>5, OneWorks
  <2> QED
    BY <2>1, <2>2, <2>4, <2>6
<1>3. CASE worker[w].rest # {}
  <2>1. /\ worker' = [worker EXCEPT ![w] = Job(worker[w].rest)]
        /\ request' = [request EXCEPT ![w] = [state |-> "sent", hash |-> 0]]
        /\ isProcessing' = isProcessing
    BY <1>3 DEF Advance
  <2>2. worker[w].rest \cap settled' = {}
    BY <1>1 DEF Current
  <2> QED
    BY <1>1, <1>3, <2>1, <2>2, Begins DEF TypeOK
<1> QED
  BY <1>2, <1>3

\* Payments are only added, debits too: what held of the workers holds on.
LEMMA WorksStay ==
    ASSUME TypeOK, Works, UNCHANGED <<worker, request, isProcessing, settled>>,
           ToSet(entries) \subseteq ToSet(entries'),
           \A e \in Debit : PaymentsFor(e) \subseteq PaymentsFor(e)'
    PROVE  Works' /\ \A d : Open(d)' <=> Open(d)
<1>1. ASSUME NEW w \in Worker PROVE Sane(w)'
  <2>1. Current(w)' = Current(w)
    BY DEF Current
  <2>2. worker[w].stage = "polling" => worker[w].hash \in PaymentsFor(Current(w))'
    BY <2>1, Waiting DEF Works, Sane
  <2>3. request[w].state = "paid" => request[w].hash \in PaymentsFor(Current(w))'
    BY <2>1, Waiting DEF Works, Sane
  <2> QED
    BY <2>2, <2>3 DEF Works, Sane
<1>2. \A d : Open(d)' <=> Open(d)
  BY DEF Open, Current
<1> QED
  BY <1>1, <1>2 DEF Works

(* Counting payments *)

LEMMA CountType == \A b \in BOOLEAN : Count(b) \in 0 .. 1
  BY DEF Count

\* A step that ends no attempt and pays nothing.
LEMMA CountedStays ==
    ASSUME Counted, UNCHANGED <<orphans, failures, settled>>,
           \A d \in Debit : PaymentsFor(d)' = PaymentsFor(d),
           \A d : Open(d)' <=> Open(d)
    PROVE  Counted'
<1>1. \A d \in Debit : Count(Open(d))' = Count(Open(d))
  BY DEF Count
<1> QED
  BY <1>1 DEF Counted

\* The end of an attempt: no more than was open has to be made up for.
LEMMA EndIsCounted ==
    ASSUME TypeOK, Works, Counted, NEW w \in Worker, worker[w].stage # "idle",
           \A d : ~Open(d)',
           \A d \in Debit : PaymentsFor(d)' = PaymentsFor(d),
           orphans' \in [Debit -> Nat], failures' \in [Debit -> Nat],
           NEW c \in Debit, c = Current(w),
           \A d \in Debit : d # c => orphans'[d] = orphans[d] /\ failures'[d] = failures[d],
           \A d \in Debit : d # c => (d \in settled' <=> d \in settled),
           orphans'[c] + failures[c] + Count(c \in settled) + Count(Open(c))
               <= orphans[c] + failures'[c] + Count(c \in settled')
    PROVE  Counted'
<1> SUFFICES ASSUME NEW d \in Debit
             PROVE  Cardinality(PaymentsFor(d)') + orphans'[d]
                        <= failures'[d] + Count(d \in settled') + Count(Open(d)')
  BY DEF Counted, Count
<1>1. Cardinality(PaymentsFor(d)) \in Nat /\ PaymentsFor(d)' = PaymentsFor(d)
  BY PaymentsFinite
<1>2. /\ Count(d \in settled) \in Nat /\ Count(d \in settled') \in Nat
      /\ Count(Open(d)) \in Nat /\ Count(Open(d)') = 0
  BY DEF Count
<1>3. /\ orphans[d] \in Nat /\ failures[d] \in Nat
      /\ orphans'[d] \in Nat /\ failures'[d] \in Nat
  BY DEF TypeOK
<1>4. Cardinality(PaymentsFor(d)) + orphans[d]
          <= failures[d] + Count(d \in settled) + Count(Open(d))
  BY DEF Counted
<1>5. CASE d = c
  BY <1>1, <1>2, <1>3, <1>4, <1>5
<1>6. CASE d # c
  <2>1. ~Open(d)
    BY <1>6 DEF Open, Works, Sane
  <2>2. Count(Open(d)) = 0
    BY <2>1 DEF Count
  <2>4. Count(d \in settled') = Count(d \in settled)
    BY <1>6 DEF Count
  <2>3. orphans'[d] = orphans[d] /\ failures'[d] = failures[d]
    BY <1>6
  <2> QED
    BY <1>1, <1>2, <1>3, <1>4, <2>2, <2>3, <2>4
<1> QED
  BY <1>5, <1>6

\* What of the invariant is left when the workers and the counts are taken care of.
LEMMA SettledStays ==
    ASSUME TypeOK, SettledWasPaid, settled' = settled,
           \A e \in Debit : PaymentsFor(e) \subseteq PaymentsFor(e)'
    PROVE  SettledWasPaid'
  BY DEF TypeOK, SettledWasPaid

(* The steps *)

CoreTypes ==
    /\ entries \in Seq(Debit) /\ settled \in SUBSET Debit
    /\ isProcessing \in BOOLEAN
    /\ worker \in [Worker -> Jobs \cup {Idle}]
    /\ request \in [Worker -> [state : {"none", "sent", "paid", "refused"}, hash : Nat]]
    /\ orphans \in [Debit -> Nat] /\ failures \in [Debit -> Nat]
    /\ chain \in Seq(Payments)

Core == CoreTypes /\ Works /\ SettledWasPaid /\ Counted

\* The switches and the monitor.
SwitchTypes ==
    /\ isRunning \in BOOLEAN /\ isMonitoring \in BOOLEAN /\ halted \in BOOLEAN
    /\ checks \in SUBSET {"timer", "manual"}
    /\ faults \in Nat

LEMMA TypesInTwo == TypeOK <=> CoreTypes /\ SwitchTypes
  BY DEF TypeOK, CoreTypes, SwitchTypes

LEMMA SwitchTypesNext ==
    ASSUME SwitchTypes, Next
    PROVE  SwitchTypes'
<1> USE DEF SwitchTypes, factoryVars
<1>1. ASSUME UNCHANGED <<isRunning, factoryVars, faults>> PROVE SwitchTypes'
  BY <1>1
<1>2. ASSUME NEW w \in Worker, Work(w) PROVE SwitchTypes'
  BY <1>1, <1>2 DEF Work, PostReturns, PostRefused, PollSettles, PollPending, PollNotFound,
     BackendPays, BackendRefuses
<1>3. ASSUME NEW w \in Worker, PostTimesOut(w) \/ PollFails(w) \/ BackendFails(w)
      PROVE  SwitchTypes'
  BY <1>3 DEF PostTimesOut, PollFails, BackendFails, Fault
<1>4. ASSUME NEW d \in Debit, NewDebit(d) \/ OrphanPays(d) PROVE SwitchTypes'
  BY <1>1, <1>4 DEF NewDebit, OrphanPays
<1>5. ASSUME NEW h \in DOMAIN chain, Confirm(h) \/ DropPayment(h) PROVE SwitchTypes'
  BY <1>5 DEF Confirm, DropPayment, Fault
<1>6. ASSUME IntervalFires PROVE SwitchTypes'
  BY <1>1, <1>6 DEF IntervalFires
<1>7. ASSUME StartMonitoring \/ StopMonitoring PROVE SwitchTypes'
  BY <1>7 DEF StartMonitoring, StopMonitoring
<1>8. ASSUME NEW by \in {"timer", "manual"}, StartCheck(by) PROVE SwitchTypes'
  BY <1>8 DEF StartCheck
<1>9. ASSUME NEW by \in {"timer", "manual"}, CheckOnline(by) \/ CheckOffline(by)
      PROVE  SwitchTypes'
  BY <1>9 DEF CheckOnline, CheckOffline
<1> QED
  BY <1>2, <1>3, <1>4, <1>5, <1>6, <1>7, <1>8, <1>9 DEF Next

\* The switches alone change nothing of the core.
LEMMA SwitchKeeps ==
    ASSUME IInv, UNCHANGED <<ledgerVars, workVars, netVars, failures>>
    PROVE  Core'
<1>1. \A d \in Debit : PaymentsFor(d)' = PaymentsFor(d)
  BY DEF PaymentsFor, netVars
<1>2. Works' /\ \A d : Open(d)' <=> Open(d)
  BY <1>1, WorksStay DEF IInv, ledgerVars, workVars
<1>3. CoreTypes'
  BY DEF IInv, TypeOK, CoreTypes, ledgerVars, workVars, netVars
<1>4. Counted'
  BY <1>1, <1>2, CountedStays DEF IInv, ledgerVars, netVars
<1>5. SettledWasPaid'
  BY <1>1, SettledStays DEF IInv, ledgerVars
<1> QED
  BY <1>2, <1>3, <1>4, <1>5 DEF Core

LEMMA StartKeeps ==
    ASSUME IInv, ProcessSettlement, UNCHANGED <<ledgerVars, netVars, failures>>
    PROVE  Core'
<1>1. /\ worker' \in [Worker -> Jobs \cup {Idle}] /\ isProcessing' \in BOOLEAN
      /\ request' \in [Worker -> [state : {"none", "sent", "paid", "refused"}, hash : Nat]]
      /\ Works' /\ \A d : Open(d)' <=> Open(d)
  BY ProcessKeeps DEF IInv, netVars
<1>2. \A d \in Debit : PaymentsFor(d)' = PaymentsFor(d)
  BY DEF PaymentsFor, netVars
<1>3. CoreTypes'
  BY <1>1 DEF IInv, TypeOK, CoreTypes, ledgerVars, netVars
<1>4. Counted'
  BY <1>1, <1>2, CountedStays DEF IInv, ledgerVars, netVars
<1>5. SettledWasPaid'
  BY <1>2, SettledStays DEF IInv, ledgerVars
<1> QED
  BY <1>1, <1>3, <1>4, <1>5 DEF Core

\* A POST is answered: its payment, if any, stays open.
LEMMA AnswerKeeps ==
    ASSUME IInv, NEW w \in Worker, PostReturns(w) \/ BackendRefuses(w) \/ BackendFails(w)
    PROVE  Core'
<1>0. TypeOK /\ Works
  BY DEF IInv
<1>1. UNCHANGED <<ledgerVars, isProcessing, netVars, failures>>
  BY DEF PostReturns, BackendRefuses, BackendFails
<1>2. request[w].state # "none"
  BY DEF PostReturns, BackendRefuses, BackendFails
<1>3. worker[w].stage # "idle" /\ worker[w] \in Jobs /\ Current(w) \in Debit
  BY <1>0, <1>2, Waiting
<1>4. \A v \in Worker \ {w} : worker[v].stage = "idle"
  BY <1>0, <1>3 DEF Works, Sane
<1>5. \A d : PaymentsFor(d)' = PaymentsFor(d)
  BY <1>1 DEF PaymentsFor, netVars
<1>6. /\ worker' \in [Worker -> Jobs \cup {Idle}]
      /\ request' \in [Worker -> [state : {"none", "sent", "paid", "refused"}, hash : Nat]]
      /\ \A v \in Worker \ {w} : worker'[v] = worker[v] /\ request'[v] = request[v]
      /\ Sane(w)' /\ Current(w)' = Current(w)
      /\ (request'[w].state = "paid" \/ worker'[w].stage = "polling")
            <=> (request[w].state = "paid" \/ worker[w].stage = "polling")
  <2>1. CASE PostReturns(w)
    <3>1. /\ request[w].state = "paid" /\ request[w].hash \in Nat
          /\ request[w].hash \in PaymentsFor(Current(w))
      BY <1>0, <2>1, WorkerTypes DEF PostReturns, Works, Sane
    <3>2. /\ worker' = [worker EXCEPT ![w] = [worker[w] EXCEPT !.stage = "polling",
                                                            !.hash = request[w].hash]]
          /\ request' = [request EXCEPT ![w] = NoRequest]
      BY <2>1 DEF PostReturns
    <3>3. PICK j \in Jobs : j = [worker[w] EXCEPT !.stage = "polling",
                                                 !.hash = request[w].hash]
      BY <1>3, <3>1 DEF Jobs
    <3>4. /\ j.stage = "polling" /\ j.hash = request[w].hash
          /\ j.entry = worker[w].entry /\ j.rest = worker[w].rest
      BY <1>3, <3>3 DEF Jobs
    <3>5. /\ worker' \in [Worker -> Jobs \cup {Idle}] /\ worker'[w] = j
          /\ \A v \in Worker \ {w} : worker'[v] = worker[v]
      BY <1>0, <3>2, <3>3 DEF TypeOK
    <3>6. /\ request' \in [Worker -> [state : {"none", "sent", "paid", "refused"}, hash : Nat]]
          /\ request'[w].state = "none"
          /\ \A v \in Worker \ {w} : request'[v] = request[v]
      BY <1>0, <3>2 DEF TypeOK, NoRequest
    <3>7. Current(w)' = Current(w)
      BY <3>4, <3>5 DEF Current
    <3>8. Sane(w)'
      BY <1>0, <1>1, <1>3, <1>4, <1>5, <3>1, <3>4, <3>5, <3>6, <3>7
      DEF Works, Sane, ledgerVars
    <3> QED
      BY <3>1, <3>4, <3>5, <3>6, <3>7, <3>8
  <2>2. CASE BackendRefuses(w) \/ BackendFails(w)
    <3>1. /\ request[w].state = "sent" /\ worker' = worker
          /\ request' = [request EXCEPT ![w] = [request[w] EXCEPT !.state = "refused"]]
      BY <2>2 DEF BackendRefuses, BackendFails
    <3>2. /\ request' \in [Worker -> [state : {"none", "sent", "paid", "refused"}, hash : Nat]]
          /\ request'[w].state = "refused"
          /\ \A v \in Worker \ {w} : request'[v] = request[v]
      BY <1>0, <3>1 DEF TypeOK
    <3>3. Current(w)' = Current(w) /\ worker[w].stage # "polling"
      BY <1>0, <3>1 DEF Current, Works, Sane
    <3>4. Sane(w)'
      BY <1>0, <1>1, <1>3, <3>1, <3>2, <3>3 DEF Works, Sane, ledgerVars
    <3> QED
      BY <1>0, <3>1, <3>2, <3>3, <3>4 DEF TypeOK
  <2> QED
    BY <2>1, <2>2
<1>7. /\ Works'
      /\ \A d : Open(d)' <=> /\ request'[w].state = "paid" \/ worker'[w].stage = "polling"
                             /\ Current(w)' = d
  BY <1>0, <1>4, <1>6, OneWorks
<1>8. \A d : Open(d) <=> /\ request[w].state = "paid" \/ worker[w].stage = "polling"
                        /\ Current(w) = d
  BY <1>0, <1>4 DEF Open, Works, Sane
<1>9. \A d : Open(d)' <=> Open(d)
  BY <1>6, <1>7, <1>8
<1>10. CoreTypes'
  BY <1>0, <1>1, <1>6 DEF TypeOK, CoreTypes, ledgerVars, netVars
<1>11. Counted'
  BY <1>1, <1>5, <1>9, CountedStays DEF IInv, ledgerVars, netVars
<1>12. SettledWasPaid'
  BY <1>1, <1>5, SettledStays DEF IInv, ledgerVars
<1> QED
  BY <1>7, <1>10, <1>11, <1>12 DEF Core

\* An attempt ends: with an answer that nothing was sent, with a mark, or with an
\* exception that is counted.
LEMMA EndKeeps ==
    ASSUME IInv, NEW w \in Worker,
           \/ PostRefused(w) \/ PostTimesOut(w)
           \/ PollSettles(w) \/ PollNotFound(w) \/ PollFails(w)
    PROVE  Core'
<1>0. TypeOK /\ Works /\ Counted /\ SettledWasPaid
  BY DEF IInv
<1>1. /\ entries' = entries /\ chain' = chain /\ Advance(w)
      /\ request[w].state # "none" \/ worker[w].stage = "polling"
  BY DEF PostRefused, PostTimesOut, PollSettles, PollNotFound, PollFails, ledgerVars, netVars
<1>2. worker[w].stage # "idle" /\ worker[w] \in Jobs /\ Current(w) \in Debit
  BY <1>0, <1>1, Waiting
<1> DEFINE c == Current(w)
<1>3. c \in Debit /\ c \notin settled
  BY <1>0, <1>2 DEF Works, Sane, Current
<1>4. Open(c) <=> request[w].state = "paid" \/ worker[w].stage = "polling"
  BY <1>0, <1>2 DEF Open, Works, Sane
<1> HIDE DEF c
<1>5. \A d : PaymentsFor(d)' = PaymentsFor(d)
  BY <1>1 DEF PaymentsFor
<1>6. /\ orphans[c] \in Nat /\ failures[c] \in Nat
      /\ orphans \in [Debit -> Nat] /\ failures \in [Debit -> Nat]
      /\ settled \in SUBSET Debit
  BY <1>0, <1>3 DEF TypeOK
<1>7. /\ settled' \in SUBSET (settled \cup {c})
      /\ orphans' \in [Debit -> Nat] /\ failures' \in [Debit -> Nat]
      /\ \A d \in Debit : d # c => orphans'[d] = orphans[d] /\ failures'[d] = failures[d]
      /\ orphans'[c] + failures[c] + Count(c \in settled) + Count(Open(c))
            <= orphans[c] + failures'[c] + Count(c \in settled')
      /\ c \in settled' => PaymentsFor(c) # {}
  <2>1. CASE PostRefused(w)
    <3>1. /\ UNCHANGED <<settled, orphans, failures>> /\ request[w].state = "refused"
      BY <2>1 DEF PostRefused, ledgerVars, netVars
    <3>2. ~Open(c)
      BY <1>0, <1>4, <3>1 DEF Works, Sane
    <3>3. Count(Open(c)) = 0
      BY <3>2 DEF Count
    <3>4. Count(c \in settled) = 0 /\ Count(c \in settled') = 0
      BY <1>3, <3>1 DEF Count
    <3> QED
      BY <1>3, <1>6, <3>1, <3>3, <3>4
  <2>2. CASE PostTimesOut(w)
    <3>1. /\ settled' = settled
          /\ orphans' = IF request[w].state = "sent"
                        THEN [orphans EXCEPT ![c] = @ + 1] ELSE orphans
          /\ failures' = [failures EXCEPT ![c] = @ + 1]
          /\ request[w].state \in {"sent", "paid"}
      BY <2>2 DEF PostTimesOut, ledgerVars, c
    <3>2. Count(c \in settled) = 0 /\ Count(c \in settled') = 0
      BY <1>3, <3>1 DEF Count
    <3>3. failures' \in [Debit -> Nat] /\ failures'[c] = failures[c] + 1
          /\ \A d \in Debit : d # c => failures'[d] = failures[d]
      BY <1>3, <1>6, <3>1
    <3>4. CASE request[w].state = "sent"
      <4>1. ~Open(c)
        BY <1>0, <1>4, <3>4 DEF Works, Sane
      <4>2. Count(Open(c)) = 0
        BY <4>1 DEF Count
      <4>3. orphans' \in [Debit -> Nat] /\ orphans'[c] = orphans[c] + 1
            /\ \A d \in Debit : d # c => orphans'[d] = orphans[d]
        BY <1>3, <1>6, <3>1, <3>4
      <4> QED
        BY <1>3, <1>6, <3>1, <3>2, <3>3, <4>2, <4>3
    <3>5. CASE request[w].state = "paid"
      <4>1. orphans' = orphans
        BY <3>1, <3>5
      <4>2. Count(Open(c)) \in 0 .. 1
        BY DEF Count
      <4> QED
        BY <1>3, <1>6, <3>1, <3>2, <3>3, <4>1, <4>2
    <3> QED
      BY <3>1, <3>4, <3>5
  <2>3. CASE PollSettles(w)
    <3>1. /\ settled' = settled \cup {c} /\ UNCHANGED <<orphans, failures>>
          /\ worker[w].stage = "polling"
      BY <2>3 DEF PollSettles, netVars, c
    <3>2. Count(c \in settled) = 0 /\ Count(c \in settled') = 1
      BY <1>3, <3>1 DEF Count
    <3>3. PaymentsFor(c) # {}
      BY <1>0, <3>1 DEF Works, Sane, c
    <3>4. Count(Open(c)) \in 0 .. 1
      BY DEF Count
    <3> QED
      BY <1>3, <1>6, <3>1, <3>2, <3>3, <3>4
  <2>4. CASE PollNotFound(w) \/ PollFails(w)
    <3>1. /\ settled' = settled /\ orphans' = orphans
          /\ failures' = [failures EXCEPT ![c] = @ + 1]
      BY <2>4 DEF PollNotFound, PollFails, ledgerVars, netVars, c
    <3>2. Count(c \in settled) = 0 /\ Count(c \in settled') = 0
      BY <1>3, <3>1 DEF Count
    <3>3. failures' \in [Debit -> Nat] /\ failures'[c] = failures[c] + 1
          /\ \A d \in Debit : d # c => failures'[d] = failures[d]
      BY <1>3, <1>6, <3>1
    <3>4. Count(Open(c)) \in 0 .. 1
      BY DEF Count
    <3> QED
      BY <1>3, <1>6, <3>1, <3>2, <3>3, <3>4
  <2> QED
    BY <2>1, <2>2, <2>3, <2>4
<1>8. /\ worker' \in [Worker -> Jobs \cup {Idle}] /\ isProcessing' \in BOOLEAN
      /\ request' \in [Worker -> [state : {"none", "sent", "paid", "refused"}, hash : Nat]]
      /\ Works' /\ \A d : ~Open(d)'
  BY <1>0, <1>1, <1>2, <1>7, AdvanceKeeps DEF c
<1>9. \A d \in Debit : d # c => (d \in settled' <=> d \in settled)
  <2>1. settled \subseteq settled'
    BY DEF PostRefused, PostTimesOut, PollSettles, PollNotFound, PollFails, ledgerVars
  <2> QED
    BY <1>7, <2>1
<1>10. Counted'
  BY <1>0, <1>2, <1>3, <1>5, <1>7, <1>8, <1>9, EndIsCounted DEF c
<1>11. CoreTypes'
  BY <1>0, <1>1, <1>3, <1>6, <1>7, <1>8 DEF TypeOK, CoreTypes
<1>12. SettledWasPaid'
  BY <1>0, <1>5, <1>7 DEF SettledWasPaid
<1> QED
  BY <1>8, <1>10, <1>11, <1>12 DEF Core

\* One more poll of the same payment.
LEMMA PollKeeps ==
    ASSUME IInv, NEW w \in Worker, PollPending(w)
    PROVE  Core'
<1>0. TypeOK /\ Works
  BY DEF IInv
<1>1. /\ worker' = [worker EXCEPT ![w] = [worker[w] EXCEPT !.polls = @ + 1]]
      /\ worker[w].stage = "polling"
      /\ UNCHANGED <<ledgerVars, isProcessing, request, netVars, failures>>
  BY DEF PollPending
<1>2. worker[w].stage # "idle" /\ worker[w] \in Jobs
  BY <1>0, <1>1, Waiting
<1>3. \A v \in Worker \ {w} : worker[v].stage = "idle"
  BY <1>0, <1>2 DEF Works, Sane
<1>4. PICK n \in Nat : n = worker[w].polls + 1
  BY <1>2 DEF Jobs
<1>5. PICK j \in Jobs : j = [worker[w] EXCEPT !.polls = n]
  BY <1>2 DEF Jobs
<1>6. /\ j.stage = "polling" /\ j.entry = worker[w].entry
      /\ j.rest = worker[w].rest /\ j.hash = worker[w].hash
  BY <1>1, <1>2, <1>5 DEF Jobs
<1>7. worker' = [worker EXCEPT ![w] = j]
  BY <1>1, <1>4, <1>5
<1>8. /\ worker' \in [Worker -> Jobs \cup {Idle}] /\ worker'[w] = j
      /\ \A v \in Worker \ {w} : worker'[v] = worker[v]
  BY <1>0, <1>7 DEF TypeOK
<1>9. \A d : PaymentsFor(d)' = PaymentsFor(d)
  BY <1>1 DEF PaymentsFor, netVars
<1>10. Sane(w)' /\ Current(w)' = Current(w)
  BY <1>0, <1>1, <1>2, <1>3, <1>6, <1>8, <1>9 DEF Works, Sane, Current, ledgerVars
<1>11. /\ Works'
       /\ \A d : Open(d)' <=> /\ request'[w].state = "paid" \/ worker'[w].stage = "polling"
                              /\ Current(w)' = d
  BY <1>0, <1>1, <1>3, <1>8, <1>10, OneWorks
<1>12. \A d : Open(d) <=> Current(w) = d
  BY <1>0, <1>1, <1>3 DEF Open, Works, Sane
<1>13. \A d : Open(d)' <=> Open(d)
  BY <1>6, <1>8, <1>10, <1>11, <1>12
<1>14. CoreTypes'
  BY <1>0, <1>1, <1>8 DEF TypeOK, CoreTypes, ledgerVars, netVars
<1>15. Counted'
  BY <1>1, <1>9, <1>13, CountedStays DEF IInv, ledgerVars, netVars
<1>16. SettledWasPaid'
  BY <1>1, <1>9, SettledStays DEF IInv, ledgerVars
<1> QED
  BY <1>11, <1>14, <1>15, <1>16 DEF Core

\* The backend pays for a POST that is waited for: from here on the attempt is open.
LEMMA PaymentKeeps ==
    ASSUME IInv, NEW w \in Worker, BackendPays(w)
    PROVE  Core'
<1>0. TypeOK /\ Works /\ Counted
  BY DEF IInv
<1>1. /\ request[w].state = "sent" /\ chain' = PaymentOf(Current(w))
      /\ request' = [request EXCEPT ![w] = [state |-> "paid", hash |-> Len(chain')]]
      /\ UNCHANGED <<ledgerVars, isProcessing, worker, orphans, failures>>
  BY DEF BackendPays
<1>2. worker[w].stage # "idle" /\ worker[w] \in Jobs /\ Current(w) \in Debit
  BY <1>0, <1>1, Waiting
<1>3. \A v \in Worker \ {w} : worker[v].stage = "idle"
  BY <1>0, <1>2 DEF Works, Sane
<1>4. PICK c \in Debit : c = Current(w) /\ Current(w)' = c
  BY <1>1, <1>2 DEF Current
<1>5. /\ chain' \in Seq(Payments) /\ Len(chain') \in Nat
      /\ PaymentsFor(c)' = PaymentsFor(c) \cup {Len(chain')}
      /\ Cardinality(PaymentsFor(c)') = Cardinality(PaymentsFor(c)) + 1
      /\ \A e \in Debit \ {c} : PaymentsFor(e)' = PaymentsFor(e)
  BY <1>0, <1>1, <1>4, PaymentAdded
<1>6. /\ request' \in [Worker -> [state : {"none", "sent", "paid", "refused"}, hash : Nat]]
      /\ request'[w].state = "paid" /\ request'[w].hash = Len(chain')
      /\ \A v \in Worker \ {w} : request'[v] = request[v]
  BY <1>0, <1>1, <1>5 DEF TypeOK
<1>7. worker[w].stage # "polling"
  BY <1>0, <1>1 DEF Works, Sane
<1>8. Sane(w)'
  BY <1>0, <1>1, <1>2, <1>4, <1>5, <1>6, <1>7 DEF Works, Sane, ledgerVars
<1>9. /\ Works'
      /\ \A d : Open(d)' <=> /\ request'[w].state = "paid" \/ worker'[w].stage = "polling"
                             /\ Current(w)' = d
  BY <1>0, <1>1, <1>3, <1>6, <1>8, OneWorks
<1>10. /\ \A d : ~Open(d)
       /\ \A d : Open(d)' <=> d = c
  BY <1>0, <1>1, <1>3, <1>4, <1>6, <1>7, <1>9 DEF Open, Works, Sane
<1>11. ASSUME NEW d \in Debit
       PROVE  Cardinality(PaymentsFor(d)') + orphans'[d]
                  <= failures'[d] + Count(d \in settled') + Count(Open(d)')
  <2>1. /\ Cardinality(PaymentsFor(d)) \in Nat
        /\ orphans[d] \in Nat /\ failures[d] \in Nat
    BY <1>0, PaymentsFinite DEF TypeOK
  <2>2. /\ Count(d \in settled') = Count(d \in settled) /\ Count(d \in settled) \in Nat
        /\ Count(Open(d)) = 0
    BY <1>1, <1>10 DEF Count, ledgerVars
  <2>3. Cardinality(PaymentsFor(d)) + orphans[d]
            <= failures[d] + Count(d \in settled) + Count(Open(d))
    BY <1>0 DEF Counted
  <2>4. CASE d = c
    <3>1. Count(Open(d)') = 1
      BY <1>10, <2>4 DEF Count
    <3>2. Cardinality(PaymentsFor(d)') = Cardinality(PaymentsFor(d)) + 1
      BY <1>5, <2>4 DEF PaymentsFor
    <3>3. orphans' = orphans /\ failures' = failures
      BY <1>1
    <3> QED
      BY <2>1, <2>2, <2>3, <3>1, <3>2, <3>3
  <2>5. CASE d # c
    <3>1. Count(Open(d)') = 0
      BY <1>10, <2>5 DEF Count
    <3>2. PaymentsFor(d)' = PaymentsFor(d)
      BY <1>5, <2>5
    <3>3. orphans' = orphans /\ failures' = failures
      BY <1>1
    <3> QED
      BY <2>1, <2>2, <2>3, <3>1, <3>2, <3>3
  <2> QED
    BY <2>4, <2>5
<1>12. Counted'
  BY <1>11 DEF Counted, Count
<1>13. CoreTypes'
  BY <1>0, <1>1, <1>5, <1>6 DEF TypeOK, CoreTypes, ledgerVars
<1>14. SettledWasPaid'
  BY <1>0, <1>1, <1>5, SettledStays DEF IInv, ledgerVars
<1> QED
  BY <1>9, <1>12, <1>13, <1>14 DEF Core

\* A POST that was given up pays instead of waiting.
LEMMA OrphanKeeps ==
    ASSUME IInv, NEW c \in Debit, OrphanPays(c)
    PROVE  Core'
<1>0. TypeOK /\ Works /\ Counted
  BY DEF IInv
<1>1. /\ orphans[c] > 0 /\ orphans' = [orphans EXCEPT ![c] = @ - 1]
      /\ chain' = PaymentOf(c)
      /\ UNCHANGED <<entries, settled, worker, request, isProcessing, failures>>
  BY DEF OrphanPays, ledgerVars, workVars
<1>2. /\ chain' \in Seq(Payments)
      /\ PaymentsFor(c)' = PaymentsFor(c) \cup {Len(chain')}
      /\ Cardinality(PaymentsFor(c)') = Cardinality(PaymentsFor(c)) + 1
      /\ \A e \in Debit \ {c} : PaymentsFor(e)' = PaymentsFor(e)
  BY <1>0, <1>1, PaymentAdded
<1>3. \A e \in Debit : PaymentsFor(e) \subseteq PaymentsFor(e)'
  BY <1>2
<1>4. Works' /\ \A d : Open(d)' <=> Open(d)
  BY <1>0, <1>1, <1>3, WorksStay
<1>5. /\ orphans[c] \in Nat /\ orphans \in [Debit -> Nat]
      /\ failures \in [Debit -> Nat]
  BY <1>0 DEF TypeOK
<1>6. /\ orphans' \in [Debit -> Nat] /\ orphans'[c] = orphans[c] - 1
      /\ \A d \in Debit : d # c => orphans'[d] = orphans[d]
  BY <1>1, <1>5
<1>7. ASSUME NEW d \in Debit
      PROVE  Cardinality(PaymentsFor(d)') + orphans'[d]
                 <= failures'[d] + Count(d \in settled') + Count(Open(d)')
  <2>1. /\ Cardinality(PaymentsFor(d)) \in Nat
        /\ orphans[d] \in Nat /\ failures[d] \in Nat
    BY <1>0, PaymentsFinite DEF TypeOK
  <2>2. /\ Count(d \in settled') = Count(d \in settled) /\ Count(d \in settled) \in Nat
        /\ Count(Open(d)') = Count(Open(d)) /\ Count(Open(d)) \in Nat
    BY <1>1, <1>4 DEF Count
  <2>3. Cardinality(PaymentsFor(d)) + orphans[d]
            <= failures[d] + Count(d \in settled) + Count(Open(d))
    BY <1>0 DEF Counted
  <2>4. Cardinality(PaymentsFor(d)') + orphans'[d] = Cardinality(PaymentsFor(d)) + orphans[d]
    <3>1. CASE d = c
      <4>1. Cardinality(PaymentsFor(d)') = Cardinality(PaymentsFor(d)) + 1
        BY <1>2, <3>1 DEF PaymentsFor
      <4>2. orphans'[d] = orphans[d] - 1
        BY <1>6, <3>1
      <4> QED
        BY <2>1, <4>1, <4>2
    <3>2. CASE d # c
      BY <1>2, <1>6, <3>2
    <3> QED
      BY <3>1, <3>2
  <2>5. failures' = failures
    BY <1>1
  <2> QED
    BY <2>2, <2>3, <2>4, <2>5
<1>8. Counted'
  BY <1>7 DEF Counted, Count
<1>9. CoreTypes'
  BY <1>0, <1>1, <1>2, <1>6 DEF TypeOK, CoreTypes
<1>10. SettledWasPaid'
  BY <1>0, <1>1, <1>3, SettledStays DEF IInv
<1> QED
  BY <1>4, <1>8, <1>9, <1>10 DEF Core

LEMMA ChainKeeps ==
    ASSUME IInv, NEW h \in DOMAIN chain, Confirm(h) \/ DropPayment(h)
    PROVE  Core'
<1>0. TypeOK /\ Works /\ Counted
  BY DEF IInv
<1>1. /\ UNCHANGED <<entries, settled, worker, request, isProcessing, orphans, failures>>
      /\ \/ chain' = [chain EXCEPT ![h].state = "confirmed"]
         \/ chain' = [chain EXCEPT ![h].state = "dropped"]
  BY DEF Confirm, DropPayment, ledgerVars, workVars
<1>2. chain' \in Seq(Payments) /\ \A d : PaymentsFor(d)' = PaymentsFor(d)
  BY <1>0, <1>1, PaymentMarked
<1>3. Works' /\ \A d : Open(d)' <=> Open(d)
  BY <1>0, <1>1, <1>2, WorksStay
<1>4. Counted'
  BY <1>0, <1>1, <1>2, <1>3, CountedStays
<1>5. CoreTypes'
  BY <1>0, <1>1, <1>2 DEF TypeOK, CoreTypes
<1>6. SettledWasPaid'
  BY <1>0, <1>1, <1>2, SettledStays DEF IInv
<1> QED
  BY <1>3, <1>4, <1>5, <1>6 DEF Core

\* A debit joins the entries at the front.
LEMMA DebitAdded ==
    ASSUME entries \in Seq(Debit), NEW d \in Debit, entries' = <<d>> \o entries
    PROVE  entries' \in Seq(Debit) /\ ToSet(entries') = ToSet(entries) \cup {d}
<1>1. <<d>> \in Seq(Debit) /\ Len(<<d>>) = 1 /\ <<d>>[1] = d
  OBVIOUS
<1>2. Len(entries) \in Nat /\ DOMAIN entries = 1 .. Len(entries)
  BY LenProperties
<1>3. /\ entries' \in Seq(Debit) /\ Len(entries') = Len(entries) + 1
      /\ entries'[1] = d /\ \A i \in 1 .. Len(entries) : entries'[i + 1] = entries[i]
  BY <1>1, <1>2, ConcatProperties
<1>4. DOMAIN entries' = 1 .. Len(entries) + 1
  BY <1>3, LenProperties
<1>5. d \in ToSet(entries')
  BY <1>2, <1>3, <1>4 DEF ToSet
<1>6. ASSUME NEW i \in DOMAIN entries PROVE entries[i] \in ToSet(entries')
  <2>1. i + 1 \in DOMAIN entries' /\ entries'[i + 1] = entries[i]
    BY <1>2, <1>3, <1>4
  <2> QED
    BY <2>1 DEF ToSet
<1>7. ASSUME NEW i \in DOMAIN entries' PROVE entries'[i] \in ToSet(entries) \cup {d}
  <2>1. CASE i = 1
    BY <1>3, <2>1
  <2>2. CASE i # 1
    <3>1. i - 1 \in DOMAIN entries /\ entries'[i] = entries[i - 1]
      BY <1>2, <1>3, <1>4, <2>2
    <3> QED
      BY <3>1 DEF ToSet
  <2> QED
    BY <2>1, <2>2
<1>8. ToSet(entries) \subseteq ToSet(entries') /\ ToSet(entries') \subseteq ToSet(entries) \cup {d}
  BY <1>6, <1>7, Zenon DEF ToSet
<1> QED
  BY <1>3, <1>5, <1>8

LEMMA DebitKeeps ==
    ASSUME IInv, NEW d \in Debit, NewDebit(d)
    PROVE  Core'
<1>0. TypeOK /\ Works /\ Counted
  BY DEF IInv
<1>1. /\ entries' = <<d>> \o entries
      /\ UNCHANGED <<settled, worker, request, isProcessing, orphans, chain, failures>>
  BY DEF NewDebit, workVars, netVars
<1>3. entries' \in Seq(Debit)
  BY <1>0, <1>1, DebitAdded DEF TypeOK
<1>4. ToSet(entries) \subseteq ToSet(entries')
  BY <1>0, <1>1, DebitAdded DEF TypeOK
<1>5. \A e : PaymentsFor(e)' = PaymentsFor(e)
  BY <1>1 DEF PaymentsFor
<1>6. Works' /\ \A e : Open(e)' <=> Open(e)
  BY <1>0, <1>1, <1>4, <1>5, WorksStay
<1>7. Counted'
  BY <1>0, <1>1, <1>5, <1>6, CountedStays
<1>8. CoreTypes'
  BY <1>0, <1>1, <1>3 DEF TypeOK, CoreTypes
<1>9. SettledWasPaid'
  BY <1>0, <1>1, <1>5, SettledStays DEF IInv
<1> QED
  BY <1>6, <1>7, <1>8, <1>9 DEF Core

LEMMA IInvInit == Init => IInv
<1> SUFFICES ASSUME Init PROVE IInv
  OBVIOUS
<1>1. worker = [w \in Worker |-> Idle] /\ request = [w \in Worker |-> NoRequest]
  BY DEF Init
<1>2. \A w \in Worker : worker[w].stage = "idle" /\ request[w].state = "none"
  BY <1>1 DEF Idle, NoRequest
<1>3. request \in [Worker -> [state : {"none", "sent", "paid", "refused"}, hash : Nat]]
  BY <1>1 DEF NoRequest
<1>4. chain = <<>> /\ entries = <<>> /\ chain \in Seq(Payments) /\ entries \in Seq(Debit)
  BY DEF Init
<1>5. orphans \in [Debit -> Nat] /\ failures \in [Debit -> Nat]
  BY DEF Init
<1>6. TypeOK
  BY <1>1, <1>3, <1>4, <1>5 DEF Init, TypeOK
<1>7. Works
  BY <1>2 DEF Works, Sane
<1>8. SettledWasPaid
  BY DEF Init, SettledWasPaid
<1>9. Counted
  <2> SUFFICES ASSUME NEW d \in Debit
               PROVE  Cardinality(PaymentsFor(d)) + orphans[d]
                          <= failures[d] + Count(d \in settled) + Count(Open(d))
    BY DEF Counted
  <2>1. PaymentsFor(d) = {}
    BY <1>4 DEF PaymentsFor
  <2>2. Cardinality(PaymentsFor(d)) = 0
    BY <2>1, FS_EmptySet
  <2>3. orphans[d] = 0 /\ failures[d] = 0
    BY DEF Init
  <2>4. Count(d \in settled) \in Nat /\ Count(Open(d)) \in Nat
    BY DEF Count
  <2> QED
    BY <2>2, <2>3, <2>4
<1> QED
  BY <1>6, <1>7, <1>8, <1>9 DEF IInv

LEMMA IInvNext == IInv /\ [Next]_vars => IInv'
<1> SUFFICES ASSUME IInv, [Next]_vars PROVE IInv'
  OBVIOUS
<1>1. ASSUME NEW w \in Worker, Work(w) PROVE Core'
  BY <1>1, AnswerKeeps, EndKeeps, PollKeeps, PaymentKeeps DEF Work
<1>2. ASSUME NEW w \in Worker, PostTimesOut(w) \/ PollFails(w) \/ BackendFails(w)
      PROVE  Core'
  BY <1>2, AnswerKeeps, EndKeeps
<1>3. ASSUME NEW d \in Debit, NewDebit(d) \/ OrphanPays(d) PROVE Core'
  BY <1>3, DebitKeeps, OrphanKeeps
<1>4. ASSUME NEW h \in DOMAIN chain, Confirm(h) \/ DropPayment(h) PROVE Core'
  BY <1>4, ChainKeeps
<1>5. ASSUME IntervalFires PROVE Core'
  BY <1>5, StartKeeps DEF IntervalFires
<1>6. ASSUME StartMonitoring \/ StopMonitoring PROVE Core'
  BY <1>6, SwitchKeeps DEF StartMonitoring, StopMonitoring
<1>7. ASSUME NEW by \in {"timer", "manual"},
             StartCheck(by) \/ CheckOnline(by) \/ CheckOffline(by)
      PROVE  Core'
  BY <1>7, SwitchKeeps, StartKeeps DEF StartCheck, CheckOnline, CheckOffline
<1>8. CASE UNCHANGED vars
  <2>1. Core'
    BY <1>8, SwitchKeeps DEF vars
  <2>2. SwitchTypes'
    BY <1>8, TypesInTwo DEF IInv, SwitchTypes, vars, factoryVars
  <2>3. TypeOK'
    BY <2>1, <2>2 DEF TypeOK, Core, CoreTypes, SwitchTypes
  <2> QED
    BY <2>1, <2>3 DEF IInv, Core
<1>9. CASE Next
  <2>1. Core'
    BY <1>1, <1>2, <1>3, <1>4, <1>5, <1>6, <1>7, <1>9 DEF Next
  <2>2. SwitchTypes'
    BY <1>9, TypesInTwo, SwitchTypesNext DEF IInv
  <2>3. TypeOK'
    BY <2>1, <2>2 DEF TypeOK, Core, CoreTypes, SwitchTypes
  <2> QED
    BY <2>1, <2>3 DEF IInv, Core
<1> QED
  BY <1>8, <1>9

LEMMA IInvAlways == Spec => []IInv
  BY IInvInit, IInvNext, PTL DEF Spec

(* Theorems *)

\* The state of the settlement services keeps its types.
THEOREM TypeCorrect == Spec => []TypeOK
<1>1. IInv => TypeOK
  BY DEF IInv
<1> QED
  BY <1>1, IInvAlways, PTL

\* A debit is posted by one call at a time, and not after it was settled
\* (SettlementService.ts:66-89).
THEOREM WorkIsUnsettledAlways == Spec => []WorkIsUnsettled
<1>1. IInv => WorkIsUnsettled
  BY DEF IInv, Works, Sane, WorkIsUnsettled
<1> QED
  BY <1>1, IInvAlways, PTL

\* What is marked settled has a payment on its way to the chain
\* (SettlementService.ts:91-135).
THEOREM SettledWasPaidAlways == Spec => []SettledWasPaid
<1>1. IInv => SettledWasPaid
  BY DEF IInv
<1> QED
  BY <1>1, IInvAlways, PTL

\* An attempt pays once, whatever is lost, late or dropped: a second payment of a debit
\* takes an attempt that threw after its POST (SettlementService.ts:66-135).
THEOREM OnePaymentAlways == Spec => []OnePaymentPerAttempt
<1>1. ASSUME IInv PROVE OnePaymentPerAttempt
  <2> SUFFICES ASSUME NEW d \in Debit
               PROVE  Cardinality(PaymentsFor(d)) + orphans[d] <= 1 + failures[d]
    BY DEF OnePaymentPerAttempt
  <2>1. Count(d \in settled) + Count(Open(d)) <= 1
    <3>1. ~(d \in settled /\ Open(d))
      BY <1>1 DEF IInv, Works, Sane, Open, Current
    <3> QED
      BY <3>1 DEF Count
  <2>2. /\ Cardinality(PaymentsFor(d)) \in Nat
        /\ orphans[d] \in Nat /\ failures[d] \in Nat
    BY <1>1, PaymentsFinite DEF IInv, TypeOK
  <2>3. Count(d \in settled) \in Nat /\ Count(Open(d)) \in Nat
    BY DEF Count
  <2>4. Cardinality(PaymentsFor(d)) + orphans[d]
            <= failures[d] + Count(d \in settled) + Count(Open(d))
    BY <1>1 DEF IInv, Counted
  <2> QED
    BY <2>1, <2>2, <2>3, <2>4
<1> QED
  BY <1>1, IInvAlways, PTL

(* The settlement as a payout *)

\* What is attempted, and what may still be paid for an attempt given up, is owed.
Owed ==
    /\ \A w \in Worker : worker[w].stage # "idle" => Current(w) \in ToSet(entries)
    /\ \A d \in Debit : orphans[d] > 0 => d \in ToSet(entries)

\* A job that was just begun is for one of the entries.
LEMMA BegunIsOwed ==
    ASSUME TypeOK, Owed, NEW w \in Worker, NEW S \in SUBSET ToSet(entries), S # {},
           worker' = [worker EXCEPT ![w] = Job(S)]
    PROVE  \A v \in Worker : worker'[v].stage # "idle" => Current(v)' \in ToSet(entries)
<1>1. Job(S).entry \in S
  BY JobType DEF TypeOK
<1>2. worker'[w] = Job(S) /\ \A v \in Worker \ {w} : worker'[v] = worker[v]
  BY DEF TypeOK
<1> QED
  BY <1>1, <1>2 DEF Owed, Current

LEMMA ProcessOwes ==
    ASSUME IInv, Owed, ProcessSettlement
    PROVE  \A v \in Worker : worker'[v].stage # "idle" => Current(v)' \in ToSet(entries)
<1>1. CASE Busy \/ Batch = {} \/ Free = {}
  BY <1>1 DEF ProcessSettlement, workVars, Owed, Current
<1>2. CASE ~(Busy \/ Batch = {} \/ Free = {})
  <2> DEFINE w == CHOOSE v \in Free : TRUE
  <2>1. worker' = [worker EXCEPT ![w] = Job(Batch)]
    BY <1>2 DEF ProcessSettlement
  <2>2. w \in Worker
    BY <1>2 DEF Free
  <2> HIDE DEF w
  <2>3. Batch \in SUBSET ToSet(entries) /\ Batch # {}
    BY <1>2 DEF Batch
  <2> QED
    BY <2>1, <2>2, <2>3, BegunIsOwed DEF IInv
<1> QED
  BY <1>1, <1>2

LEMMA AdvanceOwes ==
    ASSUME IInv, Owed, NEW w \in Worker, worker[w].stage # "idle", Advance(w)
    PROVE  \A v \in Worker : worker'[v].stage # "idle" => Current(v)' \in ToSet(entries)
<1>1. CASE worker[w].rest = {}
  <2>1. worker' = [worker EXCEPT ![w] = Idle]
    BY <1>1 DEF Advance, Finish
  <2>2. worker'[w].stage = "idle" /\ \A v \in Worker \ {w} : worker'[v] = worker[v]
    BY <2>1 DEF IInv, TypeOK, Idle
  <2> QED
    BY <2>2 DEF Owed, Current
<1>2. CASE worker[w].rest # {}
  <2>1. worker' = [worker EXCEPT ![w] = Job(worker[w].rest)]
    BY <1>2 DEF Advance
  <2>2. worker[w].rest \subseteq ToSet(entries)
    BY DEF IInv, Works, Sane
  <2> QED
    BY <1>2, <2>1, <2>2, BegunIsOwed DEF IInv
<1> QED
  BY <1>1, <1>2

\* A worker that goes on with its entry.
LEMMA SameEntry ==
    ASSUME IInv, NEW w \in Worker,
           PostReturns(w) \/ PollPending(w) \/ BackendPays(w) \/ BackendRefuses(w)
              \/ BackendFails(w)
    PROVE  \A v \in Worker : /\ Current(v)' = Current(v)
                             /\ worker'[v].stage = "idle" <=> worker[v].stage = "idle"
<1>1. worker[w] \in Jobs /\ worker[w].stage # "idle"
  BY Waiting DEF IInv, PostReturns, PollPending, BackendPays, BackendRefuses, BackendFails
<1>2. /\ \A v \in Worker \ {w} : worker'[v] = worker[v]
      /\ worker'[w].entry = worker[w].entry /\ worker'[w].stage # "idle"
  BY <1>1 DEF IInv, TypeOK, Jobs, PostReturns, PollPending, BackendPays, BackendRefuses,
     BackendFails
<1> QED
  BY <1>1, <1>2 DEF Current

\* What ends an attempt, and what has it posted no more.
LEMMA EndsOf ==
    ASSUME IInv, Owed, NEW w \in Worker,
           \/ PostRefused(w) \/ PostTimesOut(w)
           \/ PollSettles(w) \/ PollNotFound(w) \/ PollFails(w)
    PROVE  /\ worker[w].stage # "idle" /\ Advance(w) /\ UNCHANGED <<entries, chain>>
           /\ Current(w) \in Debit /\ Current(w) \in ToSet(entries) \ settled
<1>1. /\ Advance(w) /\ UNCHANGED <<entries, chain>>
      /\ request[w].state # "none" \/ worker[w].stage = "polling"
  BY DEF PostRefused, PostTimesOut, PollSettles, PollNotFound, PollFails, ledgerVars, netVars
<1>2. worker[w].stage # "idle" /\ Current(w) \in Debit
  BY <1>1, Waiting DEF IInv
<1> QED
  BY <1>1, <1>2 DEF IInv, Works, Sane, Current, Owed

LEMMA OwedNext == IInv /\ Owed /\ [Next]_vars => Owed'
<1> SUFFICES ASSUME IInv, Owed, [Next]_vars PROVE Owed'
  OBVIOUS
<1>0. orphans \in [Debit -> Nat]
  BY DEF IInv, TypeOK
<1>a. ASSUME UNCHANGED <<entries, worker, orphans>> PROVE Owed'
  BY <1>a DEF Owed, Current
<1>b. ASSUME UNCHANGED <<entries, orphans>>,
             \A v \in Worker : worker'[v].stage # "idle" => Current(v)' \in ToSet(entries)
      PROVE  Owed'
  BY <1>b DEF Owed
<1>1. ASSUME NEW w \in Worker,
             PostReturns(w) \/ PollPending(w) \/ BackendPays(w) \/ BackendRefuses(w)
                \/ BackendFails(w)
      PROVE  Owed'
  <2>1. UNCHANGED <<entries, orphans>>
    BY <1>1 DEF PostReturns, PollPending, BackendPays, BackendRefuses, BackendFails,
       ledgerVars, netVars
  <2>2. \A v \in Worker : worker'[v].stage # "idle" => Current(v)' \in ToSet(entries)
    BY <1>1, SameEntry DEF Owed
  <2> QED
    BY <1>b, <2>1, <2>2
<1>2. ASSUME NEW w \in Worker,
             \/ PostRefused(w) \/ PostTimesOut(w)
             \/ PollSettles(w) \/ PollNotFound(w) \/ PollFails(w)
      PROVE  Owed'
  <2>1. /\ worker[w].stage # "idle" /\ Advance(w) /\ entries' = entries
        /\ Current(w) \in Debit /\ Current(w) \in ToSet(entries)
    BY <1>2, EndsOf
  <2>2. \A v \in Worker : worker'[v].stage # "idle" => Current(v)' \in ToSet(entries)
    BY <2>1, AdvanceOwes
  <2>3. orphans' = orphans \/ orphans' = [orphans EXCEPT ![Current(w)] = @ + 1]
    BY <1>2 DEF PostRefused, PostTimesOut, PollSettles, PollNotFound, PollFails, netVars
  <2>4. \A d \in Debit : orphans'[d] > 0 => d \in ToSet(entries)
    BY <1>0, <2>1, <2>3 DEF Owed
  <2> QED
    BY <2>1, <2>2, <2>4 DEF Owed
<1>3. ASSUME ProcessSettlement, UNCHANGED <<entries, orphans>> PROVE Owed'
  BY <1>b, <1>3, ProcessOwes
<1>4. ASSUME NEW d \in Debit, NewDebit(d) PROVE Owed'
  <2>1. ToSet(entries) \subseteq ToSet(entries') /\ UNCHANGED <<worker, orphans>>
    BY <1>4, DebitAdded DEF NewDebit, workVars, netVars, IInv, TypeOK
  <2> QED
    BY <2>1 DEF Owed, Current
<1>5. ASSUME NEW d \in Debit, OrphanPays(d) PROVE Owed'
  <2>1. /\ orphans' = [orphans EXCEPT ![d] = @ - 1] /\ orphans[d] > 0
        /\ UNCHANGED <<entries, worker>>
    BY <1>5 DEF OrphanPays, workVars, ledgerVars
  <2>2. \A e \in Debit : orphans'[e] > 0 => e \in ToSet(entries)
    BY <1>0, <2>1 DEF Owed
  <2> QED
    BY <2>1, <2>2 DEF Owed, Current
<1>6. ASSUME NEW h \in DOMAIN chain, Confirm(h) \/ DropPayment(h) PROVE Owed'
  BY <1>a, <1>6 DEF Confirm, DropPayment, ledgerVars, workVars
<1>7. ASSUME IntervalFires PROVE Owed'
  BY <1>3, <1>7 DEF IntervalFires, ledgerVars, netVars
<1>8. ASSUME StartMonitoring \/ StopMonitoring PROVE Owed'
  BY <1>a, <1>8 DEF StartMonitoring, StopMonitoring, ledgerVars, workVars, netVars
<1>9. ASSUME NEW by, StartCheck(by) \/ CheckOnline(by) \/ CheckOffline(by) PROVE Owed'
  BY <1>a, <1>3, <1>9 DEF StartCheck, CheckOnline, CheckOffline, ledgerVars, workVars, netVars
<1>10. CASE UNCHANGED vars
  BY <1>a, <1>10 DEF vars, ledgerVars, workVars, netVars
<1> QED
  BY <1>1, <1>2, <1>4, <1>5, <1>6, <1>7, <1>8, <1>9, <1>10 DEF Next, Work

\* One more payment of a debit, and of no other.
LEMMA PaysOne ==
    ASSUME IInv, NEW d \in Debit, d \in ToSet(entries), chain' = PaymentOf(d),
           Cardinality(PaymentsFor(d)) <= failures[d],
           UNCHANGED <<entries, settled, failures>>
    PROVE  P!Pay(d)
<1> DEFINE paid == [e \in Debit |-> Cardinality(PaymentsFor(e))]
<1>1. /\ Cardinality(PaymentsFor(d)') = Cardinality(PaymentsFor(d)) + 1
      /\ \A e \in Debit \ {d} : PaymentsFor(e)' = PaymentsFor(e)
  BY PaymentAdded DEF IInv
<1>2. [e \in Debit |-> Cardinality(PaymentsFor(e)')] = [paid EXCEPT ![d] = @ + 1]
  <2>1. ASSUME NEW e \in Debit \ {d}
        PROVE  Cardinality(PaymentsFor(e)') = Cardinality(PaymentsFor(e))
    BY <1>1
  <2> HIDE DEF PaymentsFor
  <2> QED
    BY <1>1, <2>1
<1>3. paid[d] = Cardinality(PaymentsFor(d))
  OBVIOUS
<1> QED
  BY <1>2, <1>3 DEF P!Pay

LEMMA StepKeepsPayout == IInv /\ Owed /\ [Next]_vars => [P!Next]_P!vars
<1> SUFFICES ASSUME IInv, Owed, [Next]_vars PROVE P!Next \/ UNCHANGED P!vars
  OBVIOUS
<1>0. TypeOK /\ Works /\ Counted
  BY DEF IInv
<1> DEFINE paid == [d \in Debit |-> Cardinality(PaymentsFor(d))]
<1>a. ASSUME UNCHANGED chain PROVE paid' = paid
  BY <1>a DEF PaymentsFor
<1>b. ASSUME UNCHANGED <<ledgerVars, chain, failures>> PROVE UNCHANGED P!vars
  BY <1>a, <1>b DEF P!vars, ledgerVars
<1>c. ASSUME NEW d \in Debit
      PROVE  /\ Cardinality(PaymentsFor(d)) \in Nat /\ orphans[d] \in Nat /\ failures[d] \in Nat
             /\ Count(d \in settled) \in 0 .. 1 /\ Count(Open(d)) \in 0 .. 1
             /\ Cardinality(PaymentsFor(d)) + orphans[d]
                    <= failures[d] + Count(d \in settled) + Count(Open(d))
  BY <1>0, PaymentsFinite DEF TypeOK, Counted, Count
<1> HIDE DEF paid
<1>1. ASSUME NEW w \in Worker,
             PostReturns(w) \/ PostRefused(w) \/ PollPending(w) \/ BackendRefuses(w)
                \/ BackendFails(w)
      PROVE  UNCHANGED P!vars
  BY <1>b, <1>1 DEF PostReturns, PostRefused, PollPending, BackendRefuses, BackendFails, netVars
<1>2. ASSUME NEW w \in Worker, PostTimesOut(w) \/ PollNotFound(w) \/ PollFails(w)
      PROVE  P!Next
  <2>1. Current(w) \in Debit /\ Current(w) \in ToSet(entries) \ settled
    BY <1>2, EndsOf
  <2>2. /\ failures' = [failures EXCEPT ![Current(w)] = @ + 1]
        /\ UNCHANGED <<entries, settled, chain>>
    BY <1>2 DEF PostTimesOut, PollNotFound, PollFails, ledgerVars, netVars
  <2>3. P!Lose(Current(w))
    BY <1>a, <2>1, <2>2 DEF P!Lose, paid
  <2> QED
    BY <2>1, <2>3 DEF P!Next
<1>3. ASSUME NEW w \in Worker, PollSettles(w) PROVE P!Next
  <2>1. Current(w) \in Debit /\ Current(w) \in ToSet(entries) \ settled
    BY <1>3, EndsOf
  <2>2. /\ settled' = settled \cup {Current(w)} /\ worker[w].stage = "polling"
        /\ UNCHANGED <<entries, chain, failures>>
    BY <1>3 DEF PollSettles, netVars
  <2>3. PaymentsFor(Current(w)) # {}
    BY <1>0, <2>2 DEF Works, Sane
  <2>4. Cardinality(PaymentsFor(Current(w))) > 0
    BY <1>0, <1>c, <2>1, <2>3, PaymentsFinite, FS_EmptySet
  <2>5. paid[Current(w)] > 0
    BY <2>1, <2>4 DEF paid
  <2>6. P!Settle(Current(w))
    BY <1>a, <2>1, <2>2, <2>5 DEF P!Settle, paid
  <2> QED
    BY <2>1, <2>6 DEF P!Next
<1>4. ASSUME NEW w \in Worker, BackendPays(w) PROVE P!Next
  <2>1. /\ request[w].state = "sent" /\ chain' = PaymentOf(Current(w))
        /\ UNCHANGED <<entries, settled, failures>>
    BY <1>4 DEF BackendPays, ledgerVars
  <2>2. worker[w].stage # "idle" /\ Current(w) \in Debit
    BY <1>0, <2>1, Waiting
  <2>3. ~Open(Current(w)) /\ Current(w) \notin settled
    BY <1>0, <2>1, <2>2 DEF Open, Works, Sane, Current
  <2>4. Cardinality(PaymentsFor(Current(w))) <= failures[Current(w)]
    BY <1>c, <2>2, <2>3 DEF Count
  <2>5. P!Pay(Current(w))
    BY <2>1, <2>2, <2>4, PaysOne DEF Owed
  <2> QED
    BY <2>2, <2>5 DEF P!Next
<1>5. ASSUME NEW d \in Debit, OrphanPays(d) PROVE P!Next
  <2>1. /\ orphans[d] > 0 /\ chain' = PaymentOf(d)
        /\ UNCHANGED <<entries, settled, failures>>
    BY <1>5 DEF OrphanPays, ledgerVars
  <2>2. ~(d \in settled /\ Open(d))
    BY <1>0 DEF Works, Sane, Open, Current
  <2>3. Cardinality(PaymentsFor(d)) <= failures[d]
    <3>1. Count(d \in settled) + Count(Open(d)) <= 1
      BY <2>2 DEF Count
    <3> QED
      BY <1>c, <2>1, <3>1
  <2>4. P!Pay(d)
    BY <2>1, <2>3, PaysOne DEF Owed
  <2> QED
    BY <2>4 DEF P!Next
<1>6. ASSUME NEW d \in Debit, NewDebit(d) PROVE P!Next
  <2>1. /\ d \notin ToSet(entries) /\ ToSet(entries') = ToSet(entries) \cup {d}
        /\ UNCHANGED <<settled, chain, failures>>
    BY <1>0, <1>6, DebitAdded DEF NewDebit, netVars, TypeOK
  <2>2. P!Owe(d)
    BY <1>a, <2>1 DEF P!Owe, paid
  <2> QED
    BY <2>2 DEF P!Next
<1>7. ASSUME NEW h \in DOMAIN chain, Confirm(h) \/ DropPayment(h) PROVE UNCHANGED P!vars
  <2>1. /\ UNCHANGED <<entries, settled, failures>>
        /\ \/ chain' = [chain EXCEPT ![h].state = "confirmed"]
           \/ chain' = [chain EXCEPT ![h].state = "dropped"]
    BY <1>7 DEF Confirm, DropPayment, ledgerVars
  <2>2. \A d : PaymentsFor(d)' = PaymentsFor(d)
    BY <1>0, <2>1, PaymentMarked
  <2>3. paid' = paid
    BY <2>2 DEF paid
  <2> QED
    BY <2>1, <2>3 DEF P!vars, paid
<1>8. ASSUME \/ IntervalFires \/ StartMonitoring \/ StopMonitoring \/ UNCHANGED vars
             \/ \E by \in {"timer", "manual"} :
                   StartCheck(by) \/ CheckOnline(by) \/ CheckOffline(by)
      PROVE  UNCHANGED P!vars
  BY <1>b, <1>8 DEF IntervalFires, StartMonitoring, StopMonitoring, StartCheck, CheckOnline,
     CheckOffline, netVars, vars
<1> QED
  BY <1>1, <1>2, <1>3, <1>4, <1>5, <1>6, <1>7, <1>8 DEF Next, Work

\* The settlement implements the payout: for any debits, batch size, polls and faults, and
\* however the interval, the monitor, manual triggers, lost answers and dropped payments
\* overlap, what is owed is paid once and once more for each attempt that was lost before,
\* and is marked once, after it was paid (SettlementService.ts:66-135).
THEOREM PayoutIsKept == Spec => KeepsPayout
<1>1. Init => Owed /\ P!Init
  <2> SUFFICES ASSUME Init PROVE Owed /\ P!Init
    OBVIOUS
  <2>1. Owed
    BY DEF Init, Owed, Idle
  <2>2. ToSet(entries) = {}
    BY DEF Init, ToSet
  <2>3. \A d \in Debit : Cardinality(PaymentsFor(d)) = 0
    BY FS_EmptySet DEF Init, PaymentsFor
  <2> QED
    BY <2>1, <2>2, <2>3 DEF Init, P!Init
<1> QED
  BY <1>1, OwedNext, StepKeepsPayout, IInvAlways, PTL DEF Spec, KeepsPayout, P!Spec
=============================================================================
