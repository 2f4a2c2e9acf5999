---------------------------- MODULE Runner_proofs ----------------------------
(***************************************************************************)
(* Proofs about Runner, for any number of targets, workers, interrupts and *)
(* deaths, and whatever pickling does to records: both runners list every  *)
(* target at most once, the pool loses track of none, and both implement   *)
(* ScanReport.                                                             *)
(***************************************************************************)
EXTENDS Runner, Integers, FiniteSetTheorems, SequenceTheorems, TLAPS

-----------------------------------------------------------------------------
(* The sequential runner.                                                   *)

\* The targets with an entry
Listed == {queries[i].job : i \in DOMAIN queries}

\* The place of a turn: what is listed and dropped are the targets before it, and
\* its own once its entry is appended
SerialInv ==
  /\ Serial!TypeOK
  /\ \A i, k \in DOMAIN queries : i < k => queries[i].job < queries[k].job
  /\ at = "scan" => job \in Serial!Job
  /\ \A j \in Listed \cup dropped : j <= job /\ (at = "scan" => j # job)
  /\ at = "save" => job \in Listed
  /\ \A j \in 1..job : j \in Listed \cup dropped \/ (at = "scan" /\ j = job)
  /\ Listed \cap dropped = {}
  /\ at = "returned" => job = NumTargets

-----------------------------------------------------------------------------
(* The pool.  Queues matter as sets of records, except for the order of two *)
(* records of one target: r may come ahead of x.                            *)

RecordsOf(s) == {s[i] : i \in DOMAIN s}
Before(r, x) == r.job = x.job => r.outcome # "interrupt" /\ x.outcome = "interrupt"
Precedes(S, T) == \A r \in S, x \in T : Before(r, x)
Ordered(s) == \A i, k \in DOMAIN s : i < k => Before(s[i], s[k])

\* All records there are
Records == RecordsOf(queries) \cup RecordsOf(queue_out) \cup UNION {RecordsOf(outbox[w]) : w \in Worker}

\* On its way a record passes a buffer, the pipe and the list, and in each direction
\* of that the records of one target are in order; two buffers share no target
OrderInv ==
  /\ Ordered(queries) /\ Ordered(queue_out) /\ \A w \in Worker : Ordered(outbox[w])
  /\ Precedes(RecordsOf(queries), RecordsOf(queue_out))
  /\ \A w \in Worker : Precedes(RecordsOf(queries) \cup RecordsOf(queue_out), RecordsOf(outbox[w]))
  /\ \A w, v \in Worker : w # v =>
       \A r \in RecordsOf(outbox[w]), x \in RecordsOf(outbox[v]) : r.job # x.job

\* A worker and its last target: nobody else has had it, it has no record while it is
\* scanned, and none of an interrupt while its worker goes on
OwnerInv ==
  /\ \A r \in Records : r.job <= taken
  /\ \A w \in Worker :
       /\ worker[w].target <= taken
       /\ worker[w].at = "dead" => worker[w].target = Pool!NoJob /\ outbox[w] = <<>>
       /\ worker[w].at = "scan" => worker[w].target # Pool!NoJob
       /\ worker[w].target # Pool!NoJob =>
            /\ \A v \in Worker \ {w} : /\ worker[v].target # worker[w].target
                                       /\ \A r \in RecordsOf(outbox[v]) : r.job # worker[w].target
            /\ \A r \in Records : r.job = worker[w].target =>
                 worker[w].at # "scan" /\ (worker[w].at = "get" => r.outcome # "interrupt")

\* Where a target that has been taken may be
Scanning(j) == \E w \in Worker : worker[w].at = "scan" /\ worker[w].target = j
HasRecord(j) == \E r \in Records : r.job = j

CoverInv == parent # "failed" => \A j \in 1..taken : Scanning(j) \/ HasRecord(j) \/ j \in lost

\* Before Ctrl+C there is no trace of one, and what is lost is nowhere else
CalmInv ==
  interrupts = 0 =>
    /\ signalled = {}
    /\ \A w \in Worker : worker[w].at # "left"
    /\ \A r \in Records : r.outcome # "interrupt"
    /\ \A j \in lost : ~Scanning(j) /\ ~HasRecord(j) /\ j <= taken

PoolInv == Pool!TypeOK /\ OrderInv /\ OwnerInv /\ CoverInv /\ CalmInv

RunnerInv ==
  /\ mode \in Modes
  /\ IF mode = "sequential" THEN SerialInv ELSE PoolInv

-----------------------------------------------------------------------------
(* Sequences of entries and of records.                                     *)

\* What is appended comes last
LEMMA AppendElements ==
  ASSUME NEW S, NEW s \in Seq(S), NEW e \in S
  PROVE  /\ Append(s, e) \in Seq(S)
         /\ DOMAIN Append(s, e) = DOMAIN s \cup {Len(s) + 1}
         /\ \A i \in DOMAIN s : i < Len(s) + 1 /\ Append(s, e)[i] = s[i]
         /\ Append(s, e)[Len(s) + 1] = e
  OBVIOUS

LEMMA Element ==
  ASSUME NEW S, NEW s \in Seq(S), NEW i \in DOMAIN s
  PROVE  s[i] \in S
  OBVIOUS

-----------------------------------------------------------------------------
(* run_seq.                                                                 *)

LEMMA ListedJobs == Serial!TypeOK => Listed \subseteq Serial!Job
<1> DEFINE E == [job : Serial!Job, outcome : Serial!Outcome]
<1> SUFFICES ASSUME queries \in Seq(E) PROVE Listed \subseteq Serial!Job
  BY DEF Serial!TypeOK
<1>1. \A i \in DOMAIN queries : queries[i] \in E
  BY Element
<1> QED
  BY <1>1 DEF Listed

LEMMA SerialInit == Serial!Init => SerialInv
  BY RunnerAssumption DEF Serial!Init, SerialInv, Serial!TypeOK, Listed

LEMMA ScannedSerially ==
  ASSUME SerialInv, Serial!Scanned PROVE SerialInv'
<1>1. PICK o \in Serial!Outcome : queries' = Append(queries, [job |-> job, outcome |-> o])
  BY DEF Serial!Scanned
<1> DEFINE E == [job : Serial!Job, outcome : Serial!Outcome]
           e == [job |-> job, outcome |-> o]
<1>2. job \in Serial!Job /\ queries \in Seq(E) /\ e \in E
  BY DEF Serial!Scanned, SerialInv, Serial!TypeOK
<1>3. /\ queries' \in Seq(E) /\ DOMAIN queries' = DOMAIN queries \cup {Len(queries) + 1}
      /\ \A i \in DOMAIN queries : i < Len(queries) + 1 /\ queries'[i] = queries[i]
      /\ queries'[Len(queries) + 1] = e
  BY <1>1, <1>2, AppendElements
<1>4. Listed' = Listed \cup {job}
  BY <1>3 DEF Listed
<1>5. \A i \in DOMAIN queries : queries[i].job < job
  <2>1. \A i \in DOMAIN queries : queries[i].job \in Listed /\ queries[i] \in E
    BY <1>2, Element DEF Listed
  <2> QED
    BY <2>1, <1>2 DEF SerialInv, Serial!Scanned, Serial!Job
<1>6. \A i, k \in DOMAIN queries' : i < k => queries'[i].job < queries'[k].job
  <2> SUFFICES ASSUME NEW i \in DOMAIN queries', NEW k \in DOMAIN queries', i < k
               PROVE  queries'[i].job < queries'[k].job
    OBVIOUS
  <2>1. i \in DOMAIN queries
    BY <1>2, <1>3
  <2>2. CASE k \in DOMAIN queries
    BY <2>1, <2>2, <1>3 DEF SerialInv
  <2>3. CASE k = Len(queries) + 1
    BY <2>1, <2>3, <1>3, <1>5
  <2> QED
    BY <2>2, <2>3, <1>3
<1>7. Listed \subseteq Serial!Job
  BY ListedJobs DEF SerialInv
<1>8. /\ at = "scan" /\ at' = "save" /\ UNCHANGED <<job, dropped>>
      /\ Serial!TypeOK /\ job \in 1..NumTargets
  BY <1>2 DEF SerialInv, Serial!Scanned, Serial!Job
<1>9. Serial!TypeOK'
  BY <1>3, <1>8 DEF Serial!TypeOK
<1>10. /\ \A j \in Listed' \cup dropped : j <= job
       /\ \A j \in 1..job : j \in Listed' \cup dropped
       /\ Listed' \cap dropped = {}
  BY <1>4, <1>8 DEF SerialInv
<1> QED
  BY <1>4, <1>6, <1>8, <1>9, <1>10 DEF SerialInv

LEMMA SerialStep ==
  ASSUME SerialInv, Serial!Next PROVE SerialInv'
<1>1. Listed \subseteq Serial!Job
  BY ListedJobs DEF SerialInv
<1>2. CASE Serial!Scanned
  BY <1>2, ScannedSerially
<1>3. CASE UNCHANGED queries
  <2>1. UNCHANGED Listed
    BY <1>3 DEF Listed
  <2>2. CASE Serial!NextTarget
    BY <2>1, <2>2, <1>1, RunnerAssumption DEF SerialInv, Serial!NextTarget, Serial!TypeOK, Serial!Job
  <2>3. CASE Serial!Saved
    BY <2>1, <2>3, <1>1 DEF SerialInv, Serial!Saved, Serial!TypeOK, Serial!Job
  <2>4. CASE Serial!CutShort
    BY <2>1, <2>4, <1>1 DEF SerialInv, Serial!CutShort, Serial!TypeOK, Serial!Job
  <2>5. CASE Serial!InterruptedOutside
    BY <2>1, <2>5, <1>1 DEF SerialInv, Serial!InterruptedOutside, Serial!TypeOK, Serial!Job
  <2> QED
    BY <1>2, <2>2, <2>3, <2>4, <2>5 DEF Serial!Next
<1> QED
  BY <1>2, <1>3 DEF Serial!Next, Serial!NextTarget, Serial!Saved, Serial!CutShort, Serial!InterruptedOutside

LEMMA SerialImplies == SerialInv => Serial!TypeOK /\ Serial!InOrderAndAccounted
<1> SUFFICES ASSUME SerialInv PROVE Serial!TypeOK /\ Serial!InOrderAndAccounted
  OBVIOUS
<1>1. Listed \subseteq Serial!Job
  BY ListedJobs DEF SerialInv
<1>2. \A j : j \in Listed <=> \E i \in DOMAIN queries : queries[i].job = j
  BY DEF Listed
<1> QED
  BY <1>1, <1>2 DEF SerialInv, Serial!InOrderAndAccounted

-----------------------------------------------------------------------------
(* Queues as sets of records, and their order.                              *)

LEMMA RecordsAppended ==
  ASSUME NEW S, NEW s \in Seq(S), NEW e \in S
  PROVE  RecordsOf(Append(s, e)) = RecordsOf(s) \cup {e}
<1> DEFINE t == Append(s, e)
<1>1. /\ DOMAIN t = DOMAIN s \cup {Len(s) + 1} /\ \A i \in DOMAIN s : t[i] = s[i]
      /\ t[Len(s) + 1] = e
  BY AppendElements
<1> HIDE DEF t
<1> QED
  BY <1>1 DEF RecordsOf

LEMMA HeadAndTail ==
  ASSUME NEW S, NEW s \in Seq(S), s # <<>>
  PROVE  /\ Tail(s) \in Seq(S) /\ Head(s) \in S
         /\ 1 \in DOMAIN s /\ s[1] = Head(s)
         /\ \A i \in DOMAIN Tail(s) : i + 1 \in DOMAIN s /\ s[i + 1] = Tail(s)[i] /\ i \in Nat \ {0}
         /\ \A i \in DOMAIN s : i = 1 \/ (i - 1 \in DOMAIN Tail(s) /\ Tail(s)[i - 1] = s[i])
  OBVIOUS

LEMMA RecordsTaken ==
  ASSUME NEW S, NEW s \in Seq(S), s # <<>>
  PROVE  RecordsOf(s) = {Head(s)} \cup RecordsOf(Tail(s))
<1> DEFINE h == Head(s)  t == Tail(s)
<1>1. /\ 1 \in DOMAIN s /\ s[1] = h
      /\ \A i \in DOMAIN t : i + 1 \in DOMAIN s /\ s[i + 1] = t[i]
      /\ \A i \in DOMAIN s : i = 1 \/ (i - 1 \in DOMAIN t /\ t[i - 1] = s[i])
  BY HeadAndTail
<1> HIDE DEF h, t
<1>2. RecordsOf(s) = {h} \cup RecordsOf(t)
  <2>1. RecordsOf(s) \subseteq {h} \cup RecordsOf(t)
    BY <1>1 DEF RecordsOf
  <2>2. {h} \cup RecordsOf(t) \subseteq RecordsOf(s)
    BY <1>1 DEF RecordsOf
  <2> QED
    BY <2>1, <2>2
<1> QED
  BY <1>2 DEF h, t

LEMMA NoRecords == RecordsOf(<<>>) = {} /\ Ordered(<<>>)
  BY DEF RecordsOf, Ordered

LEMMA OrderedAppended ==
  ASSUME NEW S, NEW s \in Seq(S), NEW e \in S, Ordered(s), Precedes(RecordsOf(s), {e})
  PROVE  Ordered(Append(s, e))
<1> DEFINE t == Append(s, e)
<1>1. /\ DOMAIN t = DOMAIN s \cup {Len(s) + 1} /\ \A i \in DOMAIN s : t[i] = s[i] /\ i < Len(s) + 1
      /\ t[Len(s) + 1] = e
  BY AppendElements
<1>2. \A i \in DOMAIN s : Before(s[i], e)
  BY DEF Precedes, RecordsOf
<1>3. ASSUME NEW i \in DOMAIN t, NEW k \in DOMAIN t, i < k
      PROVE  Before(t[i], t[k])
  <2>1. i \in DOMAIN s
    <3>1. \A n \in DOMAIN s : n \in 1..Len(s)
      OBVIOUS
    <3> HIDE DEF t
    <3> QED
      BY <1>1, <1>3, <3>1
  <2> HIDE DEF t
  <2>2. CASE k \in DOMAIN s
    BY <2>1, <2>2, <1>1, <1>3 DEF Ordered
  <2>3. CASE k = Len(s) + 1
    BY <2>1, <2>3, <1>1, <1>2
  <2> QED
    BY <2>2, <2>3, <1>1
<1> QED
  BY <1>3 DEF Ordered

LEMMA OrderedTaken ==
  ASSUME NEW S, NEW s \in Seq(S), s # <<>>, Ordered(s)
  PROVE  Ordered(Tail(s)) /\ Precedes({Head(s)}, RecordsOf(Tail(s)))
<1> DEFINE h == Head(s)  t == Tail(s)
<1>1. /\ 1 \in DOMAIN s /\ s[1] = h
      /\ \A i \in DOMAIN t : i + 1 \in DOMAIN s /\ s[i + 1] = t[i] /\ i \in Nat \ {0}
  BY HeadAndTail
<1> HIDE DEF h, t
<1>2. Ordered(t)
  BY <1>1 DEF Ordered
<1>3. Precedes({h}, RecordsOf(t))
  <2>1. \A i \in DOMAIN t : Before(h, t[i])
    BY <1>1 DEF Ordered
  <2> QED
    BY <2>1 DEF Precedes, RecordsOf
<1> QED
  BY <1>2, <1>3 DEF h, t

-----------------------------------------------------------------------------
(* run_parra.                                                               *)

LEMMA PoolInit == Pool!Init => PoolInv
<1> SUFFICES ASSUME Pool!Init PROVE PoolInv
  OBVIOUS
<1>1. Pool!TypeOK
  BY RunnerAssumption DEF Pool!Init, Pool!TypeOK, Pool!WorkerState
<1>2. \A w \in Worker : RecordsOf(outbox[w]) = {} /\ Ordered(outbox[w])
  BY NoRecords DEF Pool!Init
<1>3. /\ RecordsOf(queries) = {} /\ RecordsOf(queue_out) = {}
      /\ Ordered(queries) /\ Ordered(queue_out)
  BY NoRecords DEF Pool!Init
<1>4. Records = {}
  BY <1>2, <1>3 DEF Records
<1>5. OrderInv
  BY <1>2, <1>3 DEF OrderInv, Precedes
<1>6. OwnerInv /\ CoverInv /\ CalmInv
  BY <1>4 DEF Pool!Init, OwnerInv, CoverInv, CalmInv, Pool!NoJob
<1> QED
  BY <1>1, <1>5, <1>6 DEF PoolInv

\* A record is that of the list, of the pipe or of a buffer
LEMMA InRecords ==
  \A r : r \in Records <=> \/ r \in RecordsOf(queries)
                           \/ r \in RecordsOf(queue_out)
                           \/ \E w \in Worker : r \in RecordsOf(outbox[w])
  BY DEF Records

\* Records are of targets that have been taken
LEMMA RecordTypes ==
  ASSUME Pool!TypeOK
  PROVE  /\ Records \subseteq Pool!Record
         /\ \A w \in Worker : outbox[w] \in Seq(Pool!Record) /\ worker[w] \in Pool!WorkerState
         /\ queue_out \in Seq(Pool!Record) /\ queries \in Seq(Pool!Record)
<1>1. /\ \A w \in Worker : outbox[w] \in Seq(Pool!Record) /\ worker[w] \in Pool!WorkerState
      /\ queue_out \in Seq(Pool!Record) /\ queries \in Seq(Pool!Record)
  BY DEF Pool!TypeOK
<1>2. ASSUME NEW s \in Seq(Pool!Record) PROVE RecordsOf(s) \subseteq Pool!Record
  BY Element DEF RecordsOf
<1> QED
  BY <1>1, <1>2, InRecords

LEMMA SameRecords ==
  ASSUME UNCHANGED <<queries, queue_out, outbox>>
  PROVE  Records' = Records /\ (OrderInv => OrderInv')
  BY DEF Records, OrderInv

LEMMA PutInv ==
  ASSUME PoolInv, Pool!Put PROVE PoolInv'
<1>1. UNCHANGED <<queries, queue_out, outbox, taken, worker, lost, interrupts, signalled>>
  BY DEF Pool!Put
<1>2. Records' = Records /\ OrderInv'
  BY <1>1, SameRecords DEF PoolInv
<1>3. Pool!TypeOK'
  BY RunnerAssumption DEF PoolInv, Pool!TypeOK, Pool!Put
<1>4. OwnerInv' /\ CalmInv'
  BY <1>1, <1>2 DEF PoolInv, OwnerInv, CalmInv, Scanning, HasRecord
<1>5. CoverInv'
  BY <1>1, <1>2 DEF PoolInv, CoverInv, Scanning, HasRecord, Pool!Put
<1> QED
  BY <1>2, <1>3, <1>4, <1>5 DEF PoolInv

LEMMA ParentInterruptedInv ==
  ASSUME PoolInv, Pool!ParentInterrupted PROVE PoolInv'
<1>1. UNCHANGED <<queries, queue_out, outbox, taken, worker, lost, interrupts>>
  BY DEF Pool!ParentInterrupted
<1>2. Records' = Records /\ OrderInv'
  BY <1>1, SameRecords DEF PoolInv
<1>3. Pool!TypeOK'
  BY DEF PoolInv, Pool!TypeOK, Pool!ParentInterrupted, Pool!Ended
<1>4. OwnerInv' /\ CalmInv'
  BY <1>1, <1>2 DEF PoolInv, OwnerInv, CalmInv, Scanning, HasRecord, Pool!ParentInterrupted
<1>5. CoverInv'
  BY <1>1, <1>2 DEF PoolInv, CoverInv, Scanning, HasRecord, Pool!ParentInterrupted, Pool!Running, Pool!Ended
<1> QED
  BY <1>2, <1>3, <1>4, <1>5 DEF PoolInv

LEMMA InterruptInv ==
  ASSUME PoolInv, Pool!Interrupt PROVE PoolInv'
<1>1. UNCHANGED <<queries, queue_out, outbox, taken, worker, lost, parent>>
  BY DEF Pool!Interrupt
<1>2. Records' = Records /\ OrderInv'
  BY <1>1, SameRecords DEF PoolInv
<1>3. Pool!TypeOK'
  BY RunnerAssumption DEF PoolInv, Pool!TypeOK, Pool!Interrupt
<1>4. OwnerInv' /\ CoverInv'
  BY <1>1, <1>2 DEF PoolInv, OwnerInv, CoverInv, Scanning, HasRecord
<1>5. CalmInv'
  BY RunnerAssumption DEF PoolInv, Pool!TypeOK, CalmInv, Pool!Interrupt
<1> QED
  BY <1>2, <1>3, <1>4, <1>5 DEF PoolInv

\* A worker takes the next target: nobody has had it
LEMMA TakeInv ==
  ASSUME PoolInv, NEW w \in Worker, Pool!Take(w) PROVE PoolInv'
<1> DEFINE t == taken + 1
<1>1. /\ UNCHANGED <<queries, queue_out, outbox, parent, lost, interrupts, signalled, sent, deaths, abandoned>>
      /\ worker[w].at = "get" /\ taken' = t /\ taken < sent
      /\ worker' = [worker EXCEPT ![w] = [at |-> "scan", target |-> t]]
  BY DEF Pool!Take
<1>2. Records' = Records /\ OrderInv'
  BY <1>1, SameRecords DEF PoolInv
<1>3. /\ worker \in [Worker -> Pool!WorkerState] /\ taken \in Nat /\ sent \in 0..NumTargets
      /\ t \in Pool!Job
  BY <1>1, RunnerAssumption DEF PoolInv, Pool!TypeOK, Pool!Job
<1>4. /\ worker'[w].at = "scan" /\ worker'[w].target = t
      /\ \A v \in Worker \ {w} : worker'[v] = worker[v]
  BY <1>1, <1>3
<1>5. worker' \in [Worker -> Pool!WorkerState]
  BY <1>1, <1>3 DEF Pool!WorkerState
<1>6. Pool!TypeOK'
  BY <1>1, <1>3, <1>5, RunnerAssumption DEF PoolInv, Pool!TypeOK
<1>7. \A r \in Records : r.job <= taken /\ r.job \in Nat
  BY RecordTypes DEF PoolInv, OwnerInv, Pool!Record, Pool!Job
<1>8. \A v \in Worker : worker[v].target \in Nat /\ worker[v].target <= taken
  BY RecordTypes DEF PoolInv, OwnerInv, Pool!WorkerState, Pool!Job, Pool!NoJob
<1>9. t # Pool!NoJob /\ \A v \in Worker : \A r \in RecordsOf(outbox[v]) : r \in Records
  BY <1>3, InRecords DEF Pool!NoJob
<1>10. OwnerInv'
  <2>1. \A r \in Records : r.job <= t /\ r.job # t
    BY <1>7, <1>3
  <2>2. ASSUME NEW v \in Worker PROVE worker[v].target <= t /\ worker[v].target # t
    <3>1. worker[v].target \in Nat /\ worker[v].target <= taken
      BY <1>8
    <3> QED
      BY <3>1, <1>3
  <2>3. UNCHANGED outbox /\ taken' = t
    BY <1>1
  <2> HIDE DEF t
  <2>4. ASSUME NEW v \in Worker
        PROVE  /\ worker'[v].target <= taken'
               /\ worker'[v].at = "dead" => worker'[v].target = Pool!NoJob /\ outbox'[v] = <<>>
               /\ worker'[v].at = "scan" => worker'[v].target # Pool!NoJob
    BY <1>3, <1>4, <1>9, <2>2, <2>3 DEF PoolInv, OwnerInv, t
  <2>5. ASSUME NEW v \in Worker, worker'[v].target # Pool!NoJob
        PROVE  /\ \A u \in Worker \ {v} : /\ worker'[u].target # worker'[v].target
                                          /\ \A r \in RecordsOf(outbox'[u]) : r.job # worker'[v].target
               /\ \A r \in Records' : r.job = worker'[v].target =>
                    worker'[v].at # "scan" /\ (worker'[v].at = "get" => r.outcome # "interrupt")
    <3>1. CASE v = w
      BY <3>1, <1>2, <1>4, <1>9, <2>1, <2>2, <2>3
    <3>2. CASE v # w
      BY <2>5, <3>2, <1>2, <1>4, <2>2, <2>3 DEF PoolInv, OwnerInv
    <3> QED
      BY <3>1, <3>2
  <2> QED
    BY <1>2, <2>1, <2>3, <2>4, <2>5 DEF OwnerInv
<1>11. \A j : Scanning(j)' <=> Scanning(j) \/ j = t
  BY <1>1, <1>4 DEF Scanning
<1>12. \A j : HasRecord(j)' <=> HasRecord(j)
  BY <1>2 DEF HasRecord
<1>13. CoverInv'
  BY <1>1, <1>3, <1>11, <1>12 DEF PoolInv, CoverInv
<1>14. CalmInv'
  <2>1. \A j \in lost : j \in Nat
    BY DEF PoolInv, Pool!TypeOK, Pool!Job
  <2> QED
    BY <1>1, <1>2, <1>3, <1>4, <1>11, <1>12, <2>1 DEF PoolInv, CalmInv
<1> QED
  BY <1>2, <1>6, <1>10, <1>13, <1>14 DEF PoolInv

\* A new process in a dead worker's slot
LEMMA RespawnInv ==
  ASSUME PoolInv, NEW w \in Worker, Pool!Respawn(w) PROVE PoolInv'
<1>1. /\ UNCHANGED <<queries, queue_out, outbox, parent, lost, interrupts, signalled, sent, taken, deaths,
                     abandoned>>
      /\ worker[w].at = "dead"
      /\ worker' = [worker EXCEPT ![w] = [at |-> "get", target |-> Pool!NoJob]]
  BY DEF Pool!Respawn
<1>2. Records' = Records /\ OrderInv'
  BY <1>1, SameRecords DEF PoolInv
<1>3. worker \in [Worker -> Pool!WorkerState]
  BY DEF PoolInv, Pool!TypeOK
<1>4. /\ worker'[w].at = "get" /\ worker'[w].target = Pool!NoJob
      /\ \A v \in Worker \ {w} : worker'[v] = worker[v]
  BY <1>1, <1>3
<1>5. worker' \in [Worker -> Pool!WorkerState]
  BY <1>1, <1>3 DEF Pool!WorkerState
<1>6. Pool!TypeOK'
  BY <1>1, <1>5 DEF PoolInv, Pool!TypeOK
<1>7. \A v \in Worker : worker'[v].target = worker[v].target
  BY <1>1, <1>4 DEF PoolInv, OwnerInv
<1>8. OwnerInv'
  BY <1>1, <1>2, <1>4, <1>7 DEF PoolInv, OwnerInv
<1>9. \A j : (Scanning(j)' <=> Scanning(j)) /\ (HasRecord(j)' <=> HasRecord(j))
  BY <1>1, <1>2, <1>4 DEF Scanning, HasRecord
<1>10. CoverInv' /\ CalmInv'
  BY <1>1, <1>2, <1>4, <1>9 DEF PoolInv, CoverInv, CalmInv
<1> QED
  BY <1>2, <1>6, <1>8, <1>10 DEF PoolInv

\* A worker puts a record of its target: the only one there is, or one of an
\* interrupt after the real one; then it is no longer scanning
LEMMA RecordPut ==
  ASSUME PoolInv, NEW w \in Worker, NEW r \in Pool!Record, NEW place \in {"get", "left"},
         worker[w].target # Pool!NoJob, r.job = worker[w].target,
         \/ worker[w].at = "scan"
         \/ worker[w].at = "get" /\ r.outcome = "interrupt",
         r.outcome = "interrupt" => place = "left",
         r.outcome = "interrupt" \/ place = "left" => interrupts # 0,
         outbox' = [outbox EXCEPT ![w] = Append(@, r)],
         worker' = [worker EXCEPT ![w].at = place],
         UNCHANGED <<queries, queue_out, sent, taken, parent, lost, interrupts, deaths, abandoned>>,
         signalled' \subseteq signalled
  PROVE  PoolInv'
<1>1. /\ outbox \in [Worker -> Seq(Pool!Record)] /\ worker \in [Worker -> Pool!WorkerState]
      /\ queue_out \in Seq(Pool!Record) /\ queries \in Seq(Pool!Record)
  BY DEF PoolInv, Pool!TypeOK
<1>2. /\ outbox' \in [Worker -> Seq(Pool!Record)]
      /\ worker' \in [Worker -> Pool!WorkerState]
  <2>1. outbox[w] \in Seq(Pool!Record) /\ worker[w] \in Pool!WorkerState
    BY <1>1
  <2>2. Append(outbox[w], r) \in Seq(Pool!Record)
    BY <2>1, AppendElements
  <2>3. [worker[w] EXCEPT !.at = place] \in Pool!WorkerState
    BY <2>1 DEF Pool!WorkerState
  <2> QED
    BY <1>1, <2>2, <2>3
<1>3. Pool!TypeOK'
  BY <1>2 DEF PoolInv, Pool!TypeOK
<1>4. /\ outbox'[w] = Append(outbox[w], r) /\ \A v \in Worker \ {w} : outbox'[v] = outbox[v]
      /\ worker'[w].at = place /\ worker'[w].target = worker[w].target
      /\ \A v \in Worker \ {w} : worker'[v] = worker[v]
  BY <1>1 DEF Pool!WorkerState
<1>5. \A x \in Records : x.job = r.job => x.outcome # "interrupt" /\ r.outcome = "interrupt"
  BY DEF PoolInv, OwnerInv
<1>6. \A v \in Worker \ {w} : \A x \in RecordsOf(outbox[v]) : x.job # r.job
  BY DEF PoolInv, OwnerInv
<1>7. RecordsOf(outbox'[w]) = RecordsOf(outbox[w]) \cup {r}
  BY <1>1, <1>4, RecordsAppended
<1>8. Precedes(RecordsOf(queries) \cup RecordsOf(queue_out) \cup RecordsOf(outbox[w]), {r})
  BY <1>5, InRecords DEF Precedes, Before
<1>9. Ordered(outbox'[w])
  <2>1. Ordered(outbox[w]) /\ Precedes(RecordsOf(outbox[w]), {r}) /\ outbox[w] \in Seq(Pool!Record)
    BY <1>1, <1>8 DEF PoolInv, OrderInv, Precedes
  <2> QED
    BY <2>1, <1>4, OrderedAppended
<1>10. OrderInv'
  <2>1. \A v \in Worker : Ordered(outbox'[v])
    BY <1>4, <1>9 DEF PoolInv, OrderInv
  <2>2. \A v \in Worker : Precedes(RecordsOf(queries) \cup RecordsOf(queue_out), RecordsOf(outbox'[v]))
    BY <1>4, <1>7, <1>8 DEF PoolInv, OrderInv, Precedes
  <2>3. ASSUME NEW u \in Worker, NEW v \in Worker, u # v,
               NEW x \in RecordsOf(outbox'[u]), NEW y \in RecordsOf(outbox'[v])
        PROVE  x.job # y.job
    <3>1. x \in RecordsOf(outbox[u]) \/ (u = w /\ x = r)
      BY <1>4, <1>7
    <3>2. y \in RecordsOf(outbox[v]) \/ (v = w /\ y = r)
      BY <1>4, <1>7
    <3>3. x \in RecordsOf(outbox[u]) /\ y \in RecordsOf(outbox[v]) => x.job # y.job
      BY <2>3 DEF PoolInv, OrderInv
    <3> QED
      BY <2>3, <3>1, <3>2, <3>3, <1>6
  <2> QED
    BY <2>1, <2>2, <2>3 DEF PoolInv, OrderInv
<1>11. Records' = Records \cup {r}
  <2>1. \A x : x \in Records' <=> \/ x \in RecordsOf(queries)
                                  \/ x \in RecordsOf(queue_out)
                                  \/ \E v \in Worker : x \in RecordsOf(outbox'[v])
    BY DEF Records
  <2>2. \A x : (\E v \in Worker : x \in RecordsOf(outbox'[v]))
               <=> x = r \/ \E v \in Worker : x \in RecordsOf(outbox[v])
    BY <1>4, <1>7
  <2> QED
    BY <2>1, <2>2, InRecords
<1>12. OwnerInv'
  <2>1. ASSUME NEW v \in Worker
        PROVE  /\ worker'[v].target <= taken
               /\ worker'[v].at = "dead" => worker'[v].target = Pool!NoJob /\ outbox'[v] = <<>>
               /\ worker'[v].at = "scan" => worker'[v].target # Pool!NoJob
    BY <1>4 DEF PoolInv, OwnerInv
  <2>2. ASSUME NEW v \in Worker, worker'[v].target # Pool!NoJob, NEW u \in Worker \ {v}
        PROVE  /\ worker'[u].target # worker'[v].target
               /\ \A x \in RecordsOf(outbox'[u]) : x.job # worker'[v].target
    BY <2>2, <1>4, <1>7 DEF PoolInv, OwnerInv
  <2>3. ASSUME NEW v \in Worker, worker'[v].target # Pool!NoJob,
               NEW x \in Records', x.job = worker'[v].target
        PROVE  worker'[v].at # "scan" /\ (worker'[v].at = "get" => x.outcome # "interrupt")
    <3>1. CASE v = w
      <4>1. worker'[v].at = place
        BY <3>1, <1>4
      <4>2. x = r \/ x \in Records
        BY <1>11
      <4>3. x \in Records => x.outcome # "interrupt"
        BY <2>3, <3>1, <1>4, <1>5
      <4> QED
        BY <4>1, <4>2, <4>3
    <3>2. CASE v # w
      <4>1. worker'[v] = worker[v] /\ worker[v].target # worker[w].target
        BY <2>3, <3>2, <1>4 DEF PoolInv, OwnerInv
      <4>2. x # r /\ x \in Records
        BY <2>3, <4>1, <1>11
      <4> QED
        BY <2>3, <4>1, <4>2 DEF PoolInv, OwnerInv
    <3> QED
      BY <3>1, <3>2
  <2>4. \A x \in Records' : x.job <= taken
    BY <1>11 DEF PoolInv, OwnerInv
  <2> QED
    BY <2>1, <2>2, <2>3, <2>4 DEF OwnerInv
<1>13. /\ \A j : Scanning(j)' => Scanning(j)
       /\ \A j : HasRecord(j)' <=> HasRecord(j) \/ j = r.job
       /\ \A j : Scanning(j) => Scanning(j)' \/ j = r.job
  BY <1>4, <1>11 DEF Scanning, HasRecord
<1>14. CoverInv'
  BY <1>13 DEF PoolInv, CoverInv
<1>15. CalmInv'
  <2> SUFFICES ASSUME interrupts = 0
               PROVE  /\ signalled' = {}
                      /\ \A v \in Worker : worker'[v].at # "left"
                      /\ \A x \in Records' : x.outcome # "interrupt"
                      /\ \A j \in lost : ~Scanning(j)' /\ ~HasRecord(j)' /\ j <= taken
    BY DEF CalmInv
  <2>1. worker[w].at = "scan" /\ r.outcome # "interrupt" /\ place # "left"
    OBVIOUS
  <2>2. Scanning(r.job)
    BY <2>1 DEF Scanning
  <2>3. r.job \notin lost
    BY <2>2 DEF PoolInv, CalmInv
  <2> QED
    BY <2>1, <2>3, <1>4, <1>11, <1>13 DEF PoolInv, CalmInv
<1> QED
  BY <1>3, <1>10, <1>12, <1>14, <1>15 DEF PoolInv

LEMMA ScannedInv ==
  ASSUME PoolInv, NEW w \in Worker, Pool!Scanned(w) PROVE PoolInv'
<1>1. PICK o \in {"result", "error"}, x \in Wires :
        outbox' = [outbox EXCEPT ![w] = Append(@,
          [job |-> worker[w].target, outcome |-> o, wire |-> x])]
  BY DEF Pool!Scanned
<1> DEFINE r == [job |-> worker[w].target, outcome |-> o, wire |-> x]
<1>2. worker[w] \in Pool!WorkerState /\ worker[w].target # Pool!NoJob /\ worker[w].at = "scan"
  BY RecordTypes DEF PoolInv, OwnerInv, Pool!Scanned
<1>3. r \in Pool!Record
  BY <1>2, RunnerAssumption DEF Pool!Record, Pool!WorkerState, Pool!Outcome, Pool!Wire, Pool!NoJob
<1>4. r.job = worker[w].target /\ r.outcome # "interrupt"
  OBVIOUS
<1> HIDE DEF r
<1> QED
  BY <1>1, <1>2, <1>3, <1>4, RecordPut DEF Pool!Scanned, r

\* The feeder passes a record on or drops it
LEMMA FeedInv ==
  ASSUME PoolInv, NEW w \in Worker, Pool!Feed(w) PROVE PoolInv'
<1> DEFINE S == Pool!Record
<1> PICK r : r = Head(outbox[w])
  OBVIOUS
<1>1. /\ outbox \in [Worker -> Seq(S)] /\ worker \in [Worker -> Pool!WorkerState]
      /\ queue_out \in Seq(S) /\ outbox[w] \in Seq(S) /\ outbox[w] # <<>>
      /\ worker[w].at # "dead"
  BY DEF PoolInv, Pool!TypeOK, Pool!Feed
<1>2. /\ UNCHANGED <<sent, taken, worker, queries, parent, signalled, interrupts, deaths, abandoned>>
      /\ outbox'[w] = Tail(outbox[w]) /\ \A v \in Worker \ {w} : outbox'[v] = outbox[v]
      /\ outbox' \in [Worker -> Seq(S)]
  <2>1. Tail(outbox[w]) \in Seq(S)
    BY <1>1, HeadAndTail
  <2> QED
    BY <1>1, <2>1 DEF Pool!Feed
<1>3. \/ UNCHANGED queue_out /\ lost' = lost \cup {r.job}
      \/ queue_out' = Append(queue_out, r) /\ UNCHANGED lost
  BY DEF Pool!Feed
<1>4. /\ r \in S /\ RecordsOf(outbox[w]) = {r} \cup RecordsOf(outbox'[w])
      /\ Ordered(outbox'[w]) /\ Precedes({r}, RecordsOf(outbox'[w]))
  <2>1. Ordered(outbox[w])
    BY DEF PoolInv, OrderInv
  <2>2. /\ Head(outbox[w]) \in S
        /\ RecordsOf(outbox[w]) = {Head(outbox[w])} \cup RecordsOf(Tail(outbox[w]))
    BY <1>1, HeadAndTail, RecordsTaken
  <2>3. /\ Ordered(Tail(outbox[w]))
        /\ Precedes({Head(outbox[w])}, RecordsOf(Tail(outbox[w])))
    BY <1>1, <2>1, OrderedTaken
  <2> QED
    BY <1>2, <2>2, <2>3
<1>5. \A v \in Worker : RecordsOf(outbox'[v]) \subseteq RecordsOf(outbox[v]) /\ Ordered(outbox'[v])
  BY <1>2, <1>4 DEF PoolInv, OrderInv
<1>6. r \in Records /\ r.job \in Pool!Job /\ r.job <= taken
  BY <1>4, InRecords DEF PoolInv, OwnerInv, Pool!Record
<1>7. /\ queue_out' \in Seq(S) /\ Ordered(queue_out')
      /\ RecordsOf(queue_out') \subseteq RecordsOf(queue_out) \cup {r}
      /\ RecordsOf(queue_out) \subseteq RecordsOf(queue_out')
      /\ queue_out' = Append(queue_out, r) => r \in RecordsOf(queue_out')
  <2>1. CASE UNCHANGED queue_out
    BY <2>1, <1>1, AppendElements DEF PoolInv, OrderInv, RecordsOf
  <2>2. CASE queue_out' = Append(queue_out, r)
    <3>1. Precedes(RecordsOf(queue_out), {r})
      BY <1>4 DEF PoolInv, OrderInv, Precedes
    <3> QED
      BY <2>2, <1>1, <1>4, <3>1, AppendElements, RecordsAppended, OrderedAppended DEF PoolInv, OrderInv
  <2> QED
    BY <1>3, <2>1, <2>2
<1>8. Pool!TypeOK'
  <2>1. lost' \subseteq Pool!Job
    BY <1>3, <1>6 DEF PoolInv, Pool!TypeOK
  <2> QED
    BY <1>2, <1>7, <2>1 DEF PoolInv, Pool!TypeOK
<1>9. \A v \in Worker \ {w} : \A x \in RecordsOf(outbox[v]) : x.job # r.job
  BY <1>4 DEF PoolInv, OrderInv
<1>10. OrderInv'
  <2>1. Precedes(RecordsOf(queries), RecordsOf(queue_out'))
    BY <1>4, <1>7 DEF PoolInv, OrderInv, Precedes
  <2>2. ASSUME NEW v \in Worker
        PROVE  Precedes(RecordsOf(queries) \cup RecordsOf(queue_out'), RecordsOf(outbox'[v]))
    <3>1. Precedes({r}, RecordsOf(outbox'[v]))
      BY <1>2, <1>4, <1>9 DEF Precedes, Before
    <3>2. Precedes(RecordsOf(queries) \cup RecordsOf(queue_out), RecordsOf(outbox'[v]))
      BY <1>5 DEF PoolInv, OrderInv, Precedes
    <3> QED
      BY <1>7, <3>1, <3>2 DEF Precedes
  <2>3. \A u, v \in Worker : u # v =>
          \A x \in RecordsOf(outbox'[u]), y \in RecordsOf(outbox'[v]) : x.job # y.job
    BY <1>5 DEF PoolInv, OrderInv
  <2> QED
    BY <1>2, <1>5, <1>7, <2>1, <2>2, <2>3 DEF PoolInv, OrderInv
<1>11. \A x : x \in Records' <=> \/ x \in RecordsOf(queries)
                                 \/ x \in RecordsOf(queue_out')
                                 \/ \E v \in Worker : x \in RecordsOf(outbox'[v])
  BY <1>2 DEF Records
<1>12. Records' \subseteq Records
  BY <1>5, <1>6, <1>7, <1>11, InRecords
<1>13. Records \subseteq Records' \cup {r}
  <2>1. \A x \in Records : \/ x \in RecordsOf(queries) \/ x \in RecordsOf(queue_out')
                           \/ \E v \in Worker : x \in RecordsOf(outbox'[v]) \cup {r}
    BY <1>2, <1>4, <1>7, InRecords
  <2> QED
    BY <2>1, <1>11
<1>14. OwnerInv'
  BY <1>1, <1>2, <1>5, <1>12 DEF PoolInv, OwnerInv
<1>15. \A j : /\ Scanning(j)' <=> Scanning(j)
              /\ HasRecord(j)' => HasRecord(j)
              /\ HasRecord(j) => HasRecord(j)' \/ j = r.job
  BY <1>2, <1>12, <1>13 DEF Scanning, HasRecord
<1>16. CoverInv' /\ CalmInv'
  <2>1. CASE queue_out' = Append(queue_out, r) /\ UNCHANGED lost
    <3>1. r \in Records'
      BY <2>1, <1>7, <1>11
    <3>2. \A j : HasRecord(j) => HasRecord(j)'
      BY <3>1, <1>15 DEF HasRecord
    <3> QED
      BY <2>1, <3>2, <1>2, <1>12, <1>15 DEF PoolInv, CoverInv, CalmInv
  <2>2. CASE UNCHANGED queue_out /\ lost' = lost \cup {r.job}
    <3>1. CoverInv'
      BY <2>2, <1>2, <1>15 DEF PoolInv, CoverInv
    <3>2. ASSUME interrupts = 0 PROVE ~Scanning(r.job)' /\ ~HasRecord(r.job)'
      <4>1. ~Scanning(r.job)
        BY <1>6, RecordTypes DEF PoolInv, OwnerInv, Scanning, Pool!Job, Pool!NoJob
      <4>2. \A x \in Records : x.outcome # "interrupt"
        BY <3>2 DEF PoolInv, CalmInv
      <4>3. ASSUME NEW x \in Records', x.job = r.job PROVE FALSE
        <5>1. CASE x \in RecordsOf(queries) \cup RecordsOf(queue_out)
          BY <5>1, <4>2, <4>3, <1>4, <1>6 DEF PoolInv, OrderInv, Precedes, Before
        <5>2. ASSUME NEW v \in Worker, x \in RecordsOf(outbox'[v]) PROVE FALSE
          BY <5>2, <4>2, <4>3, <1>2, <1>4, <1>9, <1>12 DEF Precedes, Before
        <5>3. \/ x \in RecordsOf(queries) \cup RecordsOf(queue_out')
              \/ \E v \in Worker : x \in RecordsOf(outbox'[v])
          BY <4>3, <1>11
        <5>4. queue_out' = queue_out
          BY <2>2
        <5> QED
          BY <5>1, <5>2, <5>3, <5>4
      <4> QED
        BY <4>1, <4>3, <1>15 DEF HasRecord
    <3>3. ASSUME interrupts = 0, NEW j \in lost \cup {r.job}
          PROVE  ~Scanning(j)' /\ ~HasRecord(j)' /\ j <= taken
      <4>1. CASE j \in lost
        BY <3>3, <4>1, <1>15 DEF PoolInv, CalmInv
      <4>2. CASE j = r.job
        BY <3>2, <3>3, <4>2, <1>6
      <4> QED
        BY <3>3, <4>1, <4>2
    <3>4. CalmInv'
      BY <2>2, <3>3, <1>2, <1>12 DEF PoolInv, CalmInv
    <3> QED
      BY <3>1, <3>4
  <2> QED
    BY <1>3, <2>1, <2>2
<1> QED
  BY <1>8, <1>10, <1>14, <1>16 DEF PoolInv

\* The parent takes a record from the pipe, or is through
LEMMA CollectInv ==
  ASSUME PoolInv, Pool!Collect PROVE PoolInv'
<1>1. UNCHANGED <<sent, taken, worker, outbox, signalled, interrupts, deaths, abandoned, lost>>
  BY DEF Pool!Collect
<1>2. CASE parent' = "complete" /\ UNCHANGED <<queue_out, queries>>
  <2>1. Records' = Records /\ OrderInv'
    BY <1>1, <1>2, SameRecords DEF PoolInv
  <2>2. Pool!TypeOK'
    BY <1>1, <1>2 DEF PoolInv, Pool!TypeOK, Pool!Ended
  <2>3. OwnerInv' /\ CalmInv'
    BY <1>1, <2>1 DEF PoolInv, OwnerInv, CalmInv, Scanning, HasRecord
  <2>4. CoverInv'
    BY <1>1, <1>2, <2>1 DEF PoolInv, CoverInv, Scanning, HasRecord, Pool!Collect
  <2> QED
    BY <2>1, <2>2, <2>3, <2>4 DEF PoolInv
<1>3. ASSUME Len(queries) < NumTargets, queue_out # <<>>, queue_out' = Tail(queue_out),
             \/ queries' = Append(queries, Head(queue_out)) /\ UNCHANGED parent
             \/ parent' = "failed" /\ UNCHANGED queries
      PROVE  PoolInv'
  <2> DEFINE S == Pool!Record
  <2> PICK r : r = Head(queue_out)
    OBVIOUS
  <2>1. queue_out \in Seq(S) /\ queries \in Seq(S) /\ outbox \in [Worker -> Seq(S)]
    BY DEF PoolInv, Pool!TypeOK
  <2>2. r \in S /\ queue_out' \in Seq(S) /\ RecordsOf(queue_out) = {r} \cup RecordsOf(queue_out')
    BY <1>3, <2>1, HeadAndTail, RecordsTaken
  <2>3. Ordered(queue_out') /\ Precedes({r}, RecordsOf(queue_out'))
    <3>1. Ordered(queue_out)
      BY DEF PoolInv, OrderInv
    <3>2. Ordered(Tail(queue_out)) /\ Precedes({Head(queue_out)}, RecordsOf(Tail(queue_out)))
      BY <1>3, <2>1, <3>1, OrderedTaken
    <3> QED
      BY <1>3, <3>2
  <2>4. /\ queries' \in Seq(S) /\ Len(queries') <= NumTargets /\ Ordered(queries')
        /\ \/ RecordsOf(queries') = RecordsOf(queries) \cup {r} /\ UNCHANGED parent
           \/ RecordsOf(queries') = RecordsOf(queries) /\ parent' = "failed"
    <3>1. CASE queries' = Append(queries, r) /\ UNCHANGED parent
      <4>1. Ordered(queries) /\ Precedes(RecordsOf(queries), {r})
        BY <2>2 DEF PoolInv, OrderInv, Precedes
      <4>2. queries' \in Seq(S) /\ Len(queries') <= NumTargets
        BY <1>3, <2>1, <2>2, <3>1, RunnerAssumption
      <4>3. RecordsOf(Append(queries, r)) = RecordsOf(queries) \cup {r}
        BY <2>1, <2>2, RecordsAppended
      <4>4. Ordered(Append(queries, r))
        BY <2>1, <2>2, <4>1, OrderedAppended
      <4> QED
        BY <3>1, <4>2, <4>3, <4>4
    <3>2. CASE parent' = "failed" /\ UNCHANGED queries
      BY <3>2, <2>1 DEF PoolInv, Pool!TypeOK, OrderInv
    <3> QED
      BY <1>3, <3>1, <3>2
  <2>5. Pool!TypeOK'
    BY <1>1, <2>2, <2>4 DEF PoolInv, Pool!TypeOK, Pool!Ended
  <2>6. OrderInv'
    <3>1. Precedes(RecordsOf(queries'), RecordsOf(queue_out'))
      BY <2>2, <2>3, <2>4 DEF PoolInv, OrderInv, Precedes
    <3>2. \A w \in Worker : Precedes(RecordsOf(queries') \cup RecordsOf(queue_out'), RecordsOf(outbox[w]))
      <4>1. RecordsOf(queries') \cup RecordsOf(queue_out') \subseteq RecordsOf(queries) \cup RecordsOf(queue_out)
        BY <2>2, <2>4
      <4> QED
        BY <4>1 DEF PoolInv, OrderInv, Precedes
    <3> QED
      BY ZenonT(60), <1>1, <2>3, <2>4, <3>1, <3>2 DEF PoolInv, OrderInv
  <2>7. \A x : x \in Records' <=> \/ x \in RecordsOf(queries')
                                  \/ x \in RecordsOf(queue_out')
                                  \/ \E v \in Worker : x \in RecordsOf(outbox[v])
    BY <1>1 DEF Records
  <2>8. Records' \subseteq Records
    BY <2>2, <2>4, <2>7, InRecords
  <2>9. parent' = parent => Records' = Records
    <3>1. parent # "failed"
      BY DEF Pool!Collect
    <3> QED
      BY <2>2, <2>4, <2>7, <2>8, <3>1, InRecords
  <2>10. OwnerInv'
    BY <1>1, <2>8 DEF PoolInv, OwnerInv
  <2>11. \A j : /\ Scanning(j)' <=> Scanning(j)
                /\ HasRecord(j)' => HasRecord(j)
                /\ parent' = parent => (HasRecord(j) => HasRecord(j)')
    BY <1>1, <2>8, <2>9 DEF Scanning, HasRecord
  <2>12. CoverInv'
    BY <1>1, <2>4, <2>11 DEF PoolInv, CoverInv
  <2>13. CalmInv'
    BY <1>1, <2>8, <2>11 DEF PoolInv, CalmInv
  <2> QED
    BY <2>5, <2>6, <2>10, <2>12, <2>13 DEF PoolInv
<1> QED
  BY <1>2, <1>3 DEF Pool!Collect

\* A process is gone: the records its feeder has not sent and the target it was
\* scanning are lost
LEMMA GoneInv ==
  ASSUME PoolInv, NEW w \in Worker, NEW unsent, Pool!Gone(w, unsent),
         \/ unsent = outbox[w] /\ UNCHANGED queue_out
         \/ /\ outbox[w] # <<>> /\ unsent = Tail(outbox[w])
            /\ queue_out' = Append(queue_out, Head(outbox[w])),
         UNCHANGED <<queries, sent, taken, parent, interrupts>>,
         deaths' \in 0..MaxDeaths, abandoned' \subseteq Pool!Lock, signalled' \subseteq signalled
  PROVE  PoolInv'
<1> DEFINE gone == {r.job : r \in RecordsOf(unsent)}
                     \cup (IF worker[w].at = "scan" THEN {worker[w].target} ELSE {})
<1>1. /\ outbox \in [Worker -> Seq(Pool!Record)] /\ worker \in [Worker -> Pool!WorkerState]
      /\ queue_out \in Seq(Pool!Record) /\ outbox[w] \in Seq(Pool!Record)
  BY DEF PoolInv, Pool!TypeOK
<1>2. /\ outbox' \in [Worker -> Seq(Pool!Record)] /\ worker' \in [Worker -> Pool!WorkerState]
      /\ outbox'[w] = <<>> /\ \A v \in Worker \ {w} : outbox'[v] = outbox[v]
      /\ worker'[w].at = "dead" /\ worker'[w].target = Pool!NoJob
      /\ \A v \in Worker \ {w} : worker'[v] = worker[v]
  BY <1>1 DEF Pool!Gone, Pool!WorkerState
<1>3. lost' = lost \cup gone
  BY DEF Pool!Gone, RecordsOf
<1>16. PICK passed :
         /\ RecordsOf(outbox[w]) = passed \cup RecordsOf(unsent)
         /\ Precedes(passed, RecordsOf(unsent))
         /\ queue_out' \in Seq(Pool!Record) /\ Ordered(queue_out')
         /\ RecordsOf(queue_out') = RecordsOf(queue_out) \cup passed
  <2>1. CASE unsent = outbox[w] /\ UNCHANGED queue_out
    <3>1. /\ RecordsOf(outbox[w]) = {} \cup RecordsOf(unsent)
          /\ Precedes({}, RecordsOf(unsent))
          /\ RecordsOf(queue_out') = RecordsOf(queue_out) \cup {}
      BY <2>1 DEF Precedes
    <3> QED
      BY <2>1, <3>1, <1>1 DEF PoolInv, OrderInv
  <2>2. CASE /\ outbox[w] # <<>> /\ unsent = Tail(outbox[w])
             /\ queue_out' = Append(queue_out, Head(outbox[w]))
    <3> PICK r : r = Head(outbox[w])
      OBVIOUS
    <3>1. Ordered(outbox[w]) /\ Ordered(queue_out)
      BY DEF PoolInv, OrderInv
    <3>2. r \in Pool!Record /\ RecordsOf(outbox[w]) = {r} \cup RecordsOf(unsent)
      BY <1>1, <2>2, HeadAndTail, RecordsTaken
    <3>3. Precedes({r}, RecordsOf(unsent))
      BY <1>1, <2>2, <3>1, OrderedTaken
    <3>4. Precedes(RecordsOf(queue_out), {r})
      BY <3>2 DEF PoolInv, OrderInv, Precedes
    <3>5. queue_out' \in Seq(Pool!Record) /\ RecordsOf(queue_out') = RecordsOf(queue_out) \cup {r}
      BY <1>1, <2>2, <3>2, AppendElements, RecordsAppended
    <3>6. Ordered(queue_out')
      BY <1>1, <2>2, <3>1, <3>2, <3>4, OrderedAppended
    <3> QED
      BY <3>2, <3>3, <3>5, <3>6
  <2> QED
    BY <2>1, <2>2
<1>4. RecordsOf(outbox'[w]) = {} /\ Ordered(outbox'[w])
  BY <1>2, NoRecords
<1>5. \A v \in Worker : RecordsOf(outbox'[v]) \subseteq RecordsOf(outbox[v]) /\ Ordered(outbox'[v])
  BY <1>2, <1>4 DEF PoolInv, OrderInv
<1>6. \A j \in gone : j \in Pool!Job /\ j <= taken
  <2>1. \A r \in RecordsOf(unsent) : r.job \in Pool!Job /\ r.job <= taken
    BY <1>16, RecordTypes, InRecords DEF PoolInv, OwnerInv, Pool!Record
  <2>2. worker[w].at = "scan" => worker[w].target \in Pool!Job /\ worker[w].target <= taken
    BY <1>1 DEF PoolInv, OwnerInv, Pool!WorkerState
  <2> QED
    BY <2>1, <2>2
<1>7. Pool!TypeOK'
  <2>1. lost' \subseteq Pool!Job
    BY <1>3, <1>6 DEF PoolInv, Pool!TypeOK
  <2> HIDE DEF gone
  <2> QED
    BY <1>2, <1>16, <2>1 DEF PoolInv, Pool!TypeOK
<1>17. \A v \in Worker : Precedes(passed, RecordsOf(outbox'[v]))
  <2>1. ASSUME NEW v \in Worker, v # w PROVE Precedes(passed, RecordsOf(outbox'[v]))
    BY <2>1, <1>5, <1>16 DEF PoolInv, OrderInv, Precedes, Before
  <2> QED
    BY <2>1, <1>4 DEF Precedes
<1>8. OrderInv'
  <2>1. Precedes(RecordsOf(queries), RecordsOf(queue_out'))
    BY <1>16 DEF PoolInv, OrderInv, Precedes
  <2>2. ASSUME NEW v \in Worker
        PROVE  Precedes(RecordsOf(queries) \cup RecordsOf(queue_out'), RecordsOf(outbox'[v]))
    <3>1. Precedes(RecordsOf(queries) \cup RecordsOf(queue_out), RecordsOf(outbox'[v]))
      BY <1>5 DEF PoolInv, OrderInv, Precedes
    <3> QED
      BY <3>1, <1>16, <1>17 DEF Precedes
  <2>3. \A u, v \in Worker : u # v =>
          \A x \in RecordsOf(outbox'[u]), y \in RecordsOf(outbox'[v]) : x.job # y.job
    BY <1>5 DEF PoolInv, OrderInv
  <2> QED
    BY <1>5, <1>16, <2>1, <2>2, <2>3 DEF PoolInv, OrderInv
<1>9. \A x : x \in Records' <=> \/ x \in RecordsOf(queries)
                                \/ x \in RecordsOf(queue_out')
                                \/ \E v \in Worker : x \in RecordsOf(outbox'[v])
  BY DEF Records
<1>10. Records' \subseteq Records /\ \A x \in Records : x \in Records' \/ x \in RecordsOf(unsent)
  <2>1. Records' \subseteq Records
    BY <1>5, <1>9, <1>16, InRecords
  <2>2. ASSUME NEW x \in Records PROVE x \in Records' \/ x \in RecordsOf(unsent)
    <3>1. x \in RecordsOf(outbox[w]) => x \in RecordsOf(queue_out') \/ x \in RecordsOf(unsent)
      BY <1>16
    <3> QED
      BY <3>1, <1>2, <1>9, <1>16, InRecords
  <2> QED
    BY <2>1, <2>2
<1>11. OwnerInv'
  <2>1. ASSUME NEW v \in Worker
        PROVE  /\ worker'[v].target <= taken
               /\ worker'[v].at = "dead" => worker'[v].target = Pool!NoJob /\ outbox'[v] = <<>>
               /\ worker'[v].at = "scan" => worker'[v].target # Pool!NoJob
    <3>1. CASE v = w
      BY <3>1, <1>2 DEF PoolInv, Pool!TypeOK, Pool!NoJob
    <3>2. CASE v # w
      BY <3>2, <1>2 DEF PoolInv, OwnerInv
    <3> QED
      BY <3>1, <3>2
  <2>2. ASSUME NEW v \in Worker, worker'[v].target # Pool!NoJob
        PROVE  /\ \A u \in Worker \ {v} : /\ worker'[u].target # worker'[v].target
                                          /\ \A x \in RecordsOf(outbox'[u]) : x.job # worker'[v].target
               /\ \A x \in Records' : x.job = worker'[v].target =>
                    worker'[v].at # "scan" /\ (worker'[v].at = "get" => x.outcome # "interrupt")
    <3>1. worker'[v] = worker[v] /\ \A u \in Worker : worker'[u].target \in {worker[u].target, Pool!NoJob}
      BY <2>2, <1>2
    <3>2. \A u \in Worker \ {v} : /\ worker'[u].target # worker'[v].target
                                  /\ \A x \in RecordsOf(outbox'[u]) : x.job # worker'[v].target
      BY <2>2, <3>1, <1>5 DEF PoolInv, OwnerInv
    <3>3. \A x \in Records' : x.job = worker'[v].target =>
            worker'[v].at # "scan" /\ (worker'[v].at = "get" => x.outcome # "interrupt")
      BY <2>2, <3>1, <1>10 DEF PoolInv, OwnerInv
    <3> QED
      BY <3>2, <3>3
  <2>3. \A x \in Records' : x.job <= taken
    BY <1>10 DEF PoolInv, OwnerInv
  <2> QED
    BY <2>1, <2>2, <2>3 DEF OwnerInv
<1>12. ASSUME NEW j
       PROVE  /\ Scanning(j)' => Scanning(j) /\ j # worker[w].target
              /\ HasRecord(j)' => HasRecord(j)
              /\ Scanning(j) => Scanning(j)' \/ j \in gone
              /\ HasRecord(j) => HasRecord(j)' \/ j \in gone
  <2>1. ASSUME NEW v \in Worker, worker'[v].at = "scan", worker'[v].target = j
        PROVE  Scanning(j) /\ j # worker[w].target
    BY <2>1, <1>2 DEF Scanning, PoolInv, OwnerInv
  <2>2. Scanning(j) => Scanning(j)' \/ j \in gone
    BY <1>2 DEF Scanning
  <2>3. HasRecord(j) => HasRecord(j)' \/ j \in gone
    BY <1>10 DEF HasRecord
  <2>4. HasRecord(j)' => HasRecord(j)
    BY <1>10 DEF HasRecord
  <2> QED
    BY <2>1, <2>2, <2>3, <2>4 DEF Scanning
<1>13. CoverInv'
  <2> HIDE DEF gone
  <2> QED
    BY <1>3, <1>12 DEF PoolInv, CoverInv
<1>14. ASSUME interrupts = 0, NEW j \in gone PROVE ~Scanning(j)' /\ ~HasRecord(j)'
  <2>1. CASE worker[w].at = "scan" /\ j = worker[w].target
    <3>1. ~HasRecord(j)
      BY <2>1 DEF PoolInv, OwnerInv, HasRecord
    <3> QED
      BY <2>1, <3>1, <1>12
  <2>2. ASSUME NEW r \in RecordsOf(unsent), j = r.job PROVE ~Scanning(j)' /\ ~HasRecord(j)'
    <3>1. r \in Records /\ r.job \in Pool!Job /\ r \in RecordsOf(outbox[w])
      BY <1>16, RecordTypes, InRecords DEF PoolInv, Pool!Record
    <3>2. ~Scanning(j)
      BY <2>2, <3>1, RecordTypes DEF PoolInv, OwnerInv, Scanning, Pool!Job, Pool!NoJob
    <3>3. \A x \in Records : x.outcome # "interrupt"
      BY <1>14 DEF PoolInv, CalmInv
    <3>4. ASSUME NEW x \in Records', x.job = r.job PROVE FALSE
      <4>1. CASE x \in RecordsOf(queries) \cup RecordsOf(queue_out)
        BY <3>1, <3>3, <3>4, <4>1 DEF PoolInv, OrderInv, Precedes, Before
      <4>3. CASE x \in passed
        BY <2>2, <3>1, <3>3, <3>4, <4>3, <1>10, <1>16 DEF Precedes, Before
      <4>2. ASSUME NEW v \in Worker, x \in RecordsOf(outbox'[v]) PROVE FALSE
        <5>1. v # w /\ x \in RecordsOf(outbox[v])
          BY <4>2, <1>4, <1>5
        <5> QED
          BY <3>1, <3>4, <5>1 DEF PoolInv, OrderInv
      <4> QED
        BY <4>1, <4>2, <4>3, <3>4, <1>9, <1>16
    <3> QED
      BY <2>2, <3>2, <3>4, <1>12 DEF HasRecord
  <2> QED
    BY <2>1, <2>2
<1>15. CalmInv'
  <2> HIDE DEF gone
  <2> QED
    BY <1>2, <1>3, <1>6, <1>10, <1>12, <1>14 DEF PoolInv, CalmInv
<1> QED
  BY <1>7, <1>8, <1>11, <1>13, <1>15 DEF PoolInv

LEMMA DieInv ==
  ASSUME PoolInv, NEW w \in Worker, Pool!Die(w) PROVE PoolInv'
<1>1. /\ deaths' \in 0..MaxDeaths /\ abandoned \subseteq Pool!Lock
      /\ signalled' \subseteq signalled /\ UNCHANGED <<sent, taken, queries, parent, interrupts>>
  BY RunnerAssumption DEF PoolInv, Pool!TypeOK, Pool!Die
<1>2. PICK held \in SUBSET Pool!MayHold(w) :
        /\ abandoned' = abandoned \cup held
        /\ \/ Pool!Gone(w, outbox[w]) /\ UNCHANGED queue_out
           \/ /\ "write" \in held
              /\ queue_out' = Append(queue_out, Head(outbox[w]))
              /\ Pool!Gone(w, Tail(outbox[w]))
  BY DEF Pool!Die
<1>3. abandoned' \subseteq Pool!Lock
  BY <1>1, <1>2 DEF Pool!MayHold
<1>4. "write" \in held => outbox[w] # <<>>
  BY DEF Pool!MayHold, Pool!Sends
<1> QED
  BY <1>1, <1>2, <1>3, <1>4, GoneInv

LEMMA WorkerInterruptedInv ==
  ASSUME PoolInv, NEW w \in Worker, Pool!WorkerInterrupted(w) PROVE PoolInv'
<1>1. /\ UNCHANGED <<sent, taken, queue_out, queries, parent, interrupts, deaths, abandoned>>
      /\ signalled' \subseteq signalled /\ signalled # {} /\ deaths \in 0..MaxDeaths
      /\ abandoned \subseteq Pool!Lock
  BY DEF Pool!WorkerInterrupted, PoolInv, Pool!TypeOK
<1>2. CASE /\ worker[w].at \in {"get", "scan"} /\ worker[w].target # Pool!NoJob
           /\ outbox' = [outbox EXCEPT ![w] = Append(@, Pool!InterruptRecord(w))]
           /\ worker' = [worker EXCEPT ![w].at = "left"]
           /\ UNCHANGED lost
  <2>1. /\ Pool!InterruptRecord(w) \in Pool!Record
        /\ Pool!InterruptRecord(w).job = worker[w].target
        /\ Pool!InterruptRecord(w).outcome = "interrupt"
    BY <1>2, RecordTypes DEF PoolInv, Pool!InterruptRecord, Pool!Record, Pool!WorkerState,
                              Pool!Outcome, Pool!Wire, Pool!NoJob
  <2>2. interrupts # 0
    BY <1>1 DEF PoolInv, CalmInv
  <2> QED
    BY <1>1, <1>2, <2>1, <2>2, RecordPut
<1>3. CASE outbox[w] = <<>> /\ Pool!Gone(w, <<>>)
  BY <1>1, <1>3, GoneInv
<1>4. CASE UNCHANGED <<worker, outbox, lost>>
  <2>1. Records' = Records /\ OrderInv'
    BY <1>1, <1>4, SameRecords DEF PoolInv
  <2>2. Pool!TypeOK'
    BY <1>1, <1>4 DEF PoolInv, Pool!TypeOK
  <2>3. OwnerInv' /\ CoverInv' /\ CalmInv'
    BY <1>1, <1>4, <2>1 DEF PoolInv, OwnerInv, CoverInv, CalmInv, Scanning, HasRecord
  <2> QED
    BY <2>1, <2>2, <2>3 DEF PoolInv
<1> QED
  BY <1>2, <1>3, <1>4 DEF Pool!WorkerInterrupted

LEMMA PoolStep ==
  ASSUME PoolInv, Pool!Next PROVE PoolInv'
<1>1. ASSUME NEW w \in Worker, Pool!WorkerStep(w) \/ Pool!Die(w) PROVE PoolInv'
  BY <1>1, TakeInv, ScannedInv, FeedInv, RespawnInv, WorkerInterruptedInv, DieInv DEF Pool!WorkerStep
<1> QED
  BY <1>1, PutInv, CollectInv, ParentInterruptedInv, InterruptInv DEF Pool!Next

-----------------------------------------------------------------------------
(* What the pool's invariant says of a target's records.                    *)

\* The list is in order
LEMMA PoolRealRecordFirst == PoolInv => Pool!RealRecordFirst
<1> SUFFICES ASSUME PoolInv, NEW i \in DOMAIN queries, NEW k \in DOMAIN queries,
                    i < k, queries[i].job = queries[k].job
             PROVE  queries[i].outcome # "interrupt" /\ queries[k].outcome = "interrupt"
  BY DEF Pool!RealRecordFirst
<1> QED
  BY DEF PoolInv, OrderInv, Ordered, Before

\* A parent that waits with nothing under way has a record of every target but the lost
\* ones, and too few records for that to be all of them
LEMMA PoolWaitsOnlyForLost == PoolInv => Pool!WaitsOnlyForLost
<1> SUFFICES ASSUME PoolInv, parent = "get", Len(queries) < NumTargets, Pool!Quiet, lost = {},
                    ~Pool!TargetsLocked, ~Pool!RecordsLocked
             PROVE  FALSE
  BY DEF Pool!WaitsOnlyForLost
<1>1. /\ queue_out = <<>> /\ taken = NumTargets
      /\ \A w \in Worker : worker[w].at # "scan" /\ outbox[w] = <<>>
  <2>1. taken = NumTargets
    <3>1. taken \in Nat /\ NumTargets \in Nat /\ taken <= NumTargets
      BY RunnerAssumption DEF PoolInv, Pool!TypeOK
    <3> QED
      BY <3>1 DEF Pool!Quiet, Pool!TargetsLocked
  <2> QED
    BY <2>1 DEF Pool!Quiet, Pool!RecordsLocked
<1>2. \A r \in Records : r \in RecordsOf(queries)
  BY <1>1, NoRecords, InRecords
<1>3. \A j \in 1..NumTargets : HasRecord(j)
  BY <1>1 DEF PoolInv, CoverInv, Scanning
<1>4. \A j \in 1..NumTargets : \E i \in DOMAIN queries : queries[i].job = j
  BY <1>2, <1>3 DEF HasRecord, RecordsOf
<1> DEFINE f == [j \in 1..NumTargets |-> CHOOSE i \in DOMAIN queries : queries[i].job = j]
<1>5. f \in [1..NumTargets -> DOMAIN queries] /\ \A j \in 1..NumTargets : queries[f[j]].job = j
  BY <1>4
<1>6. DOMAIN queries = 1..Len(queries) /\ Len(queries) \in Nat
  BY DEF PoolInv, Pool!TypeOK
<1>7. /\ IsFiniteSet(1..NumTargets) /\ Cardinality(1..NumTargets) = NumTargets
      /\ IsFiniteSet(DOMAIN queries) /\ Cardinality(DOMAIN queries) = Len(queries)
  <2>1. ASSUME NEW n \in Nat PROVE IsFiniteSet(1..n) /\ Cardinality(1..n) = n
    <3>1. /\ IsFiniteSet(1..n)
          /\ Cardinality(1..n) = IF 1 > n THEN 0 ELSE n - 1 + 1
      BY FS_Interval
    <3> QED
      BY <3>1
  <2>2. NumTargets \in Nat
    BY RunnerAssumption
  <2> QED
    BY <1>6, <2>1, <2>2
<1> HIDE DEF f
<1>8. PICK i \in 1..NumTargets, j \in 1..NumTargets : i # j /\ f[i] = f[j]
  <2>1. PICK S, T : S = 1..NumTargets /\ T = DOMAIN queries
    OBVIOUS
  <2>2. Cardinality(T) < Cardinality(S)
    BY <1>6, <1>7, <2>1, RunnerAssumption
  <2>3. IsFiniteSet(S) /\ IsFiniteSet(T) /\ f \in [S -> T]
    BY <1>5, <1>7, <2>1
  <2>4. \E x, y \in S : x # y /\ f[x] = f[y]
    BY <2>2, <2>3, FS_PigeonHole
  <2> QED
    BY <2>1, <2>4
<1> QED
  BY <1>5, <1>8

\* Counting in WorkerPool is counting here
LEMMA SameCardinality ==
  ASSUME NEW S PROVE Pool!Cardinality(S) = Cardinality(S)
  BY DEF Pool!Cardinality, Cardinality

\* Where a target may be, from the outside: one scanning worker, one position in one
\* buffer, in the pipe or in the list, or lost
LEMMA PlaceOf ==
  ASSUME NEW j \in Pool!Job, NEW p
  PROVE  p \in Pool!Places(j) <=>
           \/ \E w \in Worker : p = <<"scan", w>> /\ worker[w].at = "scan" /\ worker[w].target = j
           \/ \E w \in Worker : \E i \in DOMAIN outbox[w] : p = <<"outbox", w, i>> /\ outbox[w][i].job = j
           \/ \E i \in DOMAIN queue_out : p = <<"pipe", i>> /\ queue_out[i].job = j
           \/ \E i \in DOMAIN queries : p = <<"queries", i>> /\ queries[i].job = j
           \/ p = <<"lost">> /\ j \in lost
<1> DEFINE Scans == {<<"scan", w>> : w \in {v \in Worker : worker[v].at = "scan" /\ worker[v].target = j}}
           Box(w) == {<<"outbox", w, i>> : i \in {k \in DOMAIN outbox[w] : outbox[w][k].job = j}}
           Boxes == UNION {Box(w) : w \in Worker}
           Pipe == {<<"pipe", i>> : i \in {k \in DOMAIN queue_out : queue_out[k].job = j}}
           List == {<<"queries", i>> : i \in {k \in DOMAIN queries : queries[k].job = j}}
           Lost == {<<"lost">> : x \in {y \in {j} : y \in lost}}
<1>1. Pool!Places(j) = Scans \cup Boxes \cup Pipe \cup List \cup Lost
  BY DEF Pool!Places
<1>2. p \in Scans <=> \E w \in Worker : p = <<"scan", w>> /\ worker[w].at = "scan" /\ worker[w].target = j
  OBVIOUS
<1>3. ASSUME NEW w \in Worker
      PROVE  p \in Box(w) <=> \E i \in DOMAIN outbox[w] : p = <<"outbox", w, i>> /\ outbox[w][i].job = j
  OBVIOUS
<1>4. p \in Pipe <=> \E i \in DOMAIN queue_out : p = <<"pipe", i>> /\ queue_out[i].job = j
  OBVIOUS
<1>5. p \in List <=> \E i \in DOMAIN queries : p = <<"queries", i>> /\ queries[i].job = j
  OBVIOUS
<1>6. p \in Lost <=> p = <<"lost">> /\ j \in lost
  OBVIOUS
<1>7. p \in Boxes <=> \E w \in Worker : p \in Box(w)
  OBVIOUS
<1> HIDE DEF Scans, Box, Boxes, Pipe, List, Lost
<1>8. p \in Pool!Places(j) <=> \/ p \in Scans \/ \E w \in Worker : p \in Box(w)
                               \/ p \in Pipe \/ p \in List \/ p \in Lost
  BY <1>1, <1>7
<1>9. (\E w \in Worker : p \in Box(w)) <=>
        \E w \in Worker : \E i \in DOMAIN outbox[w] : p = <<"outbox", w, i>> /\ outbox[w][i].job = j
  BY <1>3
<1> QED
  BY <1>2, <1>4, <1>5, <1>6, <1>8, <1>9

\* In calm, no two positions of one queue hold records of one target
LEMMA CalmQueue ==
  ASSUME NEW s, DOMAIN s \subseteq Int, Ordered(s), \A r \in RecordsOf(s) : r.outcome # "interrupt",
         NEW i \in DOMAIN s, NEW k \in DOMAIN s, s[i].job = s[k].job
  PROVE  i = k
<1>1. s[i] \in RecordsOf(s) /\ s[k] \in RecordsOf(s)
  BY DEF RecordsOf
<1>2. i < k \/ k < i \/ i = k
  OBVIOUS
<1> QED
  BY <1>1, <1>2 DEF Ordered, Before

LEMMA PoolAccounted == PoolInv => Pool!Accounted
<1> SUFFICES ASSUME PoolInv, interrupts = 0, parent # "failed", NEW j \in Pool!Job
             PROVE  Cardinality(Pool!Places(j)) = IF j <= taken THEN 1 ELSE 0
  BY SameCardinality DEF Pool!Accounted
<1>1. j \in Nat \ {0} /\ taken \in Nat
  BY RunnerAssumption DEF Pool!Job, PoolInv, Pool!TypeOK
<1>2. \A r \in Records : r.outcome # "interrupt"
  BY DEF PoolInv, CalmInv
<1>3. /\ DOMAIN queries \subseteq Int /\ DOMAIN queue_out \subseteq Int
      /\ \A w \in Worker : DOMAIN outbox[w] \subseteq Int
  <2>1. ASSUME NEW s \in Seq(Pool!Record) PROVE DOMAIN s \subseteq Int
    OBVIOUS
  <2> QED
    BY <2>1, RecordTypes DEF PoolInv
<1>4. /\ \A i \in DOMAIN queries : queries[i] \in RecordsOf(queries)
      /\ \A i \in DOMAIN queue_out : queue_out[i] \in RecordsOf(queue_out)
      /\ \A w \in Worker : \A i \in DOMAIN outbox[w] : outbox[w][i] \in RecordsOf(outbox[w])
  BY DEF RecordsOf
<1>5. CASE j > taken
  <2>1. ~Scanning(j) /\ ~HasRecord(j) /\ j \notin lost
    BY <1>1, <1>5, RecordTypes DEF PoolInv, OwnerInv, CalmInv, Scanning, HasRecord,
                                Pool!Record, Pool!WorkerState, Pool!Job, Pool!NoJob
  <2>2. \A p : p \notin Pool!Places(j)
    BY <2>1, <1>4, PlaceOf, InRecords DEF Scanning, HasRecord
  <2> QED
    BY <1>1, <1>5, <2>2, FS_EmptySet
<1>6. CASE j <= taken
  <2>1. \E p : p \in Pool!Places(j)
    <3>1. Scanning(j) \/ HasRecord(j) \/ j \in lost
      BY <1>1, <1>6 DEF PoolInv, CoverInv
    <3>2. HasRecord(j) => \/ \E i \in DOMAIN queries : queries[i].job = j
                          \/ \E i \in DOMAIN queue_out : queue_out[i].job = j
                          \/ \E w \in Worker : \E i \in DOMAIN outbox[w] : outbox[w][i].job = j
      BY InRecords DEF HasRecord, RecordsOf
    <3> QED
      BY <3>1, <3>2, PlaceOf DEF Scanning
  <2>2. ASSUME NEW p \in Pool!Places(j), NEW q \in Pool!Places(j) PROVE p = q
    <3>1. Scanning(j) => ~HasRecord(j)
      BY <1>1 DEF PoolInv, OwnerInv, Scanning, HasRecord, Pool!NoJob
    <3>2. j \in lost => ~Scanning(j) /\ ~HasRecord(j)
      BY DEF PoolInv, CalmInv
    <3>3. \A w, v \in Worker : worker[w].target = j /\ worker[v].target = j => w = v
      BY <1>1 DEF PoolInv, OwnerInv, Pool!NoJob
    <3>4. \A i, k \in DOMAIN queries : queries[i].job = j /\ queries[k].job = j => i = k
      BY <1>2, <1>3, InRecords, CalmQueue DEF PoolInv, OrderInv
    <3>5. \A i, k \in DOMAIN queue_out : queue_out[i].job = j /\ queue_out[k].job = j => i = k
      BY <1>2, <1>3, InRecords, CalmQueue DEF PoolInv, OrderInv
    <3>6. ASSUME NEW w \in Worker, NEW v \in Worker,
                 NEW i \in DOMAIN outbox[w], NEW k \in DOMAIN outbox[v],
                 outbox[w][i].job = j, outbox[v][k].job = j
          PROVE  w = v /\ i = k
      <4>1. w = v
        BY <3>6, <1>4 DEF PoolInv, OrderInv
      <4>2. Ordered(outbox[w]) /\ \A r \in RecordsOf(outbox[w]) : r.outcome # "interrupt"
        BY <1>2, InRecords DEF PoolInv, OrderInv
      <4> QED
        BY <3>6, <4>1, <4>2, <1>3, CalmQueue
    <3>7. /\ \A i \in DOMAIN queries : \A k \in DOMAIN queue_out :
               ~(queries[i].job = j /\ queue_out[k].job = j)
          /\ \A w \in Worker : \A k \in DOMAIN outbox[w] :
               /\ \A i \in DOMAIN queries : ~(queries[i].job = j /\ outbox[w][k].job = j)
               /\ \A i \in DOMAIN queue_out : ~(queue_out[i].job = j /\ outbox[w][k].job = j)
      <4>1. \A x, y \in Records : Before(x, y) => ~(x.job = j /\ y.job = j)
        BY <1>2 DEF Before
      <4> QED
        BY <4>1, <1>4, InRecords DEF PoolInv, OrderInv, Precedes
    <3>8. /\ \A i \in DOMAIN queries : queries[i].job = j => HasRecord(j)
          /\ \A i \in DOMAIN queue_out : queue_out[i].job = j => HasRecord(j)
          /\ \A w \in Worker : \A i \in DOMAIN outbox[w] : outbox[w][i].job = j => HasRecord(j)
      BY <1>4, InRecords DEF HasRecord
    <3>9. \A w \in Worker : worker[w].at = "scan" /\ worker[w].target = j => Scanning(j)
      BY DEF Scanning
    <3>10. CASE \E w \in Worker : p = <<"scan", w>> /\ worker[w].at = "scan" /\ worker[w].target = j
      BY <3>10, <3>1, <3>2, <3>3, <3>8, <3>9, PlaceOf
    <3>11. CASE \E w \in Worker : \E i \in DOMAIN outbox[w] :
                  p = <<"outbox", w, i>> /\ outbox[w][i].job = j
      BY <3>11, <3>1, <3>2, <3>6, <3>7, <3>8, <3>9, PlaceOf
    <3>12. CASE \E i \in DOMAIN queue_out : p = <<"pipe", i>> /\ queue_out[i].job = j
      BY <3>12, <3>1, <3>2, <3>5, <3>7, <3>8, <3>9, PlaceOf
    <3>13. CASE \E i \in DOMAIN queries : p = <<"queries", i>> /\ queries[i].job = j
      BY <3>13, <3>1, <3>2, <3>4, <3>7, <3>8, <3>9, PlaceOf
    <3>14. CASE p = <<"lost">> /\ j \in lost
      BY <3>14, <3>2, <3>8, <3>9, PlaceOf
    <3> QED
      BY <3>10, <3>11, <3>12, <3>13, <3>14, PlaceOf
  <2> QED
    BY <1>1, <1>6, <2>1, <2>2, FS_Singleton
<1> QED
  BY <1>1, <1>5, <1>6

-----------------------------------------------------------------------------
(* The entries of the pool's list.                                          *)

LEMMA AppendIs ==
  ASSUME NEW S, NEW s \in Seq(S), NEW e \in S, NEW t \in Seq(S), DOMAIN t = DOMAIN s \cup {Len(s) + 1},
         \A i \in DOMAIN s : t[i] = s[i], t[Len(s) + 1] = e
  PROVE  t = Append(s, e)
<1>1. /\ Append(s, e) \in Seq(S) /\ DOMAIN Append(s, e) = DOMAIN t
      /\ \A i \in DOMAIN t : t[i] = Append(s, e)[i]
  BY AppendElements
<1> PICK a : a = Append(s, e)
  OBVIOUS
<1>2. a \in Seq(S) /\ DOMAIN a = DOMAIN t /\ \A i \in DOMAIN t : t[i] = a[i]
  BY <1>1
<1>3. /\ DOMAIN t = 1..Len(t) /\ Len(t) \in Nat
      /\ DOMAIN a = 1..Len(a) /\ Len(a) \in Nat
  BY <1>2
<1>4. Len(t) = Len(a)
  BY <1>2, <1>3
<1>5. \A i \in 1..Len(t) : t[i] = a[i]
  BY <1>2, <1>3
<1>6. t = a
  BY <1>2, <1>4, <1>5, SeqEqual
<1> QED
  BY <1>6

LEMMA IsSequence ==
  ASSUME NEW S, NEW c \in Nat, NEW s, DOMAIN s = 1..c, s = [m \in 1..c |-> s[m]],
         \A m \in 1..c : s[m] \in S
  PROVE  s \in Seq(S) /\ Len(s) = c
<1>1. s \in [1..c -> S]
  OBVIOUS
<1>2. s \in Seq(S)
  BY <1>1, SeqDef
<1>3. Len(s) \in Nat /\ DOMAIN s = 1..Len(s)
  BY <1>2
<1> QED
  BY <1>2, <1>3

\* First is a set of positions; Counted is a list of them without repetition
LEMMA FirstFinite ==
  ASSUME Pool!TypeOK
  PROVE  /\ DOMAIN queries = 1..Len(queries) /\ Len(queries) \in Nat
         /\ Pool!First \subseteq DOMAIN queries
         /\ \A T \in SUBSET Pool!First : IsFiniteSet(T) /\ Cardinality(T) \in Nat
         /\ DOMAIN Pool!Counted = 1..Cardinality(Pool!First)
<1>1. DOMAIN queries = 1..Len(queries) /\ Len(queries) \in Nat
  BY DEF Pool!TypeOK
<1>2. Pool!First \subseteq DOMAIN queries
  BY DEF Pool!First
<1>3. ASSUME NEW T \in SUBSET Pool!First PROVE IsFiniteSet(T) /\ Cardinality(T) \in Nat
  <2>1. IsFiniteSet(1..Len(queries)) /\ T \in SUBSET (1..Len(queries))
    BY <1>1, <1>2, FS_Interval
  <2> QED
    BY <2>1, FS_Subset, FS_CardinalityType
<1> QED
  BY <1>1, <1>2, <1>3, SameCardinality DEF Pool!Counted

EntriesInv ==
  /\ \A m \in DOMAIN Pool!Counted : Pool!Counted[m] \in Pool!First
  /\ {Pool!Entries[m].job : m \in DOMAIN Pool!Entries} = Listed

Choice(S) == CHOOSE i \in S : TRUE

LEMMA ChoiceIn ==
  ASSUME NEW S, S # {} PROVE Choice(S) \in S
  BY DEF Choice

\* The positions up to one, and the n-th position
Upto(F, i) == {k \in F : k <= i}
NthOf(F, n) == {i \in F : Cardinality(Upto(F, i)) = n}

\* A position beyond the others is the next, and leaves their numbers
LEMMA NthExtended ==
  ASSUME NEW l \in Nat, NEW F \in SUBSET (1..l)
  PROVE  /\ Cardinality(F) \in Nat
         /\ Cardinality(F \cup {l + 1}) = Cardinality(F) + 1
         /\ \A m \in 1..Cardinality(F) : NthOf(F \cup {l + 1}, m) = NthOf(F, m)
         /\ NthOf(F \cup {l + 1}, Cardinality(F) + 1) = {l + 1}
<1> PICK G : G = F \cup {l + 1}
  OBVIOUS
<1> PICK c : c = Cardinality(F)
  OBVIOUS
<1>1. \A T \in SUBSET F : IsFiniteSet(T) /\ Cardinality(T) \in Nat /\ Cardinality(T) <= c
  <2>1. IsFiniteSet(1..l)
    BY FS_Interval
  <2>2. IsFiniteSet(F)
    BY <2>1, FS_Subset
  <2> QED
    BY <2>2, FS_Subset, FS_CardinalityType
<1>2. c \in Nat /\ Cardinality(G) = c + 1
  BY <1>1, FS_AddElement
<1>3. \A i \in F : Upto(G, i) = Upto(F, i) /\ Cardinality(Upto(F, i)) <= c
  BY <1>1 DEF Upto
<1>4. Cardinality(Upto(G, l + 1)) = c + 1
  <2>1. Upto(G, l + 1) = G
    <3>1. \A k \in G : k <= l + 1
      OBVIOUS
    <3> QED
      BY <3>1 DEF Upto
  <2> QED
    BY <2>1, <1>2
<1>5. ASSUME NEW m \in 1..c PROVE NthOf(G, m) = NthOf(F, m)
  <2>1. m # c + 1
    BY <1>2
  <2>2. ASSUME NEW i PROVE i \in NthOf(G, m) <=> i \in NthOf(F, m)
    BY <2>1, <1>3, <1>4 DEF NthOf
  <2> QED
    BY <2>2 DEF NthOf
<1>6. NthOf(G, c + 1) = {l + 1}
  <2>1. \A i \in F : Cardinality(Upto(G, i)) # c + 1
    <3>1. \A i \in F : Upto(F, i) \in SUBSET F
      BY DEF Upto
    <3> QED
      BY <1>1, <1>2, <1>3, <3>1
  <2> QED
    BY <2>1, <1>4 DEF NthOf
<1> QED
  BY <1>2, <1>5, <1>6

Numbering ==
  /\ DOMAIN Pool!Counted = 1..Cardinality(Pool!First)
  /\ \A m \in 1..Cardinality(Pool!First) : Pool!Counted[m] = Choice(NthOf(Pool!First, m))

LEMMA Numbered == Numbering /\ Numbering'
<1>1. ASSUME NEW F, NEW n PROVE {i \in F : Pool!Cardinality({k \in F : k <= i}) = n} = NthOf(F, n)
  BY SameCardinality DEF NthOf, Upto
<1>2. Numbering
  BY <1>1, SameCardinality DEF Pool!Counted, Pool!Nth, Numbering, Choice
<1>3. Numbering'
  BY <1>1, SameCardinality DEF Pool!Counted, Pool!Nth, Numbering, Choice
<1> QED
  BY <1>2, <1>3

\* A record that is collected makes an entry, unless it repeats one
LEMMA EntryAppended ==
  ASSUME PoolInv, PoolInv', EntriesInv, NEW r \in Pool!Record, queries' = Append(queries, r)
  PROVE  /\ EntriesInv'
         /\ \/ UNCHANGED Pool!Entries
            \/ /\ Pool!Entries' = Append(Pool!Entries, [job |-> r.job, outcome |-> r.outcome])
               /\ r.job \notin Listed
<1> PICK n : n = Len(queries) + 1
  OBVIOUS
<1> PICK F : F = Pool!First
  OBVIOUS
<1> PICK c : c = Cardinality(F)
  OBVIOUS
<1>1. /\ queries \in Seq(Pool!Record) /\ Len(queries) \in Nat /\ DOMAIN queries = 1..Len(queries)
      /\ DOMAIN queries' = DOMAIN queries \cup {n} /\ n \in Nat
      /\ \A i \in DOMAIN queries : queries'[i] = queries[i] /\ i < n
      /\ queries'[n] = r
  <2>1. queries \in Seq(Pool!Record)
    BY DEF PoolInv, Pool!TypeOK
  <2> QED
    BY <2>1, AppendElements
<1>2. Listed' = Listed \cup {r.job}
  BY <1>1 DEF Listed
<1>3. /\ F \subseteq DOMAIN queries /\ c \in Nat /\ IsFiniteSet(F)
      /\ \A T \in SUBSET F : IsFiniteSet(T) /\ Cardinality(T) \in Nat
  BY FirstFinite DEF PoolInv
<1>4. \A i \in DOMAIN queries : Pool!Again(i)' <=> Pool!Again(i)
  <2> SUFFICES ASSUME NEW i \in DOMAIN queries PROVE Pool!Again(i)' <=> Pool!Again(i)
    OBVIOUS
  <2>1. queries'[i] = queries[i] /\ \A k \in 1..(i - 1) : queries'[k] = queries[k]
    BY <1>1
  <2> QED
    BY <2>1 DEF Pool!Again
<1>5. Pool!Again(n)' <=> r.outcome = "interrupt" /\ r.job \in Listed
  <2>1. 1..(n - 1) = DOMAIN queries
    BY <1>1
  <2>2. Pool!Again(n)' <=> r.outcome = "interrupt" /\ \E k \in DOMAIN queries : queries[k].job = r.job
    BY <1>1, <2>1 DEF Pool!Again
  <2> QED
    BY <2>2 DEF Listed
<1>6. Pool!First' = IF r.outcome = "interrupt" /\ r.job \in Listed THEN F ELSE F \cup {n}
  BY <1>1, <1>4, <1>5 DEF Pool!First
<1>7. Numbering /\ Numbering'
  BY Numbered
<1>8. CASE r.outcome = "interrupt" /\ r.job \in Listed
  <2>1. Pool!First' = F
    BY <1>6, <1>8
  <2>3. /\ DOMAIN Pool!Counted' = DOMAIN Pool!Counted
        /\ \A m \in DOMAIN Pool!Counted : Pool!Counted'[m] = Pool!Counted[m]
    BY <2>1, <1>7 DEF Numbering
  <2>4. \A m \in DOMAIN Pool!Counted : queries'[Pool!Counted'[m]] = queries[Pool!Counted[m]]
    BY <2>3, <1>1, <1>3 DEF EntriesInv
  <2>5. UNCHANGED Pool!Entries
    BY <2>3, <2>4 DEF Pool!Entries
  <2>6. Listed' = Listed
    BY <1>2, <1>8
  <2> QED
    BY <2>1, <2>3, <2>5, <2>6 DEF EntriesInv
<1>9. CASE ~(r.outcome = "interrupt" /\ r.job \in Listed)
  <2>1. Pool!First' = F \cup {n} /\ n \notin F
    BY <1>1, <1>3, <1>6, <1>9
  <2>2. F \in SUBSET (1..Len(queries)) /\ Len(queries) + 1 = n
    BY <1>1, <1>3
  <2>3. /\ Cardinality(F \cup {n}) = c + 1
        /\ \A m \in 1..c : NthOf(F \cup {n}, m) = NthOf(F, m)
        /\ NthOf(F \cup {n}, c + 1) = {n}
    <3>1. PICK l \in Nat : l = Len(queries)
      BY <1>1
    <3>2. F \in SUBSET (1..l) /\ n = l + 1
      BY <2>2, <3>1
    <3>3. /\ Cardinality(F \cup {l + 1}) = Cardinality(F) + 1
          /\ \A m \in 1..Cardinality(F) : NthOf(F \cup {l + 1}, m) = NthOf(F, m)
          /\ NthOf(F \cup {l + 1}, Cardinality(F) + 1) = {l + 1}
      BY <3>2, NthExtended
    <3> QED
      BY <3>2, <3>3
  <2>8. /\ DOMAIN Pool!Counted = 1..c
        /\ DOMAIN Pool!Counted' = (1..c) \cup {c + 1}
        /\ \A m \in 1..c : Pool!Counted'[m] = Pool!Counted[m]
        /\ Pool!Counted'[c + 1] = n
    <3>1. 1..(c + 1) = (1..c) \cup {c + 1} /\ 1..c \subseteq 1..(c + 1) /\ c + 1 \in 1..(c + 1)
      BY <1>3
    <3>2. Choice({n}) = n
      BY ChoiceIn
    <3>3. /\ DOMAIN Pool!Counted = 1..c /\ DOMAIN Pool!Counted' = 1..(c + 1)
          /\ \A m \in 1..c : Pool!Counted[m] = Choice(NthOf(F, m))
          /\ \A m \in 1..(c + 1) : Pool!Counted'[m] = Choice(NthOf(F \cup {n}, m))
      <4>1. PICK G, b : G = Pool!First' /\ b = Cardinality(G)
        OBVIOUS
      <4>2. G = F \cup {n} /\ b = c + 1
        BY <2>1, <2>3, <4>1
      <4>3. /\ DOMAIN Pool!Counted' = 1..b
            /\ \A m \in 1..b : Pool!Counted'[m] = Choice(NthOf(G, m))
        BY <1>7, <4>1 DEF Numbering
      <4>4. /\ DOMAIN Pool!Counted = 1..c
            /\ \A m \in 1..c : Pool!Counted[m] = Choice(NthOf(F, m))
        BY <1>7 DEF Numbering
      <4> QED
        BY <4>2, <4>3, <4>4
    <3>4. Pool!Counted'[c + 1] = n
      BY <2>3, <3>1, <3>2, <3>3
    <3>5. ASSUME NEW m \in 1..c PROVE Pool!Counted'[m] = Pool!Counted[m]
      <4>1. m \in 1..(c + 1)
        BY <3>1
      <4>2. PICK G : G = F \cup {n} /\ NthOf(G, m) = NthOf(F, m)
        BY <2>3
      <4>3. Pool!Counted'[m] = Choice(NthOf(G, m))
        BY <3>3, <4>1, <4>2
      <4>4. Pool!Counted[m] = Choice(NthOf(F, m))
        BY <3>3
      <4> QED
        BY <4>2, <4>3, <4>4
    <3> QED
      BY <3>1, <3>3, <3>4, <3>5
  <2> DEFINE E == [job : Pool!Job, outcome : Pool!Outcome]
             e == [job |-> r.job, outcome |-> r.outcome]
  <2>9. e \in E
    BY DEF Pool!Record
  <2>10. /\ DOMAIN Pool!Entries = 1..c /\ DOMAIN Pool!Entries' = (1..c) \cup {c + 1}
         /\ \A m \in 1..c : Pool!Entries'[m] = Pool!Entries[m]
         /\ Pool!Entries'[c + 1] = e
    <3>1. \A m \in 1..c : Pool!Counted[m] \in F
      BY <2>8 DEF EntriesInv
    <3>2. \A m \in 1..c : queries'[Pool!Counted'[m]] = queries[Pool!Counted[m]]
      BY <2>8, <3>1, <1>1, <1>3
    <3>3. queries'[Pool!Counted'[c + 1]] = r
      BY <2>8, <1>1
    <3>4. /\ DOMAIN Pool!Entries = 1..c /\ DOMAIN Pool!Entries' = (1..c) \cup {c + 1}
      BY <2>8 DEF Pool!Entries
    <3>5. ASSUME NEW m \in 1..c PROVE Pool!Entries'[m] = Pool!Entries[m]
      BY <2>8, <3>2 DEF Pool!Entries
    <3>6. Pool!Entries'[c + 1] = e
      BY <2>8, <3>3 DEF Pool!Entries
    <3> QED
      BY <3>4, <3>5, <3>6
  <2>11. \A m \in 1..c : Pool!Counted[m] \in F /\ Pool!Counted[m] \in DOMAIN queries
    BY <2>8, <1>3 DEF EntriesInv
  <2>12. /\ \A m \in 1..c : Pool!Counted'[m] \in Pool!First'
         /\ Pool!Counted'[c + 1] \in Pool!First'
    BY <2>1, <2>8, <2>11
  <2>13. {Pool!Entries'[m].job : m \in DOMAIN Pool!Entries'} = Listed'
    <3>1. {Pool!Entries[m].job : m \in 1..c} = Listed
      BY <2>10 DEF EntriesInv
    <3>2. {Pool!Entries'[m].job : m \in (1..c) \cup {c + 1}} = {Pool!Entries[m].job : m \in 1..c} \cup {r.job}
      <4>1. PICK s, t : s = Pool!Entries /\ t = Pool!Entries'
        OBVIOUS
      <4>2. (\A m \in 1..c : t[m] = s[m]) /\ t[c + 1].job = r.job
        BY <4>1, <2>10
      <4>4. ASSUME NEW x
            PROVE  x \in {Pool!Entries'[m].job : m \in (1..c) \cup {c + 1}}
                     <=> x \in {Pool!Entries[m].job : m \in 1..c} \cup {r.job}
        <5>1. x \in {Pool!Entries'[m].job : m \in (1..c) \cup {c + 1}}
                <=> \E m \in (1..c) \cup {c + 1} : x = t[m].job
          BY <4>1
        <5>2. x \in {Pool!Entries[m].job : m \in 1..c} \cup {r.job}
                <=> (\E m \in 1..c : x = s[m].job) \/ x = r.job
          BY <4>1
        <5> QED
          BY <4>2, <5>1, <5>2
      <4> QED
        BY <4>4
    <3> QED
      BY <3>1, <3>2, <2>10, <1>2
  <2>14. EntriesInv'
    BY <2>8, <2>12, <2>13 DEF EntriesInv
  <2>15. \A m \in 1..c : Pool!Entries[m] \in E
    <3> SUFFICES ASSUME NEW m \in 1..c PROVE Pool!Entries[m] \in E
      OBVIOUS
    <3>1. queries[Pool!Counted[m]] \in Pool!Record
      BY <1>1, <2>11, Element
    <3>2. Pool!Entries[m] = [job |-> queries[Pool!Counted[m]].job,
                             outcome |-> queries[Pool!Counted[m]].outcome]
      BY <2>8 DEF Pool!Entries
    <3> QED
      BY <3>1, <3>2 DEF Pool!Record
  <2>16. Pool!Entries' = Append(Pool!Entries, e)
    <3>1. PICK s : s = Pool!Entries
      OBVIOUS
    <3>2. PICK t : t = Pool!Entries'
      OBVIOUS
    <3>3. DOMAIN s = 1..c /\ s = [m \in 1..c |-> s[m]] /\ \A m \in 1..c : s[m] \in E
      BY <3>1, <2>8, <2>15 DEF Pool!Entries
    <3>4. s \in Seq(E) /\ Len(s) = c
      <4>1. c \in Nat
        BY <1>3
      <4> HIDE DEF E, e
      <4> QED
        BY <4>1, <3>3, IsSequence
    <3>5. DOMAIN t = 1..(c + 1) /\ t = [m \in 1..(c + 1) |-> t[m]] /\ \A m \in 1..(c + 1) : t[m] \in E
      <4>1. t = [m \in DOMAIN t |-> t[m]]
        BY <3>2 DEF Pool!Entries
      <4>2. DOMAIN t = 1..(c + 1)
        BY <3>2, <2>10, <1>3
      <4>3. \A m \in 1..(c + 1) : t[m] \in E
        BY <3>2, <2>9, <2>10, <2>15, <1>3
      <4> QED
        BY <4>1, <4>2, <4>3
    <3>6. t \in Seq(E)
      BY <3>5, <1>3, IsSequence, c + 1 \in Nat
    <3>7. DOMAIN t = DOMAIN s \cup {Len(s) + 1} /\ (\A i \in DOMAIN s : t[i] = s[i]) /\ t[Len(s) + 1] = e
      BY <3>1, <3>2, <3>3, <3>4, <2>10
    <3>8. t = Append(s, e)
      BY <3>4, <3>6, <3>7, <2>9, AppendIs
    <3> QED
      BY <3>1, <3>2, <3>8
  <2>17. r.job \notin Listed
    <3> SUFFICES ASSUME r.job \in Listed PROVE FALSE
      OBVIOUS
    <3>1. PICK i \in DOMAIN queries : queries[i].job = r.job
      BY DEF Listed
    <3>2. Ordered(queries') /\ i \in DOMAIN queries' /\ n \in DOMAIN queries' /\ i < n
      BY <1>1 DEF PoolInv, OrderInv
    <3>3. Before(queries'[i], queries'[n])
      BY <3>2 DEF Ordered
    <3> QED
      BY <3>1, <3>3, <1>1, <1>9 DEF Before
  <2> QED
    BY <2>14, <2>16, <2>17
<1> QED
  BY <1>8, <1>9

-----------------------------------------------------------------------------
(* Both runners fill the report of ScanReport.                              *)

LEMMA RecordedIs ==
  /\ mode = "sequential" => Report!Recorded = Listed
  /\ mode = "parallel" /\ EntriesInv => Report!Recorded = Listed
<1>1. CASE mode = "sequential"
  BY <1>1 DEF Report!Recorded, Listed
<1>2. CASE mode = "parallel"
  BY <1>2 DEF Report!Recorded, EntriesInv
<1> QED
  BY <1>1, <1>2

\* A turn of run_seq appends its entry, or is given up
LEMMA SerialSimulates ==
  ASSUME mode = "sequential", SerialInv, Serial!Next, UNCHANGED mode
  PROVE  [Report!Next]_Report!vars
<1>1. Report!Recorded = Listed /\ Listed \subseteq Serial!Job /\ Serial!Job = Pool!Job
  BY RecordedIs, ListedJobs DEF SerialInv, Serial!Job, Pool!Job
<1>2. mode' = "sequential"
  OBVIOUS
<1>3. CASE Serial!NextTarget /\ job < NumTargets
  BY <1>2, <1>3 DEF Report!vars, Serial!NextTarget, Serial!Status
<1>4. CASE Serial!NextTarget /\ ~(job < NumTargets)
  <2>1. Listed \cup dropped = Pool!Job
    <3>1. job = NumTargets
      BY <1>4, RunnerAssumption DEF SerialInv, Serial!TypeOK
    <3> QED
      BY <1>1, <1>4, <3>1 DEF SerialInv, Serial!TypeOK, Serial!NextTarget, Serial!Job
  <2>2. Report!Complete
    BY <2>1, <1>1, <1>2, <1>4 DEF Report!Complete, Serial!NextTarget, Serial!Status
  <2> QED
    BY <2>2 DEF Report!Next
<1>5. CASE Serial!Scanned
  <2>1. PICK o \in Serial!Outcome : queries' = Append(queries, [job |-> job, outcome |-> o])
    BY <1>5 DEF Serial!Scanned
  <2>2. job \in Pool!Job /\ o \in Pool!Outcome /\ job \notin Listed \cup dropped
    BY <1>1, <1>5 DEF SerialInv, Serial!Scanned, Serial!Outcome, Pool!Outcome
  <2>3. Report!Record(job, o)
    BY <2>1, <2>2, <1>1, <1>2, <1>5 DEF Report!Record, Serial!Scanned, Serial!Status
  <2> QED
    BY <2>2, <2>3 DEF Report!Next
<1>6. CASE Serial!Saved
  BY <1>2, <1>6 DEF Report!vars, Serial!Saved, Serial!Status
<1>7. CASE Serial!CutShort /\ at = "scan"
  <2>1. job \in Pool!Job /\ job \notin Listed \cup dropped
    BY <1>1, <1>7 DEF SerialInv
  <2>2. Report!Drop(job)
    BY <2>1, <1>1, <1>2, <1>7 DEF Report!Drop, Serial!CutShort, Serial!Status
  <2> QED
    BY <2>1, <2>2 DEF Report!Next
<1>8. CASE Serial!CutShort /\ at # "scan"
  BY <1>2, <1>8 DEF Report!vars, Serial!CutShort, Serial!Status
<1>9. CASE Serial!InterruptedOutside
  <2>1. Report!Stop
    BY <1>2, <1>9 DEF Report!Stop, Serial!InterruptedOutside, Serial!Status
  <2> QED
    BY <2>1 DEF Report!Next
<1> QED
  BY <1>3, <1>4, <1>5, <1>6, <1>7, <1>8, <1>9 DEF Serial!Next

\* Every target has its record when there are as many records as targets and none is
\* that of an interrupt
LEMMA ListFull ==
  ASSUME PoolInv, interrupts = 0, Len(queries) = NumTargets
  PROVE  Listed = Pool!Job
<1>1. /\ queries \in Seq(Pool!Record) /\ DOMAIN queries = 1..NumTargets /\ NumTargets \in Nat
  BY RunnerAssumption DEF PoolInv, Pool!TypeOK
<1>2. \A i \in DOMAIN queries : queries[i] \in Pool!Record /\ queries[i].job \in Pool!Job
  <2>1. \A i \in DOMAIN queries : queries[i] \in Pool!Record
    BY <1>1, Element
  <2> QED
    BY <2>1 DEF Pool!Record
<1>3. Listed \subseteq Pool!Job
  BY <1>2 DEF Listed
<1>4. \A i, k \in DOMAIN queries : queries[i].job = queries[k].job => i = k
  <2>1. \A r \in RecordsOf(queries) : r.outcome # "interrupt"
    BY InRecords DEF PoolInv, CalmInv
  <2>2. DOMAIN queries \subseteq Int
    BY <1>1
  <2> QED
    BY <2>1, <2>2, CalmQueue DEF PoolInv, OrderInv
<1>5. ASSUME NEW j \in Pool!Job, j \notin Listed PROVE FALSE
  <2> DEFINE f == [i \in 1..NumTargets |-> queries[i].job]
  <2>1. f \in [1..NumTargets -> Pool!Job \ {j}]
    BY <1>1, <1>2, <1>5 DEF Listed
  <2>2. IsFiniteSet(1..NumTargets) /\ Cardinality(1..NumTargets) = NumTargets
    <3>1. /\ IsFiniteSet(1..NumTargets)
          /\ Cardinality(1..NumTargets) = IF 1 > NumTargets THEN 0 ELSE NumTargets - 1 + 1
      BY <1>1, FS_Interval
    <3> QED
      BY <1>1, <3>1
  <2>3. IsFiniteSet(Pool!Job \ {j}) /\ Cardinality(Pool!Job \ {j}) = NumTargets - 1
    BY <2>2, FS_RemoveElement DEF Pool!Job
  <2>4. \E i, k \in 1..NumTargets : i # k /\ f[i] = f[k]
    <3> HIDE DEF f
    <3> QED
      BY <1>1, <2>1, <2>2, <2>3, FS_PigeonHole
  <2> QED
    BY <2>4, <1>1, <1>4
<1> QED
  BY <1>3, <1>5

LEMMA SameEntries ==
  ASSUME UNCHANGED queries
  PROVE  UNCHANGED <<Pool!Entries, Listed>> /\ (EntriesInv => EntriesInv')
<1>1. \A i : Pool!Again(i)' = Pool!Again(i)
  BY DEF Pool!Again
<1>2. Pool!First' = Pool!First
  BY <1>1 DEF Pool!First
<1>3. Pool!Counted' = Pool!Counted
  BY <1>2 DEF Pool!Counted, Pool!Nth
<1> QED
  <2>1. Pool!Entries' = Pool!Entries
    BY <1>3 DEF Pool!Entries
  <2>2. Listed' = Listed
    BY DEF Listed
  <2> QED
    BY <1>2, <1>3, <2>1, <2>2 DEF EntriesInv

\* The pool's list: what is collected is an entry or a repetition, the end of the loop
\* is the end of the report
LEMMA PoolSimulates ==
  ASSUME mode = "parallel", PoolInv, EntriesInv, Pool!Next, UNCHANGED mode
  PROVE  [Report!Next]_Report!vars /\ EntriesInv'
<1>1. PoolInv'
  BY PoolStep
<1>2. mode' = "parallel" /\ Report!Recorded = Listed
  BY RecordedIs
<1>3. UNCHANGED queries => UNCHANGED Pool!Entries /\ EntriesInv'
  BY SameEntries
<1>4. CASE UNCHANGED <<queries, parent, interrupts>>
  BY <1>2, <1>3, <1>4 DEF Report!vars, Pool!Status
<1>5. CASE Pool!Put
  BY <1>2, <1>3, <1>5 DEF Report!vars, Pool!Status, Pool!Put, Pool!Ended
<1>6. CASE Pool!Interrupt
  BY <1>2, <1>3, <1>6 DEF Report!vars, Pool!Status, Pool!Interrupt, Pool!Running
<1>7. CASE Pool!ParentInterrupted
  <2>1. Report!Stop
    BY <1>2, <1>3, <1>7 DEF Report!Stop, Pool!Status, Pool!ParentInterrupted, Pool!Running, Pool!Ended
  <2> QED
    BY <2>1, <1>3, <1>7 DEF Report!Next, Pool!ParentInterrupted
<1>8. CASE Pool!Collect /\ Len(queries) < NumTargets
  <2>1. parent = "get" /\ queue_out # <<>> /\ UNCHANGED interrupts
    BY <1>8, RunnerAssumption DEF Pool!Collect, PoolInv, Pool!TypeOK
  <2>2. CASE Head(queue_out).wire = "ok"
    <3>1. PICK r \in Pool!Record : r = Head(queue_out)
      BY <2>1, RecordTypes, HeadAndTail DEF PoolInv
    <3>2. queries' = Append(queries, r) /\ UNCHANGED parent
      BY <1>8, <2>2, <3>1, RunnerAssumption DEF Pool!Collect, PoolInv, Pool!TypeOK
    <3>3. /\ EntriesInv'
          /\ \/ UNCHANGED Pool!Entries
             \/ /\ Pool!Entries' = Append(Pool!Entries, [job |-> r.job, outcome |-> r.outcome])
                /\ r.job \notin Listed
      BY <1>1, <3>2, EntryAppended
    <3>4. CASE UNCHANGED Pool!Entries
      BY <1>2, <2>1, <3>2, <3>3, <3>4 DEF Report!vars, Pool!Status
    <3>5. CASE /\ Pool!Entries' = Append(Pool!Entries, [job |-> r.job, outcome |-> r.outcome])
               /\ r.job \notin Listed
      <4>1. Report!Record(r.job, r.outcome)
        BY <1>2, <2>1, <3>2, <3>5 DEF Report!Record, Pool!Status, Pool!Ended
      <4>2. r.job \in Pool!Job /\ r.outcome \in Pool!Outcome
        BY DEF Pool!Record
      <4> QED
        BY <3>3, <4>1, <4>2 DEF Report!Next
    <3> QED
      BY <3>3, <3>4, <3>5
  <2>3. CASE Head(queue_out).wire # "ok"
    <3>1. UNCHANGED queries /\ parent' = "failed"
      BY <1>8, <2>3, RunnerAssumption DEF Pool!Collect, PoolInv, Pool!TypeOK
    <3>2. Report!Stop
      BY <1>2, <1>3, <2>1, <3>1 DEF Report!Stop, Pool!Status, Pool!Ended
    <3> QED
      BY <1>3, <3>1, <3>2 DEF Report!Next
  <2> QED
    BY <2>2, <2>3
<1>9. CASE Pool!Collect /\ ~(Len(queries) < NumTargets)
  <2>1. /\ parent = "get" /\ parent' = "complete" /\ Len(queries) = NumTargets
        /\ UNCHANGED <<queries, interrupts>>
    BY <1>9 DEF Pool!Collect
  <2>2. CASE interrupts = 0
    <3>1. Listed = Pool!Job
      BY <2>1, <2>2, ListFull
    <3>2. Report!Complete
      BY <1>2, <1>3, <2>1, <2>2, <3>1 DEF Report!Complete, Pool!Status, Pool!Ended
    <3> QED
      BY <1>3, <2>1, <3>2 DEF Report!Next
  <2>3. CASE interrupts > 0
    <3>1. Report!Stop
      BY <1>2, <1>3, <2>1, <2>3 DEF Report!Stop, Pool!Status, Pool!Ended
    <3> QED
      BY <1>3, <2>1, <3>1 DEF Report!Next
  <2>4. interrupts \in Nat
    BY RunnerAssumption DEF PoolInv, Pool!TypeOK
  <2> QED
    BY <2>2, <2>3, <2>4
<1>10. ASSUME NEW w \in Worker, Pool!WorkerStep(w) \/ Pool!Die(w)
       PROVE  UNCHANGED <<queries, parent, interrupts>>
  BY <1>10 DEF Pool!WorkerStep, Pool!Die, Pool!Take, Pool!Scanned, Pool!Feed, Pool!Respawn,
               Pool!WorkerInterrupted
<1> QED
  BY <1>4, <1>5, <1>6, <1>7, <1>8, <1>9, <1>10 DEF Pool!Next

-----------------------------------------------------------------------------
(* The theorems.                                                            *)

LEMMA RunnerInit == Init => RunnerInv /\ (mode = "parallel" => EntriesInv) /\ Report!Init
<1> SUFFICES ASSUME Init PROVE RunnerInv /\ (mode = "parallel" => EntriesInv) /\ Report!Init
  OBVIOUS
<1>1. mode \in Modes /\ Serial!Init /\ Pool!Init
  BY DEF Init, Modes
<1>2. RunnerInv
  BY <1>1, SerialInit, PoolInit DEF RunnerInv
<1>3. DOMAIN queries = {}
  BY <1>1 DEF Pool!Init
<1>4. DOMAIN Pool!Counted = {} /\ Pool!Entries = <<>>
  <2>1. Pool!First = {}
    BY <1>3 DEF Pool!First
  <2>2. DOMAIN Pool!Counted = 1..0
    BY <2>1, Numbered, FS_EmptySet DEF Numbering
  <2>3. DOMAIN Pool!Counted = {}
    BY <2>2
  <2> QED
    BY <2>3 DEF Pool!Entries
<1>5. EntriesInv
  BY <1>3, <1>4 DEF EntriesInv, Listed
<1>6. Report!Init
  BY <1>1, <1>4 DEF Report!Init, Modes, Serial!Init, Pool!Init, Serial!Status, Pool!Status, Pool!Ended
<1> QED
  BY <1>2, <1>5, <1>6

LEMMA RunnerStep ==
  ASSUME RunnerInv, mode = "parallel" => EntriesInv, [Next]_vars
  PROVE  /\ RunnerInv' /\ (mode = "parallel" => EntriesInv)'
         /\ [Report!Next]_Report!vars
<1>1. CASE Sequential(Serial!Next)
  <2>1. mode = "sequential" /\ UNCHANGED mode /\ SerialInv /\ Serial!Next
    BY <1>1 DEF Sequential, RunnerInv
  <2> QED
    BY <2>1, SerialStep, SerialSimulates DEF RunnerInv
<1>2. CASE Parallel(Pool!Next)
  <2>1. mode = "parallel" /\ UNCHANGED mode /\ PoolInv /\ Pool!Next
    BY <1>2 DEF Parallel, RunnerInv
  <2> QED
    BY <2>1, PoolStep, PoolSimulates DEF RunnerInv
<1>3. CASE UNCHANGED vars
  <2>1. UNCHANGED <<mode, queries, job, at, dropped, sent, taken, worker, outbox, queue_out,
                    parent, signalled, interrupts, deaths, abandoned, lost>>
    BY <1>3 DEF vars
  <2>2. SerialInv => SerialInv'
    BY <2>1 DEF SerialInv, Serial!TypeOK, Listed
  <2>3. PoolInv => PoolInv'
    <3>1. Records' = Records /\ (OrderInv => OrderInv')
      BY <2>1, SameRecords
    <3>2. Pool!TypeOK => Pool!TypeOK'
      BY <2>1 DEF Pool!TypeOK
    <3>3. (OwnerInv => OwnerInv') /\ (CoverInv => CoverInv') /\ (CalmInv => CalmInv')
      BY <2>1, <3>1 DEF OwnerInv, CoverInv, CalmInv, Scanning, HasRecord
    <3> QED
      BY <3>1, <3>2, <3>3 DEF PoolInv
  <2>4. UNCHANGED Pool!Entries /\ (EntriesInv => EntriesInv')
    BY <2>1, SameEntries
  <2>5. UNCHANGED Report!vars
    BY <2>1, <2>4 DEF Report!vars, Serial!Status, Pool!Status
  <2> QED
    BY <2>1, <2>2, <2>3, <2>4, <2>5 DEF RunnerInv
<1> QED
  BY <1>1, <1>2, <1>3 DEF Next

LEMMA RunnerInvariant == Spec => []RunnerInv
<1>1. RunnerInv /\ (mode = "parallel" => EntriesInv) /\ [Next]_vars
      => (RunnerInv /\ (mode = "parallel" => EntriesInv))'
  BY RunnerStep
<1> QED
  BY RunnerInit, <1>1, PTL DEF Spec

\* The list, the queues, the buffers, the workers and the parent of run_parra and the
\* turns of run_seq have the types the code gives them; the parent never collects more
\* records than there are targets
THEOREM TypeCorrect == Spec => []TypeOK
<1>1. RunnerInv => TypeOK
  BY SerialImplies DEF RunnerInv, PoolInv, Modes, TypeOK
<1> QED
  BY RunnerInvariant, <1>1, PTL

\* run_seq lists targets in the order of the configuration, each at most once, and what
\* it does not list is what it gave up during the scan
THEOREM SerialInOrder == Spec => []InOrderAndAccounted
<1>1. RunnerInv => InOrderAndAccounted
  BY SerialImplies DEF RunnerInv, InOrderAndAccounted
<1> QED
  BY RunnerInvariant, <1>1, PTL

\* Until the user interrupts it or a record breaks its loop, run_parra has every target
\* that was taken from queue_in in exactly one place: with a worker, in the buffer of one
\* feeder thread, in the pipe, in the list, or lost with the worker or the pickling
THEOREM TargetsAccounted == Spec => []Accounted
<1>1. RunnerInv => Accounted
  BY PoolAccounted DEF RunnerInv, Accounted
<1> QED
  BY RunnerInvariant, <1>1, PTL

\* When the parent blocks in queue_out.get for a record that nobody will put, the record
\* of some target has been lost
THEOREM WaitsForLost == Spec => []WaitsOnlyForLost
<1>1. RunnerInv => WaitsOnlyForLost
  BY PoolWaitsOnlyForLost DEF RunnerInv, WaitsOnlyForLost
<1> QED
  BY RunnerInvariant, <1>1, PTL

\* Two records of one target in the parent's list are its own and then the one an
\* interrupted worker put for the last target it remembers, in this order
THEOREM RealFirst == Spec => []RealRecordFirst
<1>1. RunnerInv => RealRecordFirst
  BY PoolRealRecordFirst DEF RunnerInv, RealRecordFirst
<1> QED
  BY RunnerInvariant, <1>1, PTL

\* Both runners fill one report: an entry for a target that has none, a target given up
\* for good, completion when every target is one or the other, or an early end
THEOREM Implements == Spec => ImplementsReport
<1>1. RunnerInv /\ (mode = "parallel" => EntriesInv) /\ [Next]_vars
      => /\ (RunnerInv /\ (mode = "parallel" => EntriesInv))'
         /\ [Report!Next]_Report!vars
  BY RunnerStep
<1> QED
  BY RunnerInit, <1>1, PTL DEF Spec, ImplementsReport, Report!Spec
=============================================================================
