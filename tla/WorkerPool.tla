------------------------------ MODULE WorkerPool ------------------------------
(***************************************************************************)
(* The parallel runner: run_parra puts every target on queue_in, a pool of *)
(* processes whose initializer is wrap_trivialscan takes them from there   *)
(* and puts one record per target on queue_out, and the parent collects    *)
(* exactly as many records as there are targets.                           *)
(*                                                                         *)
(* A multiprocessing.Queue hands what is put on it to a feeder thread of   *)
(* the putting process, which pickles it and writes it to the pipe: a      *)
(* record that cannot be pickled is dropped there, one that cannot be      *)
(* rebuilt raises in the parent's get(), and one still in the buffer dies  *)
(* with its process.  The pool replaces workers that die, but the locks a  *)
(* queue is read and written under stay with a process that was killed.    *)
(***************************************************************************)
EXTENDS Naturals, Sequences, FiniteSets

CONSTANTS
  Worker,         \* slots of the pool (cpu_count of them)
  NumTargets,     \* len(config["targets"])
  MaxInterrupts,  \* bound: how often the user presses Ctrl+C
  MaxDeaths,      \* bound: how many workers are killed (out of memory, crash)
  Wires           \* what pickling can do to a record, see Wire

Job == 1..NumTargets
NoJob == 0

\* "ok", "unpicklable" (dropped by the feeder) or "unloadable" (pickles, but
\* cannot be rebuilt in the parent: exceptions with their own constructor)
Wire == {"ok", "unpicklable", "unloadable"}

Outcome == {"result", "error", "interrupt"}
Record == [job : Job, outcome : Outcome, wire : Wire]

VARIABLES
  sent,       \* targets put on queue_in so far (in order)
  taken,      \* targets taken from it: queue_in holds taken+1..sent
  worker,     \* per slot: where it is and the value of its variable "target"
  outbox,     \* per slot: the buffer of queue_out's feeder thread
  queue_out,  \* the records in the pipe
  queries,    \* the records the parent collected
  parent,     \* where the parent is
  signalled,  \* processes with a SIGINT they have not acted on
  interrupts, \* number of Ctrl+C so far
  deaths,     \* number of workers killed so far
  abandoned,  \* locks held by a worker that was killed, see Lock
  lost        \* targets whose only record was lost or never made (history)

vars == <<sent, taken, worker, outbox, queue_out, queries, parent, signalled,
          interrupts, deaths, abandoned, lost>>

\* queue_in's reader lock and queue_out's writer lock, shared by all workers
Lock == {"read", "write"}

Parent == "parent"
Ended == {"complete", "cancelled", "failed"}

\* "get": blocked in or about to call queue_in.get; "scan": running
\* trivialscan and saving its results; "left": wrap_trivialscan has returned
\* and the process waits for pool tasks that never come; "dead".
WorkerState == [at : {"get", "scan", "left", "dead"}, target : Job \cup {NoJob}]

TypeOK ==
  /\ sent \in 0..NumTargets
  /\ taken \in 0..sent
  /\ worker \in [Worker -> WorkerState]
  /\ outbox \in [Worker -> Seq(Record)]
  /\ queue_out \in Seq(Record)
  /\ queries \in Seq(Record)
  /\ Len(queries) <= NumTargets
  /\ parent \in {"put", "get"} \cup Ended
  /\ signalled \subseteq Worker \cup {Parent}
  /\ interrupts \in 0..MaxInterrupts
  /\ deaths \in 0..MaxDeaths
  /\ abandoned \subseteq Lock
  /\ lost \subseteq Job

-----------------------------------------------------------------------------
Init ==
  /\ sent = 0
  /\ taken = 0
  /\ worker = [w \in Worker |-> [at |-> "get", target |-> NoJob]]
  /\ outbox = [w \in Worker |-> <<>>]
  /\ queue_out = <<>>
  /\ queries = <<>>
  /\ parent = "put"
  /\ signalled = {}
  /\ interrupts = 0
  /\ deaths = 0
  /\ abandoned = {}
  /\ lost = {}

(* The pool lives until the parent leaves its loop and terminates it.       *)
Running == parent \notin Ended

(* Mutant: one target too many.                                             *)
PutTooMany ==
  /\ parent = "put"
  /\ IF sent <= NumTargets
     THEN sent' = sent + 1 /\ UNCHANGED parent
     ELSE parent' = "get" /\ UNCHANGED sent
  /\ UNCHANGED <<taken, worker, outbox, queue_out, queries, signalled,
                 interrupts, deaths, abandoned, lost>>

(* queue_in.put(target), for every target in turn.                          *)
Put ==
  /\ parent = "put"
  /\ IF sent < NumTargets
     THEN sent' = sent + 1 /\ UNCHANGED parent
     ELSE parent' = "get" /\ UNCHANGED sent
  /\ UNCHANGED <<taken, worker, outbox, queue_out, queries, signalled,
                 interrupts, deaths, abandoned, lost>>

(* Mutant: the parent stops one record early.                               *)
CollectEarly ==
  /\ parent = "get"
  /\ \/ /\ Len(queries) < NumTargets - 1
        /\ queue_out # <<>>
        /\ queue_out' = Tail(queue_out)
        /\ IF Head(queue_out).wire = "ok"
           THEN queries' = Append(queries, Head(queue_out)) /\ UNCHANGED parent
           ELSE parent' = "failed" /\ UNCHANGED queries
     \/ /\ Len(queries) >= NumTargets - 1
        /\ parent' = "complete"
        /\ UNCHANGED <<queue_out, queries>>
  /\ UNCHANGED <<sent, taken, worker, outbox, signalled, interrupts, deaths,
                 abandoned, lost>>

(* queries.append(queue_out.get()), num_targets times; then the pool is     *)
(* closed and terminated.  An exception from get() is not caught: the       *)
(* finally clause terminates the pool and the collected records are gone.   *)
Collect ==
  /\ parent = "get"
  /\ \/ /\ Len(queries) < NumTargets
        /\ queue_out # <<>>
        /\ queue_out' = Tail(queue_out)
        /\ IF Head(queue_out).wire = "ok"
           THEN queries' = Append(queries, Head(queue_out)) /\ UNCHANGED parent
           ELSE parent' = "failed" /\ UNCHANGED queries
     \/ /\ Len(queries) = NumTargets
        /\ parent' = "complete"
        /\ UNCHANGED <<queue_out, queries>>
  /\ UNCHANGED <<sent, taken, worker, outbox, signalled, interrupts, deaths,
                 abandoned, lost>>

(* KeyboardInterrupt in the parent: terminate the workers, return what has  *)
(* been collected.                                                          *)
ParentInterrupted ==
  /\ Running
  /\ Parent \in signalled
  /\ parent' = "cancelled"
  /\ signalled' = signalled \ {Parent}
  /\ UNCHANGED <<sent, taken, worker, outbox, queue_out, queries, interrupts,
                 deaths, abandoned, lost>>

(* "for target in iter(queue_in.get, None)": get() waits for queue_in's     *)
(* reader lock and, while it holds that, for a target.                      *)
Take(w) ==
  /\ Running
  /\ worker[w].at = "get"
  /\ "read" \notin abandoned
  /\ taken < sent
  /\ taken' = taken + 1
  /\ worker' = [worker EXCEPT ![w] = [at |-> "scan", target |-> taken + 1]]
  /\ UNCHANGED <<sent, outbox, queue_out, queries, parent, signalled,
                 interrupts, deaths, abandoned, lost>>

(* Mutants: a failure in save_partial, after queue_out.put, adds an error   *)
(* record to the result; a failed scan adds no record.                      *)
ScannedTwice(w) ==
  /\ Running
  /\ worker[w].at = "scan"
  /\ \E x \in Wires :
       outbox' = [outbox EXCEPT ![w] = @ \o
         <<[job |-> worker[w].target, outcome |-> "result", wire |-> x],
           [job |-> worker[w].target, outcome |-> "error", wire |-> x]>>]
  /\ worker' = [worker EXCEPT ![w].at = "get"]
  /\ UNCHANGED <<sent, taken, queue_out, queries, parent, signalled,
                 interrupts, deaths, abandoned, lost>>

ScannedSilently(w) ==
  /\ Running
  /\ worker[w].at = "scan"
  /\ \/ UNCHANGED outbox
     \/ \E x \in Wires : outbox' = [outbox EXCEPT ![w] = Append(@,
          [job |-> worker[w].target, outcome |-> "result", wire |-> x])]
  /\ worker' = [worker EXCEPT ![w].at = "get"]
  /\ UNCHANGED <<sent, taken, queue_out, queries, parent, signalled,
                 interrupts, deaths, abandoned, lost>>

(* The scan and saving its partial results succeed and data is put on       *)
(* queue_out, or anything in there raises and an error record is.           *)
Scanned(w) ==
  /\ Running
  /\ worker[w].at = "scan"
  /\ \E o \in {"result", "error"}, x \in Wires :
       outbox' = [outbox EXCEPT ![w] = Append(@,
         [job |-> worker[w].target, outcome |-> o, wire |-> x])]
  /\ worker' = [worker EXCEPT ![w].at = "get"]
  /\ UNCHANGED <<sent, taken, queue_out, queries, parent, signalled,
                 interrupts, deaths, abandoned, lost>>

Sends(w) == outbox[w] # <<>> /\ Head(outbox[w]).wire # "unpicklable"

(* The feeder thread pickles the oldest record and writes it to the pipe    *)
(* under queue_out's writer lock, or prints the pickling error and drops it *)
(* before it asks for the lock.                                             *)
Feed(w) ==
  /\ Running
  /\ worker[w].at # "dead"
  /\ outbox[w] # <<>>
  /\ Sends(w) => "write" \notin abandoned
  /\ outbox' = [outbox EXCEPT ![w] = Tail(@)]
  /\ LET r == Head(outbox[w]) IN
       IF r.wire = "unpicklable"
       THEN lost' = lost \cup {r.job} /\ UNCHANGED queue_out
       ELSE queue_out' = Append(queue_out, r) /\ UNCHANGED lost
  /\ UNCHANGED <<sent, taken, worker, queries, parent, signalled, interrupts, deaths,
                 abandoned>>

(* The process is gone: its variables, what its feeder has not sent and, if *)
(* it was scanning, the target it had taken.                                *)
Gone(w, unsent) ==
  /\ worker' = [worker EXCEPT ![w] = [at |-> "dead", target |-> NoJob]]
  /\ outbox' = [outbox EXCEPT ![w] = <<>>]
  /\ lost' = lost \cup {unsent[i].job : i \in DOMAIN unsent}
               \cup (IF worker[w].at = "scan" THEN {worker[w].target} ELSE {})

(* The locks a worker may hold: the reader's while it waits in get(), one   *)
(* of the idle ones at a time, and until it has let go of it with the       *)
(* target it got last; the writer's while its feeder sends a record.        *)
MayHold(w) ==
  LET got == worker[w].at = "scan" /\ worker[w].target = taken IN
    {l \in Lock \ abandoned :
       IF l = "read" THEN worker[w].at = "get" \/ got ELSE Sends(w)}

(* A worker is killed.  Nobody releases a lock it held, and the record it   *)
(* was sending under the lock may be through.                               *)
Die(w) ==
  /\ Running
  /\ deaths < MaxDeaths
  /\ deaths' = deaths + 1
  /\ worker[w].at # "dead"
  /\ \E held \in SUBSET MayHold(w) :
       /\ abandoned' = abandoned \cup held
       /\ \/ Gone(w, outbox[w]) /\ UNCHANGED queue_out
          \/ /\ "write" \in held
             /\ queue_out' = Append(queue_out, Head(outbox[w]))
             /\ Gone(w, Tail(outbox[w]))
  /\ signalled' = signalled \ {w}
  /\ UNCHANGED <<sent, taken, queries, parent, interrupts>>

(* The pool's handler thread starts a new process in the slot, which runs   *)
(* the initializer again.                                                   *)
Respawn(w) ==
  /\ Running
  /\ worker[w].at = "dead"
  /\ worker' = [worker EXCEPT ![w] = [at |-> "get", target |-> NoJob]]
  /\ UNCHANGED <<sent, taken, outbox, queue_out, queries, parent, signalled,
                 interrupts, deaths, abandoned, lost>>

(* Ctrl+C: the terminal signals the whole process group.                    *)
Interrupt ==
  /\ Running
  /\ interrupts < MaxInterrupts
  /\ interrupts' = interrupts + 1
  /\ signalled' = {Parent} \cup {w \in Worker : worker[w].at # "dead"}
  /\ UNCHANGED <<sent, taken, worker, outbox, queue_out, queries, parent,
                 deaths, abandoned, lost>>

InterruptRecord(w) ==
  [job |-> worker[w].target, outcome |-> "interrupt", wire |-> "ok"]

(* Mutant: the record is put, but the interrupted scan goes on.             *)
WorkerInterruptedGoesOn(w) ==
  /\ Running
  /\ w \in signalled
  /\ signalled' = signalled \ {w}
  /\ IF worker[w].at \in {"get", "scan"} /\ worker[w].target # NoJob
     THEN /\ outbox' = [outbox EXCEPT ![w] = Append(@, InterruptRecord(w))]
          /\ UNCHANGED <<worker, lost>>
     ELSE outbox[w] = <<>> /\ Gone(w, <<>>)
  /\ UNCHANGED <<sent, taken, queue_out, queries, parent, interrupts, deaths,
                 abandoned>>

(* KeyboardInterrupt in a worker.  Inside wrap_trivialscan it puts a record *)
(* for its variable "target", the target it scans or the last one it        *)
(* finished, and returns; before the first target that variable is unbound  *)
(* and the UnboundLocalError, as the interrupt after it has returned, ends  *)
(* the process, which waits for its feeder to send what is buffered.  An    *)
(* exception gives locks back.  During a handshake util.do_handshake        *)
(* swallows it.                                                             *)
WorkerInterrupted(w) ==
  /\ Running
  /\ w \in signalled
  /\ signalled' = signalled \ {w}
  /\ \/ /\ worker[w].at \in {"get", "scan"} /\ worker[w].target # NoJob
        /\ outbox' = [outbox EXCEPT ![w] = Append(@, InterruptRecord(w))]
        /\ worker' = [worker EXCEPT ![w].at = "left"]
        /\ UNCHANGED lost
     \/ /\ worker[w].at = "left" \/ worker[w].target = NoJob
        /\ outbox[w] = <<>>
        /\ Gone(w, <<>>)
     \/ /\ worker[w].at = "scan"
        /\ UNCHANGED <<worker, outbox, lost>>
  /\ UNCHANGED <<sent, taken, queue_out, queries, parent, interrupts, deaths,
                 abandoned>>

WorkerStep(w) ==
  \/ Take(w)
  \/ Scanned(w)
  \/ Feed(w)
  \/ Respawn(w)
  \/ WorkerInterrupted(w)

Next ==
  \/ Put
  \/ Collect
  \/ ParentInterrupted
  \/ Interrupt
  \/ \E w \in Worker : WorkerStep(w) \/ Die(w)

Spec == Init /\ [][Next]_vars

-----------------------------------------------------------------------------
(* The positions at which target j is: scanned by a worker, recorded in a   *)
(* buffer, in the pipe or with the parent, or lost.                         *)
Places(j) ==
  {<<"scan", w>> : w \in {v \in Worker : worker[v].at = "scan" /\ worker[v].target = j}}
  \cup (UNION {{<<"outbox", w, i>> : i \in {k \in DOMAIN outbox[w] : outbox[w][k].job = j}}
                 : w \in Worker})
  \cup {<<"pipe", i>> : i \in {k \in DOMAIN queue_out : queue_out[k].job = j}}
  \cup {<<"queries", i>> : i \in {k \in DOMAIN queries : queries[k].job = j}}
  \cup {<<"lost">> : x \in {y \in {j} : y \in lost}}

(* Until Ctrl+C is pressed or the parent fails, every target that left      *)
(* queue_in is in exactly one place: no interleaving of workers, feeders    *)
(* and deaths duplicates one or makes it vanish unnoticed.                  *)
Accounted ==
  interrupts = 0 /\ parent # "failed" =>
    \A j \in Job : Cardinality(Places(j)) = IF j <= taken THEN 1 ELSE 0

(* A killed worker's lock keeps all others, and those that replace it, from *)
(* the targets still in queue_in, or from sending their records.            *)
TargetsLocked == "read" \in abandoned /\ taken < NumTargets
RecordsLocked == "write" \in abandoned /\ \E w \in Worker : outbox[w] # <<>>

(* Nothing is on its way to the parent: no worker can take a target, none   *)
(* scans, no feeder can send or drop a record, the pipe is empty.           *)
Quiet ==
  /\ taken = NumTargets \/ "read" \in abandoned
  /\ queue_out = <<>>
  /\ \A w \in Worker : /\ worker[w].at # "scan"
                       /\ outbox[w] = <<>> \/ (Sends(w) /\ "write" \in abandoned)
  /\ Parent \notin signalled

(* The parent only ever waits for good when a record was lost, or targets   *)
(* or records are left behind a lock that a killed worker held.             *)
WaitsOnlyForLost ==
  parent = "get" /\ Len(queries) < NumTargets /\ Quiet =>
    lost # {} \/ TargetsLocked \/ RecordsLocked

(* Two records of one target are its own and then that of an interrupt: a   *)
(* worker that is interrupted while idle records its previous target again, *)
(* but never ahead of the real record.                                      *)
RealRecordFirst ==
  \A i, j \in DOMAIN queries :
    i < j /\ queries[i].job = queries[j].job =>
      queries[i].outcome # "interrupt" /\ queries[j].outcome = "interrupt"

(* The records that are entries of the report: not the one an interrupted   *)
(* worker puts for a target that has been recorded before.                  *)
Again(i) ==
  /\ queries[i].outcome = "interrupt"
  /\ \E k \in 1..(i - 1) : queries[k].job = queries[i].job

First == {i \in DOMAIN queries : ~Again(i)}

Nth(n) == {i \in First : Cardinality({k \in First : k <= i}) = n}

Counted == [n \in 1..Cardinality(First) |-> CHOOSE i \in Nth(n) : TRUE]

(* What the collected records make of the report: repeated records of       *)
(* interrupted workers are no entries, and after Ctrl+C it counts as        *)
(* cancelled even if the parent gets its records before it acts on the      *)
(* signal.                                                                  *)
Entries == [n \in DOMAIN Counted |->
              [job |-> queries[Counted[n]].job, outcome |-> queries[Counted[n]].outcome]]

Status ==
  IF parent \notin Ended THEN "running"
  ELSE IF parent = "complete" /\ interrupts > 0 THEN "cancelled"
  ELSE parent
=============================================================================
