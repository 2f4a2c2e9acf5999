------------------------------- MODULE Runner -------------------------------
(***************************************************************************)
(* The scan command's choice of a runner (cli/scan.py: scan): the targets  *)
(* are scanned by run_seq in the process itself, or by run_parra with a    *)
(* pool of worker processes.  Either way a list of queries comes back.     *)
(***************************************************************************)
EXTENDS Naturals, Sequences

CONSTANTS Worker, NumTargets, MaxInterrupts, MaxDeaths, Wires   \* see WorkerPool

VARIABLES
  mode,                                \* which runner scan has chosen
  queries,                             \* the list of records, in both runners
  job, at, dropped,                    \* run_seq
  sent, taken, worker, outbox, queue_out, parent, signalled,
  interrupts, deaths, abandoned, lost             \* run_parra

ASSUME RunnerAssumption ==
  /\ NumTargets \in Nat \ {0}     \* main refuses to scan without targets
  /\ MaxInterrupts \in Nat /\ MaxDeaths \in Nat
  /\ Wires \subseteq {"ok", "unpicklable", "unloadable"}
  /\ Worker # {}

seqVars == <<job, at, dropped>>
poolVars == <<sent, taken, worker, outbox, queue_out, parent, signalled, interrupts, deaths,
              abandoned, lost>>
vars == <<mode, queries, job, at, dropped, sent, taken, worker, outbox, queue_out, parent,
          signalled, interrupts, deaths, abandoned, lost>>

Serial == INSTANCE SequentialRun
Pool == INSTANCE WorkerPool

Modes == {"sequential", "parallel"}

\* "if synchronous_only or num_targets == 1"
Init ==
  /\ mode \in IF NumTargets = 1 THEN {"sequential"} ELSE Modes
  /\ Serial!Init
  /\ Pool!Init

Sequential(Step) == mode = "sequential" /\ Step /\ UNCHANGED mode /\ UNCHANGED poolVars
Parallel(Step) == mode = "parallel" /\ Step /\ UNCHANGED mode /\ UNCHANGED seqVars

Next ==
  \/ Sequential(Serial!Next)
  \/ Parallel(Pool!Next)

(* The scanning process, parent, workers and feeder threads run, and scans  *)
(* end: servers are taken to answer or to close, since a handshake on a     *)
(* blocking socket and a request of the session have no limit.  Nothing     *)
(* obliges anybody to die, or the user to press Ctrl+C.                     *)
Fairness ==
  /\ WF_vars(Sequential(Serial!NextTarget))
  /\ WF_vars(Sequential(Serial!Scanned))
  /\ WF_vars(Sequential(Serial!Saved))
  /\ WF_vars(Parallel(Pool!Put))
  /\ WF_vars(Parallel(Pool!Collect))
  /\ WF_vars(Parallel(Pool!ParentInterrupted))
  /\ \A w \in Worker : WF_vars(Parallel(Pool!Take(w))) /\ WF_vars(Parallel(Pool!Scanned(w)))
                       /\ WF_vars(Parallel(Pool!Feed(w))) /\ WF_vars(Parallel(Pool!Respawn(w)))
                       /\ WF_vars(Parallel(Pool!WorkerInterrupted(w)))

Spec == Init /\ [][Next]_vars /\ Fairness

-----------------------------------------------------------------------------
TypeOK == IF mode = "sequential" THEN Serial!TypeOK ELSE mode = "parallel" /\ Pool!TypeOK

(* run_seq lists targets in the order of the configuration, each at most    *)
(* once, and lacks exactly those whose turn was cut short during the scan.  *)
InOrderAndAccounted == mode = "sequential" => Serial!InOrderAndAccounted

(* run_parra: until Ctrl+C or a failure of the parent every target that has *)
(* left queue_in is in exactly one place.                                   *)
Accounted == mode = "parallel" => Pool!Accounted

(* run_parra's parent only ever waits for good when a record was lost or a  *)
(* killed worker's lock is in the way of targets or records.                *)
WaitsOnlyForLost == mode = "parallel" => Pool!WaitsOnlyForLost

(* run_parra: a second record of a target is that of an interrupted worker, *)
(* and never comes ahead of the real one.                                   *)
RealRecordFirst == mode = "parallel" => Pool!RealRecordFirst

(* The command gets its list, or fails, unless a record was lost or a       *)
(* worker was killed with a lock the others still need.                     *)
EndsUnlessLost ==
  <>(\/ at \in {"returned", "failed"} \/ parent \in Pool!Ended
     \/ lost # {} \/ Pool!TargetsLocked \/ "write" \in abandoned)

(* Both runners keep the promise of ScanReport.  Only the sequential one    *)
(* drops targets: the pool's complete report has them all.                  *)
Report == INSTANCE ScanReport WITH
  Job <- Pool!Job,
  Outcome <- Pool!Outcome,
  entries <- IF mode = "sequential" THEN queries ELSE Pool!Entries,
  dropped <- IF mode = "sequential" THEN dropped ELSE {},
  status <- IF mode = "sequential" THEN Serial!Status ELSE Pool!Status,
  Lossy <- TRUE

ImplementsReport == Report!Spec
=============================================================================
