---------------------------- MODULE SequentialRun ----------------------------
(***************************************************************************)
(* The sequential runner, run_seq: the targets one after the other in the  *)
(* scanning process itself, each inside a try that logs every exception    *)
(* and goes on with the next target.                                       *)
(***************************************************************************)
EXTENDS Naturals, Sequences

CONSTANT NumTargets

Job == 1..NumTargets
Outcome == {"result", "error"}

VARIABLES
  job,        \* the target of the current turn of the loop
  at,         \* "next", "scan", "save"; "returned" or "failed" at the end
  queries,    \* the entries collected
  dropped     \* targets whose turn ended before queries.append (history)

vars == <<job, at, queries, dropped>>

TypeOK ==
  /\ job \in 0..NumTargets
  /\ at \in {"next", "scan", "save", "returned", "failed"}
  /\ queries \in Seq([job : Job, outcome : Outcome])
  /\ dropped \subseteq Job

Init ==
  /\ job = 0
  /\ at = "next"
  /\ queries = <<>>
  /\ dropped = {}

(* "for target in config.get('targets')"                                    *)
NextTarget ==
  /\ at = "next"
  /\ IF job < NumTargets
     THEN job' = job + 1 /\ at' = "scan"
     ELSE at' = "returned" /\ UNCHANGED job
  /\ UNCHANGED <<queries, dropped>>

(* trivialscan returns a transport, with evaluations or with the error of a *)
(* failed probe, and its data is appended.                                  *)
Scanned ==
  /\ at = "scan"
  /\ \E o \in Outcome : queries' = Append(queries, [job |-> job, outcome |-> o])
  /\ at' = "save"
  /\ UNCHANGED <<job, dropped>>

(* save_partial has written the files of this host and its certificates.    *)
Saved ==
  /\ at = "save"
  /\ at' = "next"
  /\ UNCHANGED <<job, queries, dropped>>

(* Mutant: a target whose results could not be saved gets another turn.     *)
CutShortRetry ==
  /\ at \in {"scan", "save"}
  /\ at' = "next"
  /\ IF at = "scan" THEN dropped' = dropped \cup {job} /\ UNCHANGED job
                    ELSE job' = job - 1 /\ UNCHANGED dropped
  /\ UNCHANGED queries

(* "except Exception" logs and "except KeyboardInterrupt" prints "Operation *)
(* cancelled": both only end the turn.  Before the append it leaves nothing. *)
CutShort ==
  /\ at \in {"scan", "save"}
  /\ at' = "next"
  /\ dropped' = IF at = "scan" THEN dropped \cup {job} ELSE dropped
  /\ UNCHANGED <<job, queries>>

(* Ctrl+C between the turns, outside the try.                               *)
InterruptedOutside ==
  /\ at = "next"
  /\ at' = "failed"
  /\ UNCHANGED <<job, queries, dropped>>

Next ==
  \/ NextTarget
  \/ Scanned
  \/ Saved
  \/ CutShort
  \/ InterruptedOutside

Spec == Init /\ [][Next]_vars

-----------------------------------------------------------------------------
(* The report lists targets in the order of the configuration, each at most *)
(* once, and a target without an entry is one whose turn was cut short      *)
(* while it was being scanned, never one that failed to be saved.           *)
InOrderAndAccounted ==
  /\ \A i, k \in DOMAIN queries : i < k => queries[i].job < queries[k].job
  /\ at \in {"next", "returned"} =>
       \A j \in 1..job :
         j \in dropped <=> ~\E i \in DOMAIN queries : queries[i].job = j

(* How the run stands, as the report sees it. *)
Status == IF at = "returned" THEN "complete" ELSE IF at = "failed" THEN "failed" ELSE "running"
=============================================================================
