------------------------------ MODULE ScanReport ------------------------------
(***************************************************************************)
(* What running a scan promises, whatever runs it: a list of entries, at   *)
(* most one per target, that ends complete (every target has its entry) or *)
(* cancelled by the user, or fails with an exception and yields no list.   *)
(* A lossy runner may also leave out targets.                              *)
(***************************************************************************)
EXTENDS Naturals, Sequences

CONSTANTS
  Job,        \* the configured targets, by position
  Outcome,    \* what an entry can say
  Lossy       \* TRUE: targets may be left out of a complete report

VARIABLES
  entries,    \* the report, in the order the entries arrived
  dropped,    \* targets given up without an entry
  status      \* "running", then "complete", "cancelled" or "failed"

vars == <<entries, dropped, status>>

Entry == [job : Job, outcome : Outcome]

Recorded == {entries[i].job : i \in DOMAIN entries}

Init ==
  /\ entries = <<>>
  /\ dropped = {}
  /\ status = "running"

Record(j, o) ==
  /\ status = "running"
  /\ j \notin Recorded \cup dropped
  /\ entries' = Append(entries, [job |-> j, outcome |-> o])
  /\ UNCHANGED <<dropped, status>>

Drop(j) ==
  /\ Lossy
  /\ status = "running"
  /\ j \notin Recorded \cup dropped
  /\ dropped' = dropped \cup {j}
  /\ UNCHANGED <<entries, status>>

Complete ==
  /\ status = "running"
  /\ Recorded \cup dropped = Job
  /\ status' = "complete"
  /\ UNCHANGED <<entries, dropped>>

Stop ==
  /\ status = "running"
  /\ status' \in {"cancelled", "failed"}
  /\ UNCHANGED <<entries, dropped>>

Next ==
  \/ \E j \in Job, o \in Outcome : Record(j, o)
  \/ \E j \in Job : Drop(j)
  \/ Complete
  \/ Stop

Spec == Init /\ [][Next]_vars
=============================================================================
