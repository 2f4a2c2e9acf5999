---------------------------- MODULE ReportDelivery ----------------------------
(***************************************************************************)
(* What becomes of the results of a scan (cli/scan.py: scan, save_final):  *)
(* the report is saved to every configured JSON file, with --track-changes *)
(* merged with the differences to a previous report (outputs/json.py:      *)
(* save_to, outputs/__init__.py: track_delta, config/__init__.py:          *)
(* merge_lists_by_value), and then uploaded in pieces (util.py:            *)
(* update_cloud, _send_files, upload_cloud).  Scans follow one another and *)
(* find the files of earlier ones.                                         *)
(*                                                                         *)
(* A value in a report is represented by where it comes from: a target and *)
(* a scan.  Reports are bags, since nothing depends on the order of their  *)
(* entries.                                                                *)
(***************************************************************************)
EXTENDS Integers, Sequences, FiniteSetsExt, SequencesExt

CONSTANTS
  Target, Host, HostOf,  \* HostOf in [Target -> Host]: targets differ by port, too
  Key, Evaluations,      \* how often a target that answers has an evaluation
  Cert, CertsOf,         \* the certificates of a target
  Path, None,
  Configurations,        \* the target lists scanned
  Options,               \* the command lines and output settings used
  MaxScan                \* bound: scans

ASSUME DeliveryAssumption ==
  /\ HostOf \in [Target -> Host]
  /\ Evaluations \in [Target -> [Key -> Nat]]
  /\ CertsOf \in [Target -> SUBSET Cert]
  /\ \A targets \in Configurations :
       targets \subseteq Target /\ IsFiniteSet(targets)
  /\ Options \subseteq [outputs : Seq(Path), baseline : Path \cup {None},
                        track : BOOLEAN, cloud : BOOLEAN]
  /\ MaxScan \in Nat
  /\ None \notin [target : Target, scan : 0..MaxScan]
  /\ None \notin [of : [target : Target, scan : 0..MaxScan], count : [Key -> Nat]]

VARIABLES
  disk,     \* the JSON files: state, and the scan that wrote them last
  content,  \* their queries
  server,   \* the documents the server has stored
  run,      \* the scan that is being delivered
  data,     \* data["queries"] of save_final
  seen      \* (history) the outcomes of all scans so far
vars == <<disk, content, server, run, data, seen>>

(*-------------------------------- reports ---------------------------------*)
Origin == [target : Target, scan : 0..MaxScan]

(* An entry; a field is None where the dictionary lacks it.                 *)
Entry == [transport : Origin, tls : Origin \cup {None},
          error : Origin \cup {None},
          evaluations : [of : Origin, count : [Key -> Nat]] \cup {None}]

Answered(o) == [transport |-> o, tls |-> o, error |-> None,
                evaluations |-> [of |-> o, count |-> Evaluations[o.target]]]
Failed(o) == [transport |-> o, tls |-> None, error |-> o, evaluations |-> None]

(* {**x, **y} *)
Updated(x, y) == [f \in DOMAIN x |-> IF y[f] = None THEN x[f] ELSE y[f]]

(* How often the loops meet these pairs of entries.                         *)
Occurrences(a, b, pairs) == MapThenSumSet(LAMBDA p : a[p[1]] * b[p[2]], pairs)

(* All pairs of entries that match, each as often as it occurs.             *)
Pairing(a, b, Match(_, _), Make(_, _)) ==
  LET pairs == {p \in (DOMAIN a) \X (DOMAIN b) : Match(p[1], p[2])}
  IN [e \in {Make(p[1], p[2]) : p \in pairs} |->
        Occurrences(a, b, {p \in pairs : Make(p[1], p[2]) = e})]

(* The evaluations are the last ones.                                       *)
DeltaOfLast(l, c) == [c EXCEPT !.evaluations =
  IF l.evaluations = None \/ c.evaluations = None
  THEN [of |-> c.transport, count |-> [k \in Key |-> 0]]
  ELSE [of |-> l.evaluations.of,
        count |-> [k \in Key |-> l.evaluations.count[k] * c.evaluations.count[k]]]]

(* The body of track_delta's loops.  Evaluations are paired by their key,   *)
(* and only those that have a counterpart are kept.                         *)
Delta(l, c) == [c EXCEPT !.evaluations =
  [of |-> c.transport,
   count |-> [k \in Key |-> IF l.evaluations = None \/ c.evaluations = None THEN 0
              ELSE l.evaluations.count[k] * c.evaluations.count[k]]]]

(* A target without an answer is not compared.                              *)
SameHostAnswered(l, c) == /\ HostOf[l.transport.target] = HostOf[c.transport.target]
                          /\ l.error = None

SameHost(l, c) == HostOf[l.transport.target] = HostOf[c.transport.target]

(* The results are appended.                                                *)
Concatenated(current, results) ==
  [e \in DOMAIN current \cup DOMAIN results |->
     (IF e \in DOMAIN current THEN current[e] ELSE 0)
       + (IF e \in DOMAIN results THEN results[e] ELSE 0)]
(* merge_lists_by_value(current, results): queries have no "key", so that   *)
(* every entry of the one list matches every entry of the other.            *)
Merged(current, results) ==
  IF DOMAIN current = {} THEN results
  ELSE IF DOMAIN results = {} THEN current
  ELSE Pairing(current, results, LAMBDA x, y : TRUE, Updated)

TrackDelta(last, current) == Merged(current, Pairing(last, current, SameHost, Delta))

(*--------------------------------- scans ----------------------------------*)
Delivery(option, scan, queries) ==
  [stage |-> "idle", scan |-> scan, queries |-> queries,
   outputs |-> option.outputs, baseline |-> option.baseline,
   track |-> option.track, cloud |-> option.cloud,
   next |-> 1, pending |-> {}, reports |-> {}, message |-> "none"]

Idle == Delivery([outputs |-> << >>, baseline |-> None, track |-> FALSE,
                  cloud |-> FALSE], 0, << >>)

Init ==
  /\ disk = [p \in Path |-> [state |-> "missing", scan |-> 0]]
  /\ content = [p \in Path |-> << >>]
  /\ server = {}
  /\ run = Idle /\ data = << >>
  /\ seen = {}

(* The last output is not reached.                                          *)
SavingShort(r, n) ==
  IF n < Len(r.outputs) THEN [r EXCEPT !.stage = "save", !.next = n]
  ELSE [r EXCEPT !.stage = IF r.cloud THEN "report" ELSE "done", !.next = 1]

(* The n-th output of save_final, or what scan does after the last.         *)
Saving(r, n) ==
  IF n <= Len(r.outputs) THEN [r EXCEPT !.stage = "save", !.next = n]
  ELSE [r EXCEPT !.stage = IF r.cloud THEN "report" ELSE "done", !.next = 1]

Query(t, outcome, scan) ==
  LET o == [target |-> t, scan |-> scan]
  IN IF outcome = "answers" THEN Answered(o) ELSE Failed(o)

(* A scan is over.  A target answers, has an error for a result, or no      *)
(* result at all (sequential runner); their order is that of completion.    *)
Scan ==
  /\ run.stage \in {"idle", "done"}
  /\ run.scan < MaxScan
  /\ \E targets \in Configurations, option \in Options :
     \E outcome \in [targets -> {"answers", "fails", "dropped"}] :
     \E order \in SetToSeqs({t \in targets : outcome[t] # "dropped"}) :
       LET queries == [i \in DOMAIN order |->
                         Query(order[i], outcome[order[i]], run.scan + 1)]
       IN /\ run' = Saving(Delivery(option, run.scan + 1, queries), 1)
          /\ data' = [e \in Range(queries) |-> 1]
          /\ seen' = seen \cup {outcome}
  /\ UNCHANGED <<disk, content, server>>

(* The process is killed, or an exception that nobody handles ends it: a    *)
(* failing write, or tracking_file, which has no value without a baseline.  *)
Stop ==
  /\ run.stage \notin {"idle", "done"}
  /\ run' = [run EXCEPT !.stage = "idle"]
  /\ UNCHANGED <<disk, content, server, data, seen>>

(* save_to reads the baseline and opens the output, which truncates it.  A  *)
(* torn baseline is passed over.                                            *)
Open ==
  /\ run.stage = "save"
  /\ ~(run.track /\ run.baseline = None)
  /\ data' = IF run.track /\ disk[run.baseline].state = "whole"
             THEN TrackDelta(content[run.baseline], data) ELSE data
  /\ LET p == run.outputs[run.next]
     IN /\ disk' = [disk EXCEPT ![p] = [state |-> "torn", scan |-> run.scan]]
        /\ content' = [content EXCEPT ![p] = << >>]
  /\ run' = [run EXCEPT !.stage = "write"]
  /\ UNCHANGED <<server, seen>>

Write ==
  /\ run.stage = "write"
  /\ LET p == run.outputs[run.next]
     IN /\ disk' = [disk EXCEPT ![p] = [state |-> "whole", scan |-> run.scan]]
        /\ content' = [content EXCEPT ![p] = data]
  /\ run' = Saving(run, run.next + 1)
  /\ UNCHANGED <<server, data, seen>>

(*--------------------------------- upload ---------------------------------*)
(* upload_cloud: the server answers as it should, or it refuses, or its     *)
(* answer is lost; Ctrl+C; or an exception, be it of the request or of the  *)
(* data models before it.  Only an answer shows that it has the document.   *)
Post(kind, of, answer) ==
  \/ /\ answer # "yes"
     /\ server' = server
  \/ server' = server \cup {[kind |-> kind, of |-> of, scan |-> run.scan]}

EndedSwapped(message) == [run EXCEPT !.stage = message, !.message = "done"]

Ended(message) == [run EXCEPT !.stage = "done", !.message = message]

(* update_cloud returns nothing after Ctrl+C; other exceptions end the scan. *)
Interrupted(answer) ==
  CASE answer = "interrupt" -> run' = Ended("WARN")
    [] answer = "exception" -> run' = [run EXCEPT !.stage = "idle"]

(* The data of a target that did not respond are skipped.                   *)
HasTls(i) == run.queries[i].tls # None

SkipReport ==
  /\ run.stage = "report"
  /\ run.next <= Len(run.queries) /\ ~HasTls(run.next)
  /\ run' = [run EXCEPT !.next = @ + 1]
  /\ UNCHANGED <<disk, content, server, data, seen>>

(* A report that fails is passed over.                                      *)
NextAfterFailure(answer, t) ==
  IF answer = "yes"
  THEN [run EXCEPT !.stage = "evaluations", !.reports = @ \cup {t}]
  ELSE [run EXCEPT !.next = @ + 1]

(* A report that fails ends the upload.                                     *)
AfterReport(answer, t) ==
  IF answer = "yes"
  THEN [run EXCEPT !.stage = "evaluations", !.reports = @ \cup {t}]
  ELSE Ended("WARN")

SendReport(answer) ==
  /\ run.stage = "report"
  /\ run.next <= Len(run.queries) /\ HasTls(run.next)
  /\ LET t == run.queries[run.next].transport.target
     IN /\ Post("report", t, answer)
        /\ IF answer \in {"yes", "no"} THEN run' = AfterReport(answer, t)
                                       ELSE Interrupted(answer)
  /\ UNCHANGED <<disk, content, data, seen>>

(* Nobody looks at the outcome.                                             *)
SendEvaluations(answer) ==
  /\ run.stage = "evaluations"
  /\ Post("evaluations", run.queries[run.next].transport.target, answer)
  /\ IF answer \in {"yes", "no"}
     THEN run' = [run EXCEPT !.stage = "report", !.next = @ + 1]
     ELSE Interrupted(answer)
  /\ UNCHANGED <<disk, content, data, seen>>

EndReports ==
  /\ run.stage = "report"
  /\ run.next > Len(run.queries)
  /\ run' = [run EXCEPT !.stage = "certificates",
               !.pending = UNION {CertsOf[run.queries[i].transport.target] :
                             i \in {j \in DOMAIN run.queries : HasTls(j)}}]
  /\ UNCHANGED <<disk, content, server, data, seen>>

SendCertificate(x, answer) ==
  /\ run.stage = "certificates"
  /\ x \in run.pending
  /\ Post("certificate", x, answer)
  /\ IF answer \in {"yes", "no"} THEN run' = [run EXCEPT !.pending = @ \ {x}]
                                 ELSE Interrupted(answer)
  /\ UNCHANGED <<disk, content, data, seen>>

(* scan prints SAVED if there are any results_urls.                         *)
Finish ==
  /\ run.stage = "certificates"
  /\ run.pending = {}
  /\ run' = Ended(IF run.reports # {} THEN "SAVED" ELSE "WARN")
  /\ UNCHANGED <<disk, content, server, data, seen>>

Next ==
  \/ Scan \/ Stop \/ Open \/ Write \/ SkipReport \/ EndReports \/ Finish
  \/ \E answer \in {"yes", "no", "interrupt", "exception"} :
       \/ SendReport(answer) \/ SendEvaluations(answer)
       \/ \E x \in Cert : SendCertificate(x, answer)

Spec == Init /\ [][Next]_vars

(*------------------------------- properties -------------------------------*)
(* Files, documents and runs have their types.                              *)
TypeOK ==
  /\ disk \in [Path -> [state : {"missing", "torn", "whole"}, scan : 0..MaxScan]]
  /\ DOMAIN content = Path /\ \A p \in Path : DOMAIN content[p] \subseteq Entry
  /\ server \subseteq [kind : {"report", "evaluations", "certificate"},
                       of : Target \cup Cert, scan : 0..MaxScan]
  /\ run \in [stage : {"idle", "save", "write", "report", "evaluations",
                       "certificates", "done"},
              scan : 0..MaxScan, outputs : Seq(Path),
              baseline : Path \cup {None}, track : BOOLEAN, cloud : BOOLEAN,
              queries : Seq(Entry), next : Nat \ {0}, pending : SUBSET Cert,
              reports : SUBSET Target, message : {"none", "SAVED", "WARN"}]
  /\ DOMAIN data \subseteq Entry

Whole(p) == disk[p].state = "whole"
Entries(p) == DOMAIN content[p]

(* The entry of a target that failed has its error.                         *)
Own(e, scan) ==
  /\ \A f \in {"transport", "tls", "error"} : e[f] # None => e[f].scan = scan
  /\ e.tls = e.transport \/ e.error = e.transport
  /\ e.evaluations # None => e.evaluations.of = e.transport

(* Whatever a report is compared with, it holds what its own scan found,    *)
(* never a value of the previous report.  The evaluations of an entry are   *)
(* those of its target; so are the TLS data, unless it failed: merging may  *)
(* put other targets' data into the entry, but its error stays.             *)
OwnResults ==
  \A p \in Path : Whole(p) => \A e \in Entries(p) : Own(e, disk[p].scan)

(* While the same targets are scanned again and again, and each of them     *)
(* yields a result, tracking drops none of them from a report, whichever    *)
(* runs are killed and whichever files they leave torn.                     *)
SteadyKept ==
  \A targets \in Configurations :
    (\A f \in seen : DOMAIN f = targets /\ \A t \in targets : f[t] # "dropped") =>
      \A p \in Path : Whole(p) =>
        {e.transport.target : e \in Entries(p)} = targets

(* Tracking one target that always answers changes nothing about a report   *)
(* but the differences it adds: one entry, with each evaluation that occurs *)
(* once.                                                                    *)
AloneSame ==
  \A t \in Target : (\A f \in seen : DOMAIN f = {t} /\ f[t] = "answers") =>
    \A p \in Path : Whole(p) => \A e \in Entries(p) :
      /\ content[p][e] = 1
      /\ e.error = None
      /\ \A k \in Key : Evaluations[t][k] <= 1 =>
           e.evaluations.count[k] = Evaluations[t][k]

Stored(kind, of) == [kind |-> kind, of |-> of, scan |-> run.scan] \in server
Responding == {run.queries[i].transport.target : i \in {j \in DOMAIN run.queries : HasTls(j)}}

(* Nothing of a scan is online before all its files are written: whatever   *)
(* ends the upload, the results are on disk.                                *)
DiskFirst ==
  (\E d \in server : d.scan = run.scan) =>
    \A i \in DOMAIN run.outputs :
      Whole(run.outputs[i]) /\ disk[run.outputs[i]].scan = run.scan

(* The pieces of an upload refer to each other: evaluations are stored only *)
(* with their report, certificates only once all reports of the scan are.   *)
ReportFirst ==
  /\ \A t \in Target : Stored("evaluations", t) => Stored("report", t)
  /\ \A x \in Cert : Stored("certificate", x) =>
       \A t \in Responding : Stored("report", t)

(* If the scan says that the results are saved online, the report of every  *)
(* target that responded is.                                                *)
SavedMeansReports ==
  run.stage = "done" /\ run.message = "SAVED" =>
    Responding # {} /\ \A t \in Responding : Stored("report", t)
===============================================================================
