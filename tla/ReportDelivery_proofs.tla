------------------------- MODULE ReportDelivery_proofs -------------------------
(* Proofs that reports hold the results of their own scan, that tracking    *)
(* changes keeps the targets all scans share, and that what a scan says of  *)
(* its upload is so, for any targets, options and number of scans.          *)
EXTENDS ReportDelivery, FiniteSetTheorems, TLAPS

(*--------------------------------- entries --------------------------------*)
LEMMA NoneType == None \notin Origin
BY DeliveryAssumption DEF Origin

LEMMA Fields ==
  ASSUME NEW e \in Entry
  PROVE  DOMAIN e = {"transport", "tls", "error", "evaluations"}
BY DEF Entry

LEMMA AnsweredType ==
  ASSUME NEW o \in Origin PROVE Answered(o) \in Entry /\ Own(Answered(o), o.scan)
<1>1. o.target \in Target
  BY DEF Origin
<1>2. Evaluations[o.target] \in [Key -> Nat]
  BY <1>1, DeliveryAssumption
<1>. QED
  BY <1>2 DEF Answered, Entry, Own

LEMMA FailedType ==
  ASSUME NEW o \in Origin PROVE Failed(o) \in Entry /\ Own(Failed(o), o.scan)
BY DEF Failed, Entry, Own

LEMMA UpdatedType ==
  ASSUME NEW x \in Entry, NEW y \in Entry
  PROVE  /\ Updated(x, y) \in Entry
         /\ Updated(x, y).transport = y.transport
         /\ Updated(x, y).tls = IF y.tls = None THEN x.tls ELSE y.tls
         /\ Updated(x, y).error = IF y.error = None THEN x.error ELSE y.error
         /\ Updated(x, y).evaluations =
              IF y.evaluations = None THEN x.evaluations ELSE y.evaluations
<1>1. DOMAIN x = {"transport", "tls", "error", "evaluations"}
  BY Fields
<1>2. y.transport # None
  BY NoneType DEF Entry
<1>3. Updated(x, y) = [transport |-> y.transport,
         tls |-> IF y.tls = None THEN x.tls ELSE y.tls,
         error |-> IF y.error = None THEN x.error ELSE y.error,
         evaluations |-> IF y.evaluations = None THEN x.evaluations
                                                 ELSE y.evaluations]
  BY <1>1, <1>2 DEF Updated
<1>. QED
  BY <1>3 DEF Entry

LEMMA DeltaType ==
  ASSUME NEW l \in Entry, NEW c \in Entry
  PROVE  /\ Delta(l, c) \in Entry
         /\ Delta(l, c).transport = c.transport /\ Delta(l, c).tls = c.tls
         /\ Delta(l, c).error = c.error
         /\ Delta(l, c).evaluations # None
         /\ Delta(l, c).evaluations.of = c.transport
<1>1. ASSUME NEW k \in Key
      PROVE  (IF l.evaluations = None \/ c.evaluations = None THEN 0
              ELSE l.evaluations.count[k] * c.evaluations.count[k]) \in Nat
  <2>1. CASE l.evaluations = None \/ c.evaluations = None
    BY <2>1
  <2>2. CASE ~(l.evaluations = None \/ c.evaluations = None)
    <3>1. l.evaluations.count[k] \in Nat /\ c.evaluations.count[k] \in Nat
      BY <2>2 DEF Entry
    <3>2. ASSUME NEW i \in Nat, NEW j \in Nat PROVE i * j \in Nat
      OBVIOUS
    <3>. QED
      BY <2>2, <3>1, <3>2
  <2>. QED
    BY <2>1, <2>2
<1>2. [k \in Key |-> IF l.evaluations = None \/ c.evaluations = None THEN 0
         ELSE l.evaluations.count[k] * c.evaluations.count[k]] \in [Key -> Nat]
  BY <1>1
<1> DEFINE count == [k \in Key |-> IF l.evaluations = None \/ c.evaluations = None
                     THEN 0 ELSE l.evaluations.count[k] * c.evaluations.count[k]]
<1>3. Delta(l, c) = [transport |-> c.transport, tls |-> c.tls, error |-> c.error,
                     evaluations |-> [of |-> c.transport, count |-> count]]
  BY Fields DEF Delta
<1>4. count \in [Key -> Nat]
  BY <1>2
<1>5. c.transport \in Origin
  BY DEF Entry
<1> HIDE DEF count
<1>6. [of |-> c.transport, count |-> count] \in [of : Origin, count : [Key -> Nat]]
  BY <1>4, <1>5
<1>7. None \notin [of : Origin, count : [Key -> Nat]]
  BY DeliveryAssumption DEF Origin
<1>. QED
  BY <1>3, <1>6, <1>7 DEF Entry

(* What a tracked report is made of.                                        *)
LEMMA TrackDeltaForm ==
  ASSUME NEW last, NEW current, NEW e \in DOMAIN TrackDelta(last, current)
  PROVE  \/ e \in DOMAIN current
         \/ \E l \in DOMAIN last, c \in DOMAIN current :
              \/ e = Delta(l, c)
              \/ \E x \in DOMAIN current : e = Updated(x, Delta(l, c))
<1> DEFINE results == Pairing(last, current, SameHost, Delta)
<1>1. ASSUME NEW r \in DOMAIN results
      PROVE  \E l \in DOMAIN last, c \in DOMAIN current : r = Delta(l, c)
  BY DEF Pairing
<1> HIDE DEF results
<1>2. \/ Merged(current, results) \in {current, results}
      \/ \A u \in DOMAIN Merged(current, results) :
           \E x \in DOMAIN current, r \in DOMAIN results : u = Updated(x, r)
  BY DEF Merged, Pairing
<1>3. TrackDelta(last, current) = Merged(current, results)
  BY DEF TrackDelta, results
<1>. QED
  BY <1>1, <1>2, <1>3

(* Its entries are entries, and of its own scan if those it tracks are.     *)
LEMMA TrackDeltaOwn ==
  ASSUME NEW last, DOMAIN last \subseteq Entry,
         NEW current, DOMAIN current \subseteq Entry,
         NEW e \in DOMAIN TrackDelta(last, current)
  PROVE  /\ e \in Entry
         /\ \A scan : (\A c \in DOMAIN current : Own(c, scan)) => Own(e, scan)
<1>1. ASSUME NEW l \in DOMAIN last, NEW c \in DOMAIN current
      PROVE  /\ Delta(l, c) \in Entry /\ Delta(l, c).evaluations # None
             /\ \A scan : Own(c, scan) => Own(Delta(l, c), scan)
  BY DeltaType DEF Own
<1>2. ASSUME NEW x \in Entry, NEW r \in Entry, r.evaluations # None
      PROVE  /\ Updated(x, r) \in Entry
             /\ \A scan : Own(x, scan) /\ Own(r, scan) => Own(Updated(x, r), scan)
  <2> DEFINE u == Updated(x, r)
  <2>1. /\ u \in Entry /\ u.transport = r.transport
        /\ u.tls = IF r.tls = None THEN x.tls ELSE r.tls
        /\ u.error = IF r.error = None THEN x.error ELSE r.error
        /\ u.evaluations = r.evaluations
    BY <1>2, UpdatedType
  <2>2. r.transport # None
    BY NoneType DEF Entry
  <2> HIDE DEF u
  <2>3. ASSUME NEW scan, Own(x, scan), Own(r, scan) PROVE Own(u, scan)
    <3>1. /\ u.transport # None => u.transport.scan = scan
          /\ u.tls # None => u.tls.scan = scan
          /\ u.error # None => u.error.scan = scan
      BY <2>1, <2>3 DEF Own
    <3>2. u.tls = u.transport \/ u.error = u.transport
      BY <2>1, <2>2, <2>3 DEF Own
    <3>3. u.evaluations # None => u.evaluations.of = u.transport
      BY <2>1, <2>3 DEF Own
    <3>. QED
      BY <3>1, <3>2, <3>3 DEF Own
  <2>. QED
    BY <2>1, <2>3 DEF u
<1>3. CASE e \in DOMAIN current
  BY <1>3
<1>4. CASE \E l \in DOMAIN last, c \in DOMAIN current : e = Delta(l, c)
  BY <1>1, <1>4
<1>5. CASE \E l \in DOMAIN last, c \in DOMAIN current, x \in DOMAIN current :
             e = Updated(x, Delta(l, c))
  <2>1. PICK l \in DOMAIN last, c \in DOMAIN current, x \in DOMAIN current :
          e = Updated(x, Delta(l, c))
    BY <1>5
  <2> DEFINE r == Delta(l, c)
  <2>2. /\ r \in Entry /\ r.evaluations # None /\ x \in Entry
        /\ \A scan : Own(c, scan) => Own(r, scan)
    BY <1>1
  <2> HIDE DEF r
  <2>3. e = Updated(x, r)
    BY <2>1 DEF r
  <2>. QED
    BY <1>2, <2>2, <2>3
<1>. QED
  BY <1>3, <1>4, <1>5, TrackDeltaForm

(*---------------------------------- types ---------------------------------*)
RunType ==
  [stage : {"idle", "save", "write", "report", "evaluations", "certificates", "done"},
   scan : 0..MaxScan, outputs : Seq(Path),
   baseline : Path \cup {None}, track : BOOLEAN, cloud : BOOLEAN,
   queries : Seq(Entry), next : Nat \ {0}, pending : SUBSET Cert,
   reports : SUBSET Target, message : {"none", "SAVED", "WARN"}]

(* An output that is being written and a report whose evaluations are being *)
(* sent are there.                                                          *)
Positions ==
  /\ run.stage \in {"save", "write"} => run.next <= Len(run.outputs)
  /\ run.stage = "evaluations" => run.next <= Len(run.queries)

TypeInv == TypeOK /\ Positions

(* What Saving leaves alone, and where it leads.                            *)
LEMMA SavingType ==
  ASSUME NEW r \in RunType, NEW n \in Nat \ {0}
  PROVE  /\ Saving(r, n) \in RunType
         /\ Saving(r, n).scan = r.scan /\ Saving(r, n).outputs = r.outputs
         /\ Saving(r, n).queries = r.queries /\ Saving(r, n).reports = r.reports
         /\ Saving(r, n).message = r.message
         /\ \/ /\ Saving(r, n).stage = "save" /\ Saving(r, n).next = n
               /\ n <= Len(r.outputs)
            \/ /\ Saving(r, n).stage \in {"report", "done"} /\ Saving(r, n).next = 1
               /\ n > Len(r.outputs)
<1>1. Len(r.outputs) \in Nat
  BY DEF RunType
<1> DEFINE s == Saving(r, n)
<1>2. CASE n <= Len(r.outputs)
  <2>1. s = [r EXCEPT !.stage = "save", !.next = n]
    BY <1>2 DEF Saving
  <2> HIDE DEF s
  <2>2. s.stage = "save" /\ s.next = n
    BY <2>1 DEF RunType
  <2>3. /\ s \in RunType /\ s.scan = r.scan /\ s.outputs = r.outputs
        /\ s.queries = r.queries /\ s.reports = r.reports /\ s.message = r.message
    BY <2>1 DEF RunType
  <2>. QED
    BY <1>2, <2>2, <2>3 DEF s
<1>3. CASE ~(n <= Len(r.outputs))
  <2> DEFINE stage == IF r.cloud THEN "report" ELSE "done"
             next == 1
  <2>1. stage \in {"report", "done"} /\ next \in Nat \ {0}
    OBVIOUS
  <2>2. s = [r EXCEPT !.stage = stage, !.next = next]
    BY <1>3 DEF Saving
  <2> HIDE DEF s, stage, next
  <2>3. s.stage = stage /\ s.next = next
    BY <2>2 DEF RunType
  <2>4. /\ s \in RunType /\ s.scan = r.scan /\ s.outputs = r.outputs
        /\ s.queries = r.queries /\ s.reports = r.reports /\ s.message = r.message
    BY <2>1, <2>2 DEF RunType
  <2>5. n > Len(r.outputs)
    BY <1>1, <1>3
  <2>. QED
    BY <2>1, <2>3, <2>4, <2>5 DEF s, next
<1>. QED
  BY <1>2, <1>3

(* A new scan starts with its own results.                                  *)
LEMMA ScanStep ==
  ASSUME TypeInv, Scan
  PROVE  /\ run' \in RunType
         /\ run'.scan = run.scan + 1 /\ run'.reports = {} /\ run'.message = "none"
         /\ run'.next = 1
         /\ \/ run'.stage = "save" /\ run'.next <= Len(run'.outputs)
            \/ run'.stage \in {"report", "done"} /\ 1 > Len(run'.outputs)
         /\ \A e \in DOMAIN data' : e \in Entry /\ Own(e, run'.scan)
<1>1. PICK targets \in Configurations, option \in Options :
        \E outcome \in [targets -> {"answers", "fails", "dropped"}] :
        \E order \in SetToSeqs({t \in targets : outcome[t] # "dropped"}) :
          LET queries == [i \in DOMAIN order |->
                            Query(order[i], outcome[order[i]], run.scan + 1)]
          IN /\ run' = Saving(Delivery(option, run.scan + 1, queries), 1)
             /\ data' = [e \in Range(queries) |-> 1]
  BY ZenonT(60) DEF Scan
<1>2. PICK outcome \in [targets -> {"answers", "fails", "dropped"}] :
        \E order \in SetToSeqs({t \in targets : outcome[t] # "dropped"}) :
           LET queries == [i \in DOMAIN order |->
                             Query(order[i], outcome[order[i]], run.scan + 1)]
           IN /\ run' = Saving(Delivery(option, run.scan + 1, queries), 1)
              /\ data' = [e \in Range(queries) |-> 1]
  BY <1>1
<1>a. PICK order \in SetToSeqs({t \in targets : outcome[t] # "dropped"}) :
        LET queries == [i \in DOMAIN order |->
                          Query(order[i], outcome[order[i]], run.scan + 1)]
        IN /\ run' = Saving(Delivery(option, run.scan + 1, queries), 1)
           /\ data' = [e \in Range(queries) |-> 1]
  BY <1>2
<1> DEFINE queries == [i \in DOMAIN order |->
                         Query(order[i], outcome[order[i]], run.scan + 1)]
           results == {t \in targets : outcome[t] # "dropped"}
           r == Delivery(option, run.scan + 1, queries)
<1>3. run.scan + 1 \in 0..MaxScan
  BY DeliveryAssumption DEF Scan, TypeInv, TypeOK
<1>4. ASSUME NEW t \in Target, NEW x
      PROVE  /\ Query(t, x, run.scan + 1) \in Entry
             /\ Own(Query(t, x, run.scan + 1), run.scan + 1)
  <2> DEFINE o == [target |-> t, scan |-> run.scan + 1]
  <2>1. o \in Origin /\ o.scan = run.scan + 1
    BY <1>3 DEF Origin
  <2>2. Query(t, x, run.scan + 1) \in {Answered(o), Failed(o)}
    BY DEF Query
  <2> HIDE DEF o
  <2>. QED
    BY <2>1, <2>2, AnsweredType, FailedType
<1>5. PICK n \in Nat : order \in [1..n -> Target]
  <2>1. targets \subseteq Target /\ IsFiniteSet(targets)
    BY DeliveryAssumption
  <2>2. Cardinality(results) \in Nat
    BY <2>1, FS_Subset, FS_CardinalityType
  <2>3. order \in [1..Cardinality(results) -> results]
    BY DEF SetToSeqs
  <2>. QED
    BY <2>1, <2>2, <2>3
<1>6. queries \in Seq(Entry)
  <2>1. queries \in [1..n -> Entry]
    BY <1>4, <1>5
  <2>. QED
    BY <2>1
<1>7. \A e \in Range(queries) : e \in Entry /\ Own(e, run.scan + 1)
  BY <1>4, <1>5 DEF Range
<1>8. run' = Saving(r, 1) /\ data' = [e \in Range(queries) |-> 1]
  BY <1>a
<1> HIDE DEF queries
<1>9. r \in RunType /\ r.scan = run.scan + 1 /\ r.reports = {} /\ r.message = "none"
  <2>1. option \in [outputs : Seq(Path), baseline : Path \cup {None},
                    track : BOOLEAN, cloud : BOOLEAN]
    BY DeliveryAssumption
  <2>2. r = [stage |-> "idle", scan |-> run.scan + 1, outputs |-> option.outputs,
             baseline |-> option.baseline, track |-> option.track,
             cloud |-> option.cloud, queries |-> queries, next |-> 1,
             pending |-> {}, reports |-> {}, message |-> "none"]
    BY DEF Delivery
  <2>. QED
    BY <1>3, <1>6, <2>1, <2>2 DEF RunType
<1> HIDE DEF r
<1>. QED
  BY <1>7, <1>8, <1>9, SavingType

(* The query at a position has a target.                                    *)
LEMMA QueryTarget ==
  ASSUME run \in RunType, NEW i \in 1..Len(run.queries)
  PROVE  /\ run.queries[i] \in Entry
         /\ run.queries[i].transport.target \in Target
<1>1. run.queries[i] \in Entry
  BY DEF RunType
<1>. QED
  BY <1>1 DEF Entry, Origin

LEMMA PostType ==
  ASSUME TypeOK, NEW kind \in {"report", "evaluations", "certificate"},
         NEW of \in Target \cup Cert, NEW answer, Post(kind, of, answer)
  PROVE  /\ server' \subseteq [kind : {"report", "evaluations", "certificate"},
                               of : Target \cup Cert, scan : 0..MaxScan]
         /\ server \subseteq server'
         /\ \A d \in server' \ server :
              d = [kind |-> kind, of |-> of, scan |-> run.scan]
         /\ answer = "yes" => [kind |-> kind, of |-> of, scan |-> run.scan] \in server'
<1>1. run.scan \in 0..MaxScan
  BY DEF TypeOK
<1> DEFINE d == [kind |-> kind, of |-> of, scan |-> run.scan]
<1>2. server' = server \/ server' = server \cup {d}
  BY DEF Post
<1>3. answer = "yes" => d \in server'
  BY DEF Post
<1>4. d \in [kind : {"report", "evaluations", "certificate"},
             of : Target \cup Cert, scan : 0..MaxScan]
  BY <1>1
<1>5. server \subseteq [kind : {"report", "evaluations", "certificate"},
                        of : Target \cup Cert, scan : 0..MaxScan]
  BY DEF TypeOK
<1> HIDE DEF d
<1>. QED
  BY <1>2, <1>3, <1>4, <1>5 DEF d

(* The outcome of a request that is not an answer.                          *)
LEMMA InterruptedType ==
  ASSUME run \in RunType, NEW answer \in {"interrupt", "exception"},
         Interrupted(answer)
  PROVE  /\ run' \in RunType /\ run'.stage \in {"idle", "done"}
         /\ run'.scan = run.scan /\ run'.outputs = run.outputs
         /\ run'.queries = run.queries /\ run'.reports = run.reports
         /\ run'.message \in {run.message, "WARN"}
         /\ run'.stage = "done" => run'.message = "WARN"
<1>1. CASE answer = "interrupt"
  <2>1. run' = [run EXCEPT !.stage = "done", !.message = "WARN"]
    BY <1>1 DEF Interrupted, Ended
  <2>. QED
    BY <2>1 DEF RunType
<1>2. CASE answer = "exception"
  BY <1>2 DEF Interrupted, RunType
<1>. QED
  BY <1>1, <1>2

LEMMA TypeStep == TypeInv /\ [Next]_vars => TypeInv'
<1> SUFFICES ASSUME TypeInv, [Next]_vars PROVE TypeInv'
  OBVIOUS
<1>r. run \in RunType
  BY DEF TypeInv, TypeOK, RunType
<1>s. ASSUME run' \in RunType, Positions',
             disk' \in [Path -> [state : {"missing", "torn", "whole"}, scan : 0..MaxScan]],
             DOMAIN content' = Path, \A p \in Path : DOMAIN content'[p] \subseteq Entry,
             server' \subseteq [kind : {"report", "evaluations", "certificate"},
                                of : Target \cup Cert, scan : 0..MaxScan],
             DOMAIN data' \subseteq Entry
      PROVE  TypeInv'
  BY <1>s DEF TypeInv, TypeOK, RunType
<1>t. /\ disk \in [Path -> [state : {"missing", "torn", "whole"}, scan : 0..MaxScan]]
      /\ DOMAIN content = Path /\ \A p \in Path : DOMAIN content[p] \subseteq Entry
      /\ server \subseteq [kind : {"report", "evaluations", "certificate"},
                           of : Target \cup Cert, scan : 0..MaxScan]
      /\ DOMAIN data \subseteq Entry
      /\ Positions
  BY DEF TypeInv, TypeOK
<1>u. run.scan \in 0..MaxScan
  BY <1>r DEF RunType
<1>1. CASE Scan
  <2>1. UNCHANGED <<disk, content, server>>
    BY <1>1 DEF Scan
  <2>2. Positions'
    BY <1>1, ScanStep DEF Positions
  <2>. QED
    BY <1>1, <1>s, <1>t, <2>1, <2>2, ScanStep
<1>2. CASE Stop
  <2>1. UNCHANGED <<disk, content, server, data>>
    BY <1>2 DEF Stop
  <2>2. run' \in RunType /\ run'.stage = "idle"
    BY <1>2, <1>r DEF Stop, RunType
  <2>. QED
    BY <1>s, <1>t, <2>1, <2>2 DEF Positions
<1>3. CASE Open
  <2>1. run.outputs[run.next] \in Path
    BY <1>3, <1>r, <1>t DEF Open, Positions, RunType
  <2>2. disk' \in [Path -> [state : {"missing", "torn", "whole"}, scan : 0..MaxScan]]
    BY <1>3, <1>t, <1>u, <2>1 DEF Open
  <2>3. DOMAIN content' = Path /\ \A p \in Path : DOMAIN content'[p] \subseteq Entry
    BY <1>3, <1>t, <2>1 DEF Open
  <2>4. DOMAIN data' \subseteq Entry
    <3>1. CASE run.track /\ disk[run.baseline].state = "whole"
      <4>1. run.baseline \in Path
        BY <1>3, <1>r, <3>1 DEF Open, RunType
      <4>2. data' = TrackDelta(content[run.baseline], data)
        BY <1>3, <3>1 DEF Open
      <4>. QED
        BY <1>t, <4>1, <4>2, TrackDeltaOwn
    <3>2. CASE ~(run.track /\ disk[run.baseline].state = "whole")
      BY <1>3, <1>t, <3>2 DEF Open
    <3>. QED
      BY <3>1, <3>2
  <2>5. run' \in RunType /\ run'.outputs = run.outputs /\ run'.next = run.next
        /\ run'.stage = "write"
    BY <1>3, <1>r DEF Open, RunType
  <2>6. Positions'
    BY <1>3, <1>t, <2>5 DEF Positions, Open
  <2>. QED
    BY <1>3, <1>s, <1>t, <2>2, <2>3, <2>4, <2>5, <2>6 DEF Open
<1>4. CASE Write
  <2>1. run.outputs[run.next] \in Path /\ run.next + 1 \in Nat \ {0}
    BY <1>4, <1>r, <1>t DEF Write, Positions, RunType
  <2>2. disk' \in [Path -> [state : {"missing", "torn", "whole"}, scan : 0..MaxScan]]
    BY <1>4, <1>t, <1>u, <2>1 DEF Write
  <2>3. DOMAIN content' = Path /\ \A p \in Path : DOMAIN content'[p] \subseteq Entry
    BY <1>4, <1>t, <2>1 DEF Write
  <2>4. run' = Saving(run, run.next + 1)
    BY <1>4 DEF Write
  <2>5. run' \in RunType /\ Positions'
    BY <1>r, <2>1, <2>4, SavingType DEF Positions
  <2>. QED
    BY <1>4, <1>s, <1>t, <2>2, <2>3, <2>5 DEF Write
<1>5. CASE SkipReport
  <2> DEFINE next == run.next + 1
  <2>1. next \in Nat \ {0}
    BY <1>r DEF RunType
  <2>2. run' = [run EXCEPT !.next = next] /\ run.stage = "report"
    BY <1>5 DEF SkipReport
  <2> HIDE DEF next
  <2>3. run' \in RunType /\ run'.stage = "report"
    BY <1>r, <2>1, <2>2 DEF RunType
  <2>. QED
    BY <1>5, <1>s, <1>t, <2>3 DEF SkipReport, Positions
<1>6. CASE EndReports
  <2> DEFINE pending == UNION {CertsOf[run.queries[i].transport.target] :
                                 i \in {j \in DOMAIN run.queries : HasTls(j)}}
  <2>1. pending \subseteq Cert
    <3>1. ASSUME NEW i \in DOMAIN run.queries
          PROVE  CertsOf[run.queries[i].transport.target] \subseteq Cert
      <4>1. i \in 1..Len(run.queries)
        BY <1>r DEF RunType
      <4>. QED
        BY <1>r, <4>1, QueryTarget, DeliveryAssumption
    <3>. QED
      BY <3>1
  <2>2. run' = [run EXCEPT !.stage = "certificates", !.pending = pending]
    BY <1>6 DEF EndReports
  <2> HIDE DEF pending
  <2>3. run' \in RunType /\ run'.stage = "certificates"
    BY <1>r, <2>1, <2>2 DEF RunType
  <2>. QED
    BY <1>6, <1>s, <1>t, <2>3 DEF EndReports, Positions
<1>7. CASE Finish
  <2> DEFINE message == IF run.reports # {} THEN "SAVED" ELSE "WARN"
  <2>1. message \in {"SAVED", "WARN"}
    OBVIOUS
  <2>2. run' = [run EXCEPT !.stage = "done", !.message = message]
    BY <1>7 DEF Finish, Ended
  <2> HIDE DEF message
  <2>3. run' \in RunType /\ run'.stage = "done"
    BY <1>r, <2>1, <2>2 DEF RunType
  <2>. QED
    BY <1>7, <1>s, <1>t, <2>3 DEF Finish, Positions
<1>8. ASSUME NEW answer \in {"yes", "no", "interrupt", "exception"}, SendReport(answer)
      PROVE TypeInv'
  <2> DEFINE t == run.queries[run.next].transport.target
  <2>1. run.next \in 1..Len(run.queries)
    BY <1>8, <1>r DEF SendReport, RunType
  <2>2. t \in Target
    BY <1>r, <2>1, QueryTarget
  <2>3. Post("report", t, answer)
    BY <1>8 DEF SendReport
  <2> HIDE DEF t
  <2>4. server' \subseteq [kind : {"report", "evaluations", "certificate"},
                           of : Target \cup Cert, scan : 0..MaxScan]
    BY <2>2, <2>3, PostType DEF TypeInv
  <2>5. run' \in RunType /\ Positions'
    <3>1. CASE answer \in {"interrupt", "exception"}
      <4>1. Interrupted(answer)
        BY <1>8, <3>1 DEF SendReport
      <4>. QED
        BY <1>r, <3>1, <4>1, InterruptedType DEF Positions
    <3>2. CASE answer = "no"
      <4>1. run' = [run EXCEPT !.stage = "done", !.message = "WARN"]
        BY <1>8, <3>2 DEF SendReport, AfterReport, Ended
      <4>. QED
        BY <1>r, <4>1 DEF RunType, Positions
    <3>3. CASE answer = "yes"
      <4>1. run' = [run EXCEPT !.stage = "evaluations", !.reports = @ \cup {t}]
        BY <1>8, <3>3 DEF SendReport, AfterReport, t
      <4>2. run' \in RunType
        BY <1>r, <2>2, <4>1 DEF RunType
      <4>3. run'.next = run.next /\ run'.queries = run.queries /\ run'.stage = "evaluations"
        BY <1>r, <4>1 DEF RunType
      <4>. QED
        BY <2>1, <4>2, <4>3 DEF Positions
    <3>. QED
      BY <3>1, <3>2, <3>3
  <2>. QED
    BY <1>8, <1>s, <1>t, <2>4, <2>5 DEF SendReport
<1>9. ASSUME NEW answer \in {"yes", "no", "interrupt", "exception"}, SendEvaluations(answer)
      PROVE TypeInv'
  <2> DEFINE t == run.queries[run.next].transport.target
  <2>1. run.next \in 1..Len(run.queries)
    BY <1>9, <1>r, <1>t DEF SendEvaluations, RunType, Positions
  <2>2. t \in Target
    BY <1>r, <2>1, QueryTarget
  <2>3. Post("evaluations", t, answer)
    BY <1>9 DEF SendEvaluations
  <2> HIDE DEF t
  <2>4. server' \subseteq [kind : {"report", "evaluations", "certificate"},
                           of : Target \cup Cert, scan : 0..MaxScan]
    BY <2>2, <2>3, PostType DEF TypeInv
  <2>5. run' \in RunType /\ Positions'
    <3>1. CASE answer \in {"interrupt", "exception"}
      <4>1. Interrupted(answer)
        BY <1>9, <3>1 DEF SendEvaluations
      <4>. QED
        BY <1>r, <3>1, <4>1, InterruptedType DEF Positions
    <3>2. CASE answer \in {"yes", "no"}
      <4> DEFINE next == run.next + 1
      <4>1. next \in Nat \ {0}
        BY <1>r DEF RunType
      <4>2. run' = [run EXCEPT !.stage = "report", !.next = next]
        BY <1>9, <3>2 DEF SendEvaluations
      <4> HIDE DEF next
      <4>. QED
        BY <1>r, <4>1, <4>2 DEF RunType, Positions
    <3>. QED
      BY <3>1, <3>2
  <2>. QED
    BY <1>9, <1>s, <1>t, <2>4, <2>5 DEF SendEvaluations
<1>10. ASSUME NEW answer \in {"yes", "no", "interrupt", "exception"}, NEW x \in Cert,
              SendCertificate(x, answer)
      PROVE TypeInv'
  <2>3. Post("certificate", x, answer)
    BY <1>10 DEF SendCertificate
  <2>4. server' \subseteq [kind : {"report", "evaluations", "certificate"},
                           of : Target \cup Cert, scan : 0..MaxScan]
    BY <2>3, PostType DEF TypeInv
  <2>5. run' \in RunType /\ Positions'
    <3>1. CASE answer \in {"interrupt", "exception"}
      <4>1. Interrupted(answer)
        BY <1>10, <3>1 DEF SendCertificate
      <4>. QED
        BY <1>r, <3>1, <4>1, InterruptedType DEF Positions
    <3>2. CASE answer \in {"yes", "no"}
      BY <1>10, <1>r, <3>2 DEF SendCertificate, RunType, Positions
    <3>. QED
      BY <3>1, <3>2
  <2>. QED
    BY <1>10, <1>s, <1>t, <2>4, <2>5 DEF SendCertificate
<1>11. CASE UNCHANGED vars
  BY <1>11 DEF vars, TypeInv, TypeOK, Positions
<1>. QED
  BY <1>1, <1>2, <1>3, <1>4, <1>5, <1>6, <1>7, <1>8, <1>9, <1>10, <1>11 DEF Next

LEMMA TypeInit == Init => TypeInv
<1> SUFFICES ASSUME Init PROVE TypeInv
  OBVIOUS
<1>1. run = [stage |-> "idle", scan |-> 0, queries |-> << >>, outputs |-> << >>,
             baseline |-> None, track |-> FALSE, cloud |-> FALSE, next |-> 1,
             pending |-> {}, reports |-> {}, message |-> "none"]
  BY DEF Init, Idle, Delivery
<1>2. 0 \in 0..MaxScan
  BY DeliveryAssumption
<1>3. run \in RunType
  BY <1>1, <1>2 DEF RunType
<1>4. Positions
  BY <1>1 DEF Positions
<1>. QED
  BY <1>2, <1>3, <1>4 DEF Init, TypeInv, TypeOK, RunType

(* For any targets, options and number of scans, files, documents and runs  *)
(* keep their types, in particular save_final never writes past its outputs *)
(* and _send_files never reads past the queries.                            *)
THEOREM TypeCorrect == Spec => []TypeOK
<1>1. TypeInv => TypeOK
  BY DEF TypeInv
<1>. QED
  BY TypeInit, TypeStep, <1>1, PTL DEF Spec

LEMMA TypeAlways == Spec => []TypeInv
BY TypeInit, TypeStep, PTL DEF Spec

(*------------------------------- own results ------------------------------*)
OwnInv == (\A e \in DOMAIN data : Own(e, run.scan)) /\ OwnResults

LEMMA OwnStep == TypeInv /\ TypeInv' /\ OwnInv /\ [Next]_vars => OwnInv'
<1> SUFFICES ASSUME TypeInv, TypeInv', OwnInv, [Next]_vars PROVE OwnInv'
  OBVIOUS
<1>r. run \in RunType
  BY DEF TypeInv, TypeOK, RunType
<1>1. CASE Scan
  <2>1. UNCHANGED <<disk, content>>
    BY <1>1 DEF Scan
  <2>. QED
    BY <1>1, <2>1, ScanStep DEF OwnInv, OwnResults, Whole, Entries
<1>2. CASE Open
  <2> DEFINE p == run.outputs[run.next]
  <2>1. run'.scan = run.scan
    BY <1>2, <1>r DEF Open, RunType
  <2>2. \A e \in DOMAIN data' : Own(e, run.scan)
    <3>1. CASE run.track /\ disk[run.baseline].state = "whole"
      <4>1. run.baseline \in Path
        BY <1>2, <1>r, <3>1 DEF Open, RunType
      <4>2. data' = TrackDelta(content[run.baseline], data)
        BY <1>2, <3>1 DEF Open
      <4>3. DOMAIN content[run.baseline] \subseteq Entry /\ DOMAIN data \subseteq Entry
        BY <4>1 DEF TypeInv, TypeOK
      <4>. QED
        BY <4>2, <4>3, TrackDeltaOwn DEF OwnInv
    <3>2. CASE ~(run.track /\ disk[run.baseline].state = "whole")
      BY <1>2, <3>2 DEF Open, OwnInv
    <3>. QED
      BY <3>1, <3>2
  <2>3. ASSUME NEW q \in Path, disk'[q].state = "whole"
        PROVE  disk'[q] = disk[q] /\ content'[q] = content[q]
    <3>1. /\ disk' = [disk EXCEPT ![p] = [state |-> "torn", scan |-> run.scan]]
          /\ content' = [content EXCEPT ![p] = << >>]
      BY <1>2 DEF Open
    <3>2. q \in DOMAIN disk /\ q \in DOMAIN content
      BY DEF TypeInv, TypeOK
    <3>3. q # p
      BY <2>3, <3>1, <3>2
    <3>. QED
      BY <3>1, <3>2, <3>3
  <2>4. OwnResults'
    BY <2>3 DEF OwnInv, OwnResults, Whole, Entries
  <2>. QED
    BY <2>1, <2>2, <2>4 DEF OwnInv
<1>3. CASE Write
  <2> DEFINE p == run.outputs[run.next]
  <2>1. run' = Saving(run, run.next + 1) /\ run.next + 1 \in Nat \ {0} /\ data' = data
    BY <1>3, <1>r DEF Write, RunType
  <2>2. run'.scan = run.scan
    BY <1>r, <2>1, SavingType
  <2>3. ASSUME NEW q \in Path, disk'[q].state = "whole"
        PROVE  \A e \in DOMAIN content'[q] : Own(e, disk'[q].scan)
    <3>1. /\ disk' = [disk EXCEPT ![p] = [state |-> "whole", scan |-> run.scan]]
          /\ content' = [content EXCEPT ![p] = data]
      BY <1>3 DEF Write
    <3>2. q \in DOMAIN disk /\ q \in DOMAIN content
      BY DEF TypeInv, TypeOK
    <3>3. CASE q = p
      BY <3>1, <3>2, <3>3 DEF OwnInv
    <3>4. CASE q # p
      BY <2>3, <3>1, <3>2, <3>4 DEF OwnInv, OwnResults, Whole, Entries
    <3>. QED
      BY <3>3, <3>4
  <2>. QED
    BY <2>1, <2>2, <2>3 DEF OwnInv, OwnResults, Whole, Entries
<1>4. ASSUME UNCHANGED <<disk, content, data>>, run'.scan = run.scan
      PROVE  OwnInv'
  BY <1>4 DEF OwnInv, OwnResults, Whole, Entries
<1>5. CASE Stop \/ SkipReport \/ EndReports \/ Finish
  BY <1>r, <1>4, <1>5 DEF Stop, SkipReport, EndReports, Finish, Ended, RunType
<1>6. ASSUME NEW answer \in {"yes", "no", "interrupt", "exception"}, NEW x,
             SendReport(answer) \/ SendEvaluations(answer) \/ SendCertificate(x, answer)
      PROVE  OwnInv'
  <2>1. CASE answer \in {"interrupt", "exception"}
    BY <1>r, <1>4, <1>6, <2>1, InterruptedType
      DEF SendReport, SendEvaluations, SendCertificate
  <2>2. CASE answer \in {"yes", "no"}
    BY <1>r, <1>4, <1>6, <2>2
      DEF SendReport, SendEvaluations, SendCertificate, AfterReport, Ended, RunType
  <2>. QED
    BY <2>1, <2>2
<1>7. CASE UNCHANGED vars
  BY <1>4, <1>7 DEF vars
<1>. QED
  BY <1>1, <1>2, <1>3, <1>5, <1>6, <1>7 DEF Next

(* Whatever files a scan is compared with, torn, older or of other targets, *)
(* track_delta and merge_lists_by_value put no value of another scan into   *)
(* its report, and give a target that answered no TLS data but its own.     *)
THEOREM ResultsOwn == Spec => []OwnResults
<1>1. Init => OwnInv
  BY DEF Init, OwnInv, OwnResults, Whole
<1>2. OwnInv => OwnResults
  BY DEF OwnInv
<1>. QED
  BY <1>1, <1>2, TypeAlways, OwnStep, PTL DEF Spec

(*------------------------------ disk and server ---------------------------*)
NoDocuments == \A d \in server : d.scan # run.scan
OnDisk(i) == Whole(run.outputs[i]) /\ disk[run.outputs[i]].scan = run.scan

(* The outputs before the present one are written, unless one of them is    *)
(* the very file that is written again.                                     *)
DiskInv ==
  /\ \A d \in server : d.scan <= run.scan
  /\ run.stage \in {"save", "write"} =>
       /\ NoDocuments
       /\ \A i \in DOMAIN run.outputs : i < run.next =>
            \/ run.stage = "write" /\ run.outputs[i] = run.outputs[run.next]
            \/ OnDisk(i)
  /\ run.stage \in {"report", "evaluations", "certificates"} =>
       \A i \in DOMAIN run.outputs : OnDisk(i)
  /\ DiskFirst

(* Steps that leave the files and the outputs alone, and store documents of *)
(* the present scan only once it is saved.                                  *)
LEMMA DiskKept ==
  ASSUME TypeInv, DiskInv, disk' = disk, run'.scan = run.scan,
         run'.outputs = run.outputs,
         run'.stage \in {"idle", "done"} \/
           /\ run.stage \in {"report", "evaluations", "certificates"}
           /\ run'.stage \in {"report", "evaluations", "certificates"},
         \A d \in server' : d \in server \/
           /\ d.scan = run.scan
           /\ run.stage \in {"report", "evaluations", "certificates"}
  PROVE  DiskInv'
<1>1. \A i \in DOMAIN run.outputs : OnDisk(i)' = OnDisk(i)
  BY DEF OnDisk, Whole
<1>2. run.scan \in Int
  BY DEF TypeInv, TypeOK
<1>3. \A d \in server' : d.scan <= run'.scan
  BY <1>2 DEF DiskInv
<1>4. DiskFirst'
  BY <1>1 DEF DiskInv, DiskFirst, OnDisk, Whole
<1>. QED
  BY <1>1, <1>3, <1>4 DEF DiskInv

LEMMA SendKept ==
  ASSUME run \in RunType, NEW answer \in {"yes", "no", "interrupt", "exception"},
         NEW x, SendReport(answer) \/ SendEvaluations(answer) \/ SendCertificate(x, answer)
  PROVE  /\ run'.scan = run.scan /\ run'.outputs = run.outputs
         /\ run'.queries = run.queries
         /\ run.stage \in {"report", "evaluations", "certificates"}
         /\ run'.stage \in {"idle", "done", "report", "evaluations", "certificates"}
         /\ \A d \in server' : d \in server \/ d.scan = run.scan
         /\ server \subseteq server'
<1>1. CASE answer \in {"interrupt", "exception"}
  BY <1>1, InterruptedType DEF SendReport, SendEvaluations, SendCertificate, Post
<1>2. CASE answer \in {"yes", "no"}
  <2>1. /\ \A d \in server' : d \in server \/ d.scan = run.scan
        /\ server \subseteq server'
        /\ run.stage \in {"report", "evaluations", "certificates"}
    BY DEF SendReport, SendEvaluations, SendCertificate, Post
  <2>2. /\ run'.scan = run.scan /\ run'.outputs = run.outputs
        /\ run'.queries = run.queries
        /\ run'.stage \in {"done", "report", "evaluations", "certificates"}
    <3>1. CASE SendReport(answer)
      <4>1. PICK t : run' = AfterReport(answer, t)
        BY <1>2, <3>1 DEF SendReport
      <4>. QED
        BY <4>1 DEF AfterReport, Ended, RunType
    <3>2. CASE SendEvaluations(answer)
      <4>1. PICK next : run' = [run EXCEPT !.stage = "report", !.next = next]
        BY <1>2, <3>2 DEF SendEvaluations
      <4>. QED
        BY <4>1 DEF RunType
    <3>3. CASE SendCertificate(x, answer)
      <4>1. PICK pending : run' = [run EXCEPT !.pending = pending]
        BY <1>2, <3>3 DEF SendCertificate
      <4>. QED
        BY <2>1, <3>3, <4>1 DEF RunType, SendCertificate
    <3>. QED
      BY <3>1, <3>2, <3>3
  <2>. QED
    BY <2>1, <2>2
<1>. QED
  BY <1>1, <1>2

LEMMA DiskStep == TypeInv /\ TypeInv' /\ DiskInv /\ [Next]_vars => DiskInv'
<1> SUFFICES ASSUME TypeInv, TypeInv', DiskInv, [Next]_vars PROVE DiskInv'
  OBVIOUS
<1>r. run \in RunType
  BY DEF TypeInv, TypeOK, RunType
<1>1. CASE Scan
  <2>1. UNCHANGED <<disk, server>>
    BY <1>1 DEF Scan
  <2>2. run.scan \in Int /\ \A d \in server : d.scan \in Int
    BY DEF TypeInv, TypeOK
  <2>3. \A d \in server' : d.scan <= run'.scan /\ d.scan # run'.scan
    BY <1>1, <2>1, <2>2, ScanStep DEF DiskInv
  <2>4. run'.stage \notin {"save", "write"} => DOMAIN run'.outputs = {}
    BY <1>1, ScanStep DEF RunType
  <2>5. \A i \in DOMAIN run'.outputs : ~(i < run'.next)
    BY <1>1, ScanStep DEF RunType
  <2>. QED
    BY <2>3, <2>4, <2>5 DEF DiskInv, DiskFirst, NoDocuments
<1>2. CASE Open
  <2> DEFINE p == run.outputs[run.next]
  <2>1. /\ run'.scan = run.scan /\ run'.outputs = run.outputs
        /\ run'.next = run.next /\ run'.stage = "write" /\ run.stage = "save"
        /\ server' = server
    BY <1>2, <1>r DEF Open, RunType
  <2>2. \A i \in DOMAIN run.outputs :
          run.outputs[i] # p => disk'[run.outputs[i]] = disk[run.outputs[i]]
    <3>1. \A i \in DOMAIN run.outputs : run.outputs[i] \in DOMAIN disk
      BY <1>r DEF TypeInv, TypeOK, RunType
    <3>2. disk' = [disk EXCEPT ![p] = [state |-> "torn", scan |-> run.scan]]
      BY <1>2 DEF Open
    <3>. QED
      BY <3>1, <3>2
  <2>3. \A i \in DOMAIN run.outputs : i < run.next =>
          run.outputs[i] = p \/ OnDisk(i)'
    BY <2>1, <2>2 DEF DiskInv, OnDisk, Whole
  <2>4. NoDocuments /\ NoDocuments'
    BY <2>1 DEF DiskInv, NoDocuments
  <2>. QED
    BY <2>1, <2>3, <2>4 DEF DiskInv, DiskFirst, NoDocuments
<1>3. CASE Write
  <2> DEFINE p == run.outputs[run.next]
             next == run.next + 1
  <2>1. run' = Saving(run, next) /\ next \in Nat \ {0}
    BY <1>3, <1>r DEF Write, RunType
  <2>2. run.stage = "write" /\ server' = server
    BY <1>3 DEF Write
  <2>3. ASSUME NEW i \in DOMAIN run.outputs, i < next
        PROVE  /\ disk'[run.outputs[i]].state = "whole"
               /\ disk'[run.outputs[i]].scan = run.scan
    <3>1. run.outputs[i] \in DOMAIN disk
      BY <1>r DEF TypeInv, TypeOK, RunType
    <3>2. disk' = [disk EXCEPT ![p] = [state |-> "whole", scan |-> run.scan]]
      BY <1>3 DEF Write
    <3>3. CASE run.outputs[i] = p
      BY <3>1, <3>2, <3>3
    <3>4. CASE run.outputs[i] # p
      <4>1. i < run.next
        BY <1>r, <2>3, <3>4 DEF RunType
      <4>2. OnDisk(i)
        BY <2>2, <3>4, <4>1 DEF DiskInv
      <4>. QED
        BY <3>1, <3>2, <3>4, <4>2 DEF OnDisk, Whole
    <3>. QED
      BY <3>3, <3>4
  <2> HIDE DEF next
  <2>4. /\ run'.scan = run.scan /\ run'.outputs = run.outputs
        /\ \/ run'.stage = "save" /\ run'.next = next
           \/ run'.stage \in {"report", "done"} /\ next > Len(run.outputs)
    BY <1>r, <2>1, SavingType
  <2>5. next > Len(run.outputs) => \A i \in DOMAIN run.outputs : i < next
    BY <1>r, <2>1 DEF RunType
  <2>6. \A d \in server' : d.scan <= run'.scan /\ d.scan # run'.scan
    BY <2>2, <2>4 DEF DiskInv, NoDocuments
  <2>. QED
    BY <2>3, <2>4, <2>5, <2>6 DEF DiskInv, DiskFirst, NoDocuments, OnDisk, Whole
<1>4. CASE Stop \/ SkipReport \/ EndReports \/ Finish
  <2>1. disk' = disk /\ server' = server
    BY <1>4 DEF Stop, SkipReport, EndReports, Finish
  <2>2. run'.scan = run.scan /\ run'.outputs = run.outputs
    BY <1>r, <1>4 DEF Stop, SkipReport, EndReports, Finish, Ended, RunType
  <2>3. CASE Stop
    <3>1. run'.stage = "idle"
      BY <1>r, <2>3 DEF Stop, RunType
    <3>. QED
      BY <2>1, <2>2, <3>1, DiskKept
  <2>4. CASE SkipReport \/ EndReports
    <3>1. run.stage = "report" /\ run'.stage \in {"report", "certificates"}
      BY <1>r, <2>4 DEF SkipReport, EndReports, RunType
    <3>. QED
      BY <2>1, <2>2, <3>1, DiskKept
  <2>5. CASE Finish
    <3>1. run'.stage = "done"
      BY <1>r, <2>5 DEF Finish, Ended, RunType
    <3>. QED
      BY <2>1, <2>2, <3>1, DiskKept
  <2>. QED
    BY <1>4, <2>3, <2>4, <2>5
<1>5. ASSUME NEW answer \in {"yes", "no", "interrupt", "exception"}, NEW x,
             SendReport(answer) \/ SendEvaluations(answer) \/ SendCertificate(x, answer)
      PROVE  DiskInv'
  <2>1. disk' = disk
    BY <1>5 DEF SendReport, SendEvaluations, SendCertificate
  <2>. QED
    BY <1>r, <1>5, <2>1, SendKept, DiskKept
<1>6. CASE UNCHANGED vars
  BY <1>6 DEF vars, DiskInv, DiskFirst, NoDocuments, OnDisk, Whole
<1>. QED
  BY <1>1, <1>2, <1>3, <1>4, <1>5, <1>6 DEF Next

(* Whatever interrupts a scan, nothing of it is on the server before        *)
(* save_final has written all its outputs, however many there are.          *)
THEOREM DiskBeforeServer == Spec => []DiskFirst
<1>1. Init => DiskInv
  BY DEF Init, Idle, Delivery, DiskInv, DiskFirst
<1>2. DiskInv => DiskFirst
  BY DEF DiskInv
<1>. QED
  BY <1>1, <1>2, TypeAlways, DiskStep, PTL DEF Spec

(*--------------------------------- uploads --------------------------------*)
Delivered(i) == HasTls(i) => Stored("report", run.queries[i].transport.target)

(* The reports that should be stored at each stage of the upload are.       *)
Progress ==
  /\ run.stage \in {"report", "evaluations"} =>
       \A i \in DOMAIN run.queries : i < run.next => Delivered(i)
  /\ run.stage = "evaluations" => HasTls(run.next) /\ Delivered(run.next)
  /\ run.stage = "certificates" => \A i \in DOMAIN run.queries : Delivered(i)
  /\ run.stage # "done" => run.message = "none"

UploadInv ==
  Progress /\ run.reports \subseteq Responding /\ ReportFirst /\ SavedMeansReports

(* What a step preserves that belongs to the same scan and removes no       *)
(* document.                                                                *)
LEMMA SameScan ==
  ASSUME run'.scan = run.scan, run'.queries = run.queries, server \subseteq server'
  PROVE  /\ \A kind, of : Stored(kind, of) => Stored(kind, of)'
         /\ Responding' = Responding
         /\ \A i : HasTls(i)' = HasTls(i)
         /\ \A i : Delivered(i) => Delivered(i)'
BY DEF Stored, Responding, HasTls, Delivered

LEMMA AllDelivered ==
  ASSUME run \in RunType, \A i \in DOMAIN run.queries : Delivered(i)
  PROVE  \A t \in Responding : Stored("report", t)
BY DEF Responding, Delivered

(* Steps that send nothing.                                                 *)
LEMMA NothingSent ==
  ASSUME TypeInv, UploadInv, server' = server, run'.scan = run.scan,
         run'.queries = run.queries
  PROVE  /\ ReportFirst'
         /\ run'.reports \subseteq run.reports => (run.reports \subseteq Responding)'
         /\ run'.message # "SAVED" => SavedMeansReports'
<1>1. \A kind, of : Stored(kind, of)' = Stored(kind, of)
  BY DEF Stored
<1>2. Responding' = Responding
  BY SameScan
<1>. QED
  BY <1>1, <1>2 DEF UploadInv, ReportFirst, SavedMeansReports

LEMMA UploadStep ==
  TypeInv /\ TypeInv' /\ DiskInv /\ UploadInv /\ [Next]_vars => UploadInv'
<1> SUFFICES ASSUME TypeInv, TypeInv', DiskInv, UploadInv, [Next]_vars
             PROVE  UploadInv'
  OBVIOUS
<1>r. run \in RunType
  BY DEF TypeInv, TypeOK, RunType
<1>n. /\ run.next \in Nat \ {0} /\ Len(run.queries) \in Nat
      /\ DOMAIN run.queries = 1..Len(run.queries)
  BY <1>r DEF RunType
<1>1. CASE Scan
  <2>1. server' = server
    BY <1>1 DEF Scan
  <2>2. run.scan \in Int /\ \A d \in server : d.scan \in Int
    BY DEF TypeInv, TypeOK
  <2>3. \A d \in server' : d.scan # run'.scan
    BY <1>1, <2>1, <2>2, ScanStep DEF DiskInv
  <2>4. ReportFirst'
    BY <2>3 DEF ReportFirst, Stored
  <2>5. \A i \in DOMAIN run'.queries : ~(i < run'.next)
    BY <1>1, ScanStep DEF RunType
  <2>6. Progress' /\ SavedMeansReports' /\ run'.reports = {}
    BY <1>1, <2>5, ScanStep DEF Progress, SavedMeansReports
  <2>. QED
    BY <2>4, <2>6 DEF UploadInv
<1>2. CASE Stop
  <2>1. /\ server' = server /\ run'.scan = run.scan /\ run'.queries = run.queries
        /\ run'.reports = run.reports /\ run'.message = run.message
        /\ run'.stage = "idle" /\ run.stage # "done"
    BY <1>r, <1>2 DEF Stop, RunType
  <2>. QED
    BY <2>1, NothingSent DEF UploadInv, Progress
<1>3. CASE Open
  <2>1. /\ server' = server /\ run'.scan = run.scan /\ run'.queries = run.queries
        /\ run'.reports = run.reports /\ run'.message = run.message
        /\ run'.stage = "write" /\ run.stage = "save"
    BY <1>r, <1>3 DEF Open, RunType
  <2>. QED
    BY <2>1, NothingSent DEF UploadInv, Progress
<1>4. CASE Write
  <2> DEFINE next == run.next + 1
  <2>1. /\ run' = Saving(run, next) /\ next \in Nat \ {0}
        /\ run.stage = "write" /\ server' = server
    BY <1>4, <1>n DEF Write
  <2> HIDE DEF next
  <2>2. /\ run'.scan = run.scan /\ run'.queries = run.queries
        /\ run'.reports = run.reports /\ run'.message = run.message
        /\ \/ run'.stage = "save"
           \/ run'.stage \in {"report", "done"} /\ run'.next = 1
    BY <1>r, <2>1, SavingType
  <2>3. \A i \in DOMAIN run.queries : ~(i < 1)
    BY <1>n
  <2>. QED
    BY <2>1, <2>2, <2>3, NothingSent DEF UploadInv, Progress
<1>5. CASE SkipReport
  <2>1. /\ server' = server /\ run'.scan = run.scan /\ run'.queries = run.queries
        /\ run'.reports = run.reports /\ run'.message = run.message
        /\ run'.stage = "report" /\ run.stage = "report" /\ ~HasTls(run.next)
    BY <1>r, <1>5 DEF SkipReport, RunType
  <2>2. run'.next = run.next + 1
    BY <1>r, <1>5 DEF SkipReport, RunType
  <2>3. \A i \in DOMAIN run.queries : i < run'.next => Delivered(i)
    BY <1>n, <2>1, <2>2 DEF UploadInv, Progress, Delivered
  <2>4. Progress'
    BY <2>1, <2>3, SameScan DEF UploadInv, Progress
  <2>. QED
    BY <2>1, <2>4, NothingSent DEF UploadInv, Progress
<1>6. CASE EndReports
  <2>1. PICK pending : run' = [run EXCEPT !.stage = "certificates", !.pending = pending]
    BY <1>6 DEF EndReports
  <2>2. /\ server' = server /\ run'.scan = run.scan /\ run'.queries = run.queries
        /\ run'.reports = run.reports /\ run'.message = run.message
        /\ run'.stage = "certificates" /\ run.stage = "report"
        /\ run.next > Len(run.queries)
    BY <1>r, <1>6, <2>1 DEF EndReports, RunType
  <2>3. \A i \in DOMAIN run.queries : Delivered(i)
    BY <1>n, <2>2 DEF UploadInv, Progress
  <2>4. Progress'
    BY <2>2, <2>3, SameScan DEF UploadInv, Progress
  <2>. QED
    BY <2>2, <2>4, NothingSent DEF UploadInv, Progress
<1>7. CASE Finish
  <2>1. PICK message :
          /\ run' = [run EXCEPT !.stage = "done", !.message = message]
          /\ message = IF run.reports # {} THEN "SAVED" ELSE "WARN"
    BY <1>7 DEF Finish, Ended
  <2>2. /\ server' = server /\ run'.scan = run.scan /\ run'.queries = run.queries
        /\ run'.reports = run.reports /\ run'.message = message
        /\ run'.stage = "done" /\ run.stage = "certificates"
    BY <1>r, <1>7, <2>1 DEF Finish, RunType
  <2>3. \A t \in Responding : Stored("report", t)
    BY <1>r, <2>2, AllDelivered DEF UploadInv, Progress
  <2>4. SavedMeansReports'
    BY <2>1, <2>2, <2>3, SameScan DEF UploadInv, SavedMeansReports
  <2>. QED
    BY <2>2, <2>4, NothingSent DEF UploadInv, Progress
<1>8. ASSUME NEW answer \in {"yes", "no", "interrupt", "exception"}, NEW x,
             SendReport(answer) \/ SendEvaluations(answer) \/ SendCertificate(x, answer)
      PROVE  UploadInv'
  <2> DEFINE t == run.queries[run.next].transport.target
  <2>k. /\ run'.scan = run.scan /\ run'.queries = run.queries
        /\ server \subseteq server'
    BY <1>r, <1>8, SendKept
  <2>m. /\ run'.message \in {run.message, "WARN"} /\ run.message = "none"
        /\ run'.message = "WARN" => run'.stage = "done"
    <3>1. CASE answer \in {"interrupt", "exception"}
      BY <1>r, <1>8, <3>1 DEF SendReport, SendEvaluations, SendCertificate,
        Interrupted, Ended, RunType, UploadInv, Progress
    <3>2. CASE answer \in {"yes", "no"}
      BY <1>r, <1>8, <3>2 DEF SendReport, SendEvaluations, SendCertificate,
        AfterReport, Ended, RunType, UploadInv, Progress
    <3>. QED
      BY <3>1, <3>2
  <2>s. SavedMeansReports'
    BY <2>m DEF SavedMeansReports
  <2>n. /\ \A kind, of : Stored(kind, of) => Stored(kind, of)'
        /\ Responding' = Responding
        /\ \A i : HasTls(i)' = HasTls(i)
        /\ \A i : Delivered(i) => Delivered(i)'
    BY <2>k, SameScan
  <2>1. CASE SendReport(answer)
    <3>1. run.next \in DOMAIN run.queries /\ HasTls(run.next) /\ run.stage = "report"
      BY <1>n, <2>1 DEF SendReport
    <3>2. t \in Target /\ t \in Responding
      BY <1>n, <1>r, <3>1, QueryTarget DEF Responding
    <3>3. Post("report", t, answer)
      BY <2>1 DEF SendReport
    <3> HIDE DEF t
    <3>4. /\ \A d \in server' \ server : d.kind = "report"
          /\ answer = "yes" =>
               [kind |-> "report", of |-> t, scan |-> run.scan] \in server'
      <4>1. \A d \in server' \ server :
              d = [kind |-> "report", of |-> t, scan |-> run.scan]
        BY <3>2, <3>3, PostType DEF TypeInv
      <4>2. \A d \in server' \ server : d.kind = "report"
        BY <4>1
      <4>. QED
        BY <3>2, <3>3, <4>2, PostType DEF TypeInv
    <3>5. ReportFirst'
      <4>1. \A of : /\ Stored("evaluations", of)' => Stored("evaluations", of)
                    /\ Stored("certificate", of)' => Stored("certificate", of)
        BY <2>k, <3>4 DEF Stored
      <4>. QED
        BY <2>n, <4>1 DEF UploadInv, ReportFirst
    <3>6. Progress' /\ run'.reports \subseteq Responding
      <4>1. CASE answer \in {"interrupt", "exception"}
        <5>1. Interrupted(answer)
          BY <2>1, <4>1 DEF SendReport
        <5>. QED
          BY <1>r, <2>m, <4>1, <5>1, InterruptedType DEF UploadInv, Progress
      <4>2. CASE answer = "no"
        <5>1. run' = [run EXCEPT !.stage = "done", !.message = "WARN"]
          BY <2>1, <4>2 DEF SendReport, AfterReport, Ended
        <5>. QED
          BY <1>r, <5>1 DEF UploadInv, Progress, RunType
      <4>3. CASE answer = "yes"
        <5>1. run' = [run EXCEPT !.stage = "evaluations", !.reports = @ \cup {t}]
          BY <2>1, <4>3 DEF SendReport, AfterReport, t
        <5>2. /\ run'.stage = "evaluations" /\ run'.next = run.next
              /\ run'.reports = run.reports \cup {t} /\ run'.message = run.message
          BY <1>r, <5>1 DEF RunType
        <5>3. Delivered(run.next)'
          BY <2>k, <3>4, <4>3, <5>2 DEF Delivered, Stored, t
        <5>. QED
          BY <2>k, <2>n, <3>1, <3>2, <5>2, <5>3 DEF UploadInv, Progress
      <4>. QED
        BY <4>1, <4>2, <4>3
    <3>. QED
      BY <2>n, <2>s, <3>5, <3>6 DEF UploadInv
  <2>2. CASE SendEvaluations(answer)
    <3>1. /\ run.next \in DOMAIN run.queries /\ HasTls(run.next)
          /\ Delivered(run.next) /\ run.stage = "evaluations"
      BY <1>n, <2>2 DEF SendEvaluations, TypeInv, Positions, UploadInv, Progress
    <3>2. t \in Target /\ Stored("report", t)
      BY <1>n, <1>r, <3>1, QueryTarget DEF Delivered
    <3>3. Post("evaluations", t, answer)
      BY <2>2 DEF SendEvaluations
    <3> HIDE DEF t
    <3>4. \A d \in server' \ server : d.kind = "evaluations" /\ d.of = t
      <4>1. \A d \in server' \ server :
              d = [kind |-> "evaluations", of |-> t, scan |-> run.scan]
        BY <3>2, <3>3, PostType DEF TypeInv
      <4>. QED
        BY <4>1
    <3>5. ReportFirst'
      <4>1. \A of : /\ Stored("evaluations", of)' => Stored("evaluations", of) \/ of = t
                    /\ Stored("certificate", of)' => Stored("certificate", of)
        BY <2>k, <3>4 DEF Stored
      <4>. QED
        BY <2>n, <3>2, <4>1 DEF UploadInv, ReportFirst
    <3>6. Progress' /\ run'.reports \subseteq Responding
      <4>1. CASE answer \in {"interrupt", "exception"}
        <5>1. Interrupted(answer)
          BY <2>2, <4>1 DEF SendEvaluations
        <5>. QED
          BY <1>r, <2>m, <4>1, <5>1, InterruptedType DEF UploadInv, Progress
      <4>2. CASE answer \in {"yes", "no"}
        <5> DEFINE next == run.next + 1
        <5>1. run' = [run EXCEPT !.stage = "report", !.next = next]
          BY <2>2, <4>2 DEF SendEvaluations
        <5>2. \A i \in DOMAIN run.queries : i < next => i < run.next \/ i = run.next
          BY <1>n
        <5> HIDE DEF next
        <5>3. /\ run'.stage = "report" /\ run'.next = next
              /\ run'.reports = run.reports /\ run'.message = run.message
          BY <1>r, <5>1 DEF RunType
        <5>. QED
          BY <2>k, <2>n, <3>1, <5>2, <5>3 DEF UploadInv, Progress
      <4>. QED
        BY <4>1, <4>2
    <3>. QED
      BY <2>n, <2>s, <3>5, <3>6 DEF UploadInv
  <2>3. CASE SendCertificate(x, answer)
    <3>1. /\ \A i \in DOMAIN run.queries : Delivered(i)
          /\ run.stage = "certificates"
      BY <2>3 DEF SendCertificate, UploadInv, Progress
    <3>2. \A of \in Responding : Stored("report", of)
      BY <1>r, <3>1, AllDelivered
    <3>3. Post("certificate", x, answer)
      BY <2>3 DEF SendCertificate
    <3>4. \A d \in server' \ server : d.kind = "certificate"
      <4>1. x \in Cert
        BY <1>r, <2>3 DEF SendCertificate, RunType
      <4>2. \A d \in server' \ server :
              d = [kind |-> "certificate", of |-> x, scan |-> run.scan]
        BY <3>3, <4>1, PostType DEF TypeInv
      <4>. QED
        BY <4>2
    <3>5. ReportFirst'
      <4>1. \A of : Stored("evaluations", of)' => Stored("evaluations", of)
        BY <2>k, <3>4 DEF Stored
      <4>. QED
        BY <2>n, <3>2, <4>1 DEF UploadInv, ReportFirst
    <3>6. Progress' /\ run'.reports \subseteq Responding
      <4>1. CASE answer \in {"interrupt", "exception"}
        <5>1. Interrupted(answer)
          BY <2>3, <4>1 DEF SendCertificate
        <5>. QED
          BY <1>r, <2>m, <4>1, <5>1, InterruptedType DEF UploadInv, Progress
      <4>2. CASE answer \in {"yes", "no"}
        <5>1. PICK pending : run' = [run EXCEPT !.pending = pending]
          BY <2>3, <4>2 DEF SendCertificate
        <5>2. /\ run'.stage = "certificates" /\ run'.reports = run.reports
              /\ run'.message = run.message
          BY <1>r, <3>1, <5>1 DEF RunType
        <5>. QED
          BY <2>k, <2>n, <3>1, <5>2 DEF UploadInv, Progress
      <4>. QED
        BY <4>1, <4>2
    <3>. QED
      BY <2>n, <2>s, <3>5, <3>6 DEF UploadInv
  <2>. QED
    BY <1>8, <2>1, <2>2, <2>3
<1>9. CASE UNCHANGED vars
  <2>1. server' = server /\ run' = run
    BY <1>9 DEF vars
  <2>2. Progress'
    BY <2>1, SameScan DEF UploadInv, Progress
  <2>3. SavedMeansReports'
    BY <2>1, SameScan DEF UploadInv, SavedMeansReports
  <2>. QED
    BY <2>1, <2>2, <2>3, NothingSent DEF UploadInv
<1>. QED
  BY <1>1, <1>2, <1>3, <1>4, <1>5, <1>6, <1>7, <1>8, <1>9 DEF Next

LEMMA UploadAlways == Spec => []UploadInv
<1>1. Init => UploadInv
  BY DEF Init, Idle, Delivery, UploadInv, Progress, Responding, ReportFirst,
    SavedMeansReports, Stored
<1>2. Init => DiskInv
  BY DEF Init, Idle, Delivery, DiskInv, DiskFirst
<1>. QED
  BY <1>1, <1>2, TypeAlways, DiskStep, UploadStep, PTL DEF Spec

(* However many requests fail, lose their answers or are interrupted,       *)
(* _send_files stores no evaluations without their report and no            *)
(* certificate before all reports of its scan.                              *)
THEOREM ReportsFirst == Spec => []ReportFirst
<1>1. UploadInv => ReportFirst
  BY DEF UploadInv
<1>. QED
  BY <1>1, UploadAlways, PTL

(* When scan prints SAVED after update_cloud, the server has the report of  *)
(* every target that responded, and at least one did.                       *)
THEOREM SavedTruly == Spec => []SavedMeansReports
<1>1. UploadInv => SavedMeansReports
  BY DEF UploadInv
<1>. QED
  BY <1>1, UploadAlways, PTL

(*------------------------- tracking the same targets ----------------------*)
(* A fold over one pair.                                                    *)
LEMMA OneOccurrence ==
  ASSUME NEW a, NEW b, NEW l, NEW c, a[l] * b[c] \in Nat
  PROVE  Occurrences(a, b, {<<l, c>>}) = a[l] * b[c]
<1> DEFINE S == {<<l, c>>}
           body(f) == [s \in SUBSET S |->
              IF s = {} THEN 0
              ELSE a[(CHOOSE x \in s : TRUE)[1]] * b[(CHOOSE x \in s : TRUE)[2]]
                     + f[s \ {CHOOSE x \in s : TRUE}]]
           g == [s \in SUBSET S |-> IF s = {} THEN 0 ELSE a[l] * b[c]]
           f == CHOOSE i : i = body(i)
<1>1. (CHOOSE x \in S : TRUE) = <<l, c>>
  OBVIOUS
<1>2. g = body(g)
  <2>1. ASSUME NEW s \in SUBSET S PROVE g[s] = body(g)[s]
    <3>1. CASE s = {}
      BY <3>1
    <3>2. CASE s = S
      <4>1. g[S] = a[l] * b[c] /\ S \ {<<l, c>>} = {} /\ g[{}] = 0
        OBVIOUS
      <4>2. body(g)[S] = a[l] * b[c] + g[S \ {<<l, c>>}]
        BY <1>1
      <4>. QED
        BY <3>2, <4>1, <4>2
    <3>3. s = {} \/ s = S
      OBVIOUS
    <3>. QED
      BY <3>1, <3>2, <3>3
  <2>. QED
    BY <2>1
<1>3. f = body(f)
  <2>1. \E i : i = body(i)
    <3> HIDE DEF body, g
    <3>. QED
      BY <1>2
  <2> HIDE DEF body
  <2>. QED
    BY <2>1, Zenon
<1>4. f[S] = a[l] * b[c] + f[{}] /\ f[{}] = 0
  <2>1. ASSUME NEW h PROVE body(h)[S] = a[l] * b[c] + h[{}] /\ body(h)[{}] = 0
    <3>1. S \in SUBSET S /\ {} \in SUBSET S /\ S # {} /\ S \ {<<l, c>>} = {}
      OBVIOUS
    <3>2. body(h)[S] = a[(CHOOSE x \in S : TRUE)[1]] * b[(CHOOSE x \in S : TRUE)[2]]
                         + h[S \ {CHOOSE x \in S : TRUE}]
      <4> HIDE DEF S
      <4>. QED
        BY <3>1
    <3>3. body(h)[{}] = 0
      BY <3>1
    <3>4. /\ (CHOOSE x \in S : TRUE)[1] = l /\ (CHOOSE x \in S : TRUE)[2] = c
          /\ S \ {CHOOSE x \in S : TRUE} = {}
      <4> PICK q : q = CHOOSE x \in S : TRUE
        OBVIOUS
      <4>1. q = <<l, c>>
        BY <1>1
      <4>2. q[1] = l /\ q[2] = c /\ S \ {q} = {}
        BY <4>1
      <4>. QED
        BY <4>2
    <3> HIDE DEF S, body
    <3>. QED
      BY <3>2, <3>3, <3>4
  <2> HIDE DEF body, f
  <2>. QED
    BY <1>3, <2>1
<1>5. Occurrences(a, b, S) = f[S]
  BY DEF Occurrences, MapThenSumSet, MapThenFoldSet
<1> HIDE DEF f
<1>. QED
  BY <1>4, <1>5

LEMMA OrderOnto ==
  ASSUME NEW S, IsFiniteSet(S), NEW f \in SetToSeqs(S)
  PROVE  DOMAIN f = 1..Cardinality(S) /\ {f[i] : i \in DOMAIN f} = S
<1>1. Cardinality(S) \in Nat
  BY FS_CardinalityType
<1>2. /\ f \in [1..Cardinality(S) -> S]
      /\ \A i, j \in 1..Cardinality(S) : i # j => f[i] # f[j]
  BY DEF SetToSeqs
<1>3. f \in Injection(1..Cardinality(S), S)
  BY <1>2 DEF Injection, IsInjective
<1>4. Cardinality(1..Cardinality(S)) = Cardinality(S)
  <2>1. Cardinality(1..Cardinality(S)) =
          IF 1 > Cardinality(S) THEN 0 ELSE Cardinality(S) - 1 + 1
    BY <1>1, FS_Interval
  <2>. QED
    BY <1>1, <2>1
<1>5. f \in Surjection(1..Cardinality(S), S)
  BY <1>3, <1>4, FS_Injection
<1>. QED
  BY <1>2, <1>5 DEF Surjection

Targets(b) == {e.transport.target : e \in DOMAIN b}

LEMMA QueryOf ==
  ASSUME NEW t, NEW outcome, NEW scan
  PROVE  Query(t, outcome, scan).transport = [target |-> t, scan |-> scan]
BY DEF Query, Answered, Failed

(* A report compared with one of the same targets keeps them all: each of   *)
(* its entries has a counterpart.                                           *)
LEMMA TrackTargets ==
  ASSUME NEW last, DOMAIN last \subseteq Entry,
         NEW current, DOMAIN current \subseteq Entry,
         Targets(last) = Targets(current)
  PROVE  Targets(TrackDelta(last, current)) = Targets(current)
<1> DEFINE results == Pairing(last, current, SameHost, Delta)
<1>1. DOMAIN results = {Delta(p[1], p[2]) : p \in {q \in (DOMAIN last) \X (DOMAIN current) :
                                                    SameHost(q[1], q[2])}}
  BY DEF Pairing
<1>2. TrackDelta(last, current) = Merged(current, results)
  BY DEF TrackDelta
<1> HIDE DEF results
<1>3. ASSUME NEW l \in DOMAIN last, NEW c \in DOMAIN current
      PROVE  Delta(l, c) \in Entry /\ Delta(l, c).transport = c.transport
  BY DeltaType
<1>4. ASSUME NEW r \in DOMAIN results
      PROVE  r \in Entry /\ \E c \in DOMAIN current : r.transport = c.transport
  BY <1>1, <1>3
<1>5. ASSUME NEW c \in DOMAIN current PROVE \E r \in DOMAIN results : r.transport = c.transport
  <2>1. c.transport.target \in Targets(last)
    BY DEF Targets
  <2>2. PICK l \in DOMAIN last : l.transport.target = c.transport.target
    BY <2>1 DEF Targets
  <2>3. <<l, c>> \in (DOMAIN last) \X (DOMAIN current) /\ SameHost(l, c)
    BY <2>2 DEF SameHost
  <2>4. Delta(l, c) \in DOMAIN results
    BY <1>1, <2>3
  <2>. QED
    BY <1>3, <2>4
<1>6. Targets(results) = Targets(current)
  BY <1>4, <1>5 DEF Targets
<1>7. CASE DOMAIN current = {} \/ DOMAIN results = {}
  BY <1>2, <1>6, <1>7 DEF Merged
<1>8. CASE DOMAIN current # {} /\ DOMAIN results # {}
  <2>1. DOMAIN Merged(current, results) =
          {Updated(p[1], p[2]) : p \in (DOMAIN current) \X (DOMAIN results)}
    BY <1>8 DEF Merged, Pairing
  <2>2. ASSUME NEW x \in DOMAIN current, NEW r \in DOMAIN results
        PROVE  /\ Updated(x, r) \in DOMAIN Merged(current, results)
               /\ Updated(x, r).transport = r.transport
    <3>1. <<x, r>> \in (DOMAIN current) \X (DOMAIN results)
      OBVIOUS
    <3>2. Updated(x, r) \in DOMAIN Merged(current, results)
      BY <2>1, <3>1
    <3>. QED
      BY <1>4, <3>2, UpdatedType
  <2>3. ASSUME NEW u \in DOMAIN Merged(current, results)
        PROVE  \E r \in DOMAIN results : u.transport = r.transport
    <3>1. PICK q \in (DOMAIN current) \X (DOMAIN results) : u = Updated(q[1], q[2])
      BY <2>1
    <3>2. q[1] \in DOMAIN current /\ q[2] \in DOMAIN results
      BY <3>1
    <3>3. Updated(q[1], q[2]).transport = q[2].transport
      BY <3>2, <2>2
    <3>. QED
      BY <3>1, <3>2, <3>3
  <2>4. ASSUME NEW r \in DOMAIN results
        PROVE  \E u \in DOMAIN Merged(current, results) : u.transport = r.transport
    BY <1>8, <2>2
  <2>5. Targets(Merged(current, results)) = Targets(results)
    BY <2>3, <2>4 DEF Targets
  <2>. QED
    BY <1>2, <1>6, <2>5
<1>. QED
  BY <1>7, <1>8

(* A report of one entry, of a target that answered.                        *)
Sole(e, t) ==
  /\ e.transport.target = t /\ e.error = None /\ e.evaluations # None
  /\ \A k \in Key : Evaluations[t][k] <= 1 => e.evaluations.count[k] = Evaluations[t][k]
One(b, t) == \E e \in Entry \cap DOMAIN b : b = [x \in {e} |-> 1] /\ Sole(e, t)

LEMMA TrackOne ==
  ASSUME NEW t \in Target, NEW last, One(last, t), NEW current, One(current, t)
  PROVE  One(TrackDelta(last, current), t)
<1>1. PICK l \in Entry : last = [x \in {l} |-> 1] /\ Sole(l, t)
  BY DEF One
<1>2. PICK c \in Entry : current = [x \in {c} |-> 1] /\ Sole(c, t)
  BY DEF One
<1> DEFINE results == Pairing(last, current, SameHost, Delta)
<1>3. PICK d : d = Delta(l, c)
  OBVIOUS
<1>4. d \in Entry /\ d.transport = c.transport /\ d.error = c.error /\ d.evaluations # None
  BY <1>3, DeltaType
<1>5. Sole(d, t)
  <2>1. d.evaluations.count = [k \in Key |-> l.evaluations.count[k] * c.evaluations.count[k]]
    BY <1>1, <1>2, <1>3, Fields DEF Delta, Sole
  <2>2. ASSUME NEW k \in Key, Evaluations[t][k] <= 1
        PROVE  d.evaluations.count[k] = Evaluations[t][k]
    <3>1. Evaluations[t][k] \in {0, 1}
      <4>1. Evaluations[t] \in [Key -> Nat]
        BY DeliveryAssumption
      <4>. QED
        BY <2>2, <4>1
    <3>2. /\ l.evaluations.count[k] = Evaluations[t][k]
          /\ c.evaluations.count[k] = Evaluations[t][k]
      BY <1>1, <1>2, <2>2 DEF Sole
    <3>3. d.evaluations.count[k] = Evaluations[t][k] * Evaluations[t][k]
      BY <2>1, <3>2
    <3>. QED
      BY <3>1, <3>3
  <2>. QED
    BY <1>2, <1>4, <2>2 DEF Sole
<1>6. results = [x \in {d} |-> 1]
  <2> DEFINE pairs == {p \in (DOMAIN last) \X (DOMAIN current) : SameHost(p[1], p[2])}
  <2>1. pairs = {<<l, c>>}
    <3>1. SameHost(l, c)
      BY <1>1, <1>2 DEF SameHost, Sole
    <3>2. (DOMAIN last) \X (DOMAIN current) = {<<l, c>>}
      BY <1>1, <1>2
    <3>. QED
      BY <3>1, <3>2
  <2>2. results = [e \in {Delta(p[1], p[2]) : p \in pairs} |->
                     Occurrences(last, current, {p \in pairs : Delta(p[1], p[2]) = e})]
    BY DEF Pairing
  <2> HIDE DEF pairs, results
  <2>3. {Delta(p[1], p[2]) : p \in pairs} = {d}
    BY <1>3, <2>1
  <2>4. {p \in pairs : Delta(p[1], p[2]) = d} = {<<l, c>>}
    BY <1>3, <2>1
  <2>5. Occurrences(last, current, {<<l, c>>}) = 1
    <3>1. last[l] = 1 /\ current[c] = 1 /\ 1 * 1 = 1
      BY <1>1, <1>2
    <3>2. last[l] * current[c] = 1
      BY <3>1
    <3>3. last[l] * current[c] \in Nat
      BY <3>2
    <3>4. Occurrences(last, current, {<<l, c>>}) = last[l] * current[c]
      BY <3>3, OneOccurrence
    <3>. QED
      BY <3>2, <3>4, Zenon
  <2>. QED
    BY <2>2, <2>3, <2>4, <2>5
<1> HIDE DEF results
<1>7. PICK u : u = Updated(c, d)
  OBVIOUS
<1>8. u \in Entry /\ Sole(u, t)
  <2>1. u \in Entry /\ u.transport = d.transport /\ u.evaluations = d.evaluations
        /\ u.error = IF d.error = None THEN c.error ELSE d.error
    BY <1>4, <1>7, UpdatedType
  <2>. QED
    BY <1>2, <1>5, <2>1 DEF Sole
<1>9. Merged(current, results) = [x \in {u} |-> 1]
  <2> DEFINE pairs == {p \in (DOMAIN current) \X (DOMAIN results) : TRUE}
  <2>1. pairs = {<<c, d>>}
    BY <1>2, <1>6
  <2>2. DOMAIN current # {} /\ DOMAIN results # {}
    BY <1>2, <1>6
  <2>3. Merged(current, results) =
          [e \in {Updated(p[1], p[2]) : p \in pairs} |->
             Occurrences(current, results, {p \in pairs : Updated(p[1], p[2]) = e})]
    BY <2>2 DEF Merged, Pairing
  <2> HIDE DEF pairs
  <2>4. {Updated(p[1], p[2]) : p \in pairs} = {u}
    BY <1>7, <2>1
  <2>5. {p \in pairs : Updated(p[1], p[2]) = u} = {<<c, d>>}
    BY <1>7, <2>1
  <2>6. Occurrences(current, results, {<<c, d>>}) = 1
    <3>1. current[c] = 1 /\ results[d] = 1 /\ 1 * 1 = 1
      BY <1>2, <1>6
    <3>2. current[c] * results[d] = 1
      BY <3>1
    <3>3. current[c] * results[d] \in Nat
      BY <3>2
    <3>4. Occurrences(current, results, {<<c, d>>}) = current[c] * results[d]
      BY <3>3, OneOccurrence
    <3>. QED
      BY <3>2, <3>4, Zenon
  <2>. QED
    BY <2>3, <2>4, <2>5, <2>6
<1>10. TrackDelta(last, current) = Merged(current, results)
  BY DEF TrackDelta, results
<1>. QED
  BY <1>8, <1>9, <1>10 DEF One

(* What a scan starts from.                                                 *)
LEMMA ScanSeen ==
  ASSUME Scan
  PROVE  \E targets \in Configurations :
         \E outcome \in [targets -> {"answers", "fails", "dropped"}] :
         \E order \in SetToSeqs({t \in targets : outcome[t] # "dropped"}) :
           /\ seen' = seen \cup {outcome}
           /\ data' = [e \in {Query(order[i], outcome[order[i]], run.scan + 1) : i \in DOMAIN order}
                         |-> 1]
           /\ UNCHANGED <<disk, content>>
<1>1. PICK targets \in Configurations, option \in Options :
        \E outcome \in [targets -> {"answers", "fails", "dropped"}] :
        \E order \in SetToSeqs({t \in targets : outcome[t] # "dropped"}) :
          LET queries == [i \in DOMAIN order |->
                            Query(order[i], outcome[order[i]], run.scan + 1)]
          IN /\ data' = [e \in Range(queries) |-> 1]
             /\ seen' = seen \cup {outcome}
  BY DEF Scan
<1>2. PICK outcome \in [targets -> {"answers", "fails", "dropped"}] :
        \E order \in SetToSeqs({t \in targets : outcome[t] # "dropped"}) :
          LET queries == [i \in DOMAIN order |->
                            Query(order[i], outcome[order[i]], run.scan + 1)]
          IN /\ data' = [e \in Range(queries) |-> 1]
             /\ seen' = seen \cup {outcome}
  BY <1>1
<1>3. PICK order \in SetToSeqs({t \in targets : outcome[t] # "dropped"}) :
          LET queries == [i \in DOMAIN order |->
                            Query(order[i], outcome[order[i]], run.scan + 1)]
          IN /\ data' = [e \in Range(queries) |-> 1]
             /\ seen' = seen \cup {outcome}
  BY <1>2
<1> DEFINE queries == [i \in DOMAIN order |-> Query(order[i], outcome[order[i]], run.scan + 1)]
<1>4. Range(queries) = {Query(order[i], outcome[order[i]], run.scan + 1) : i \in DOMAIN order}
  BY DEF Range
<1>5. UNCHANGED <<disk, content>>
  BY DEF Scan
<1>. QED
  BY <1>3, <1>4, <1>5

(* Any other step writes what the delivery holds, or compares it with a     *)
(* file, or does neither.                                                   *)
LEMMA OtherSteps ==
  ASSUME TypeInv, [Next]_vars, ~Scan
  PROVE  /\ seen' = seen
         /\ run'.stage \in {"save", "write"} => run.stage \in {"save", "write"}
         /\ \A p \in Path : Whole(p)' =>
              \/ Whole(p) /\ content'[p] = content[p]
              \/ run.stage = "write" /\ content'[p] = data
         /\ data' = data \/ \E q \in Path : Whole(q) /\ data' = TrackDelta(content[q], data)
<1>r. run \in RunType
  BY DEF TypeInv, TypeOK, RunType
<1>d. DOMAIN disk = Path /\ DOMAIN content = Path
  BY DEF TypeInv, TypeOK
<1>1. ASSUME UNCHANGED <<disk, content, data, seen>>,
             run'.stage \in {"save", "write"} => run.stage \in {"save", "write"}
      PROVE  /\ seen' = seen
             /\ run'.stage \in {"save", "write"} => run.stage \in {"save", "write"}
             /\ \A p \in Path : Whole(p)' =>
                  \/ Whole(p) /\ content'[p] = content[p]
                  \/ run.stage = "write" /\ content'[p] = data
             /\ data' = data \/ \E q \in Path : Whole(q) /\ data' = TrackDelta(content[q], data)
  BY <1>1 DEF Whole
<1>2. CASE Open
  <2> PICK p : p = run.outputs[run.next]
    OBVIOUS
  <2>1. /\ seen' = seen /\ run.stage = "save"
        /\ disk' = [disk EXCEPT ![p] = [state |-> "torn", scan |-> run.scan]]
        /\ content' = [content EXCEPT ![p] = << >>]
        /\ data' = IF run.track /\ disk[run.baseline].state = "whole"
                   THEN TrackDelta(content[run.baseline], data) ELSE data
        /\ ~(run.track /\ run.baseline = None)
    BY <1>2 DEF Open
  <2>2. ASSUME NEW q \in Path, Whole(q)' PROVE Whole(q) /\ content'[q] = content[q]
    <3>1. q # p
      BY <2>1, <2>2, <1>d DEF Whole
    <3>. QED
      BY <2>1, <2>2, <3>1, <1>d DEF Whole
  <2>3. data' = data \/ \E q \in Path : Whole(q) /\ data' = TrackDelta(content[q], data)
    <3>1. CASE run.track /\ disk[run.baseline].state = "whole"
      <4>1. run.baseline \in Path
        BY <1>r, <2>1, <3>1 DEF RunType
      <4>. QED
        BY <2>1, <3>1, <4>1 DEF Whole
    <3>2. CASE ~(run.track /\ disk[run.baseline].state = "whole")
      BY <2>1, <3>2
    <3>. QED
      BY <3>1, <3>2
  <2>. QED
    BY <2>1, <2>2, <2>3
<1>3. CASE Write
  <2> PICK p : p = run.outputs[run.next]
    OBVIOUS
  <2>1. /\ seen' = seen /\ data' = data /\ run.stage = "write"
        /\ disk' = [disk EXCEPT ![p] = [state |-> "whole", scan |-> run.scan]]
        /\ content' = [content EXCEPT ![p] = data]
    BY <1>3 DEF Write
  <2>2. ASSUME NEW q \in Path, Whole(q)'
        PROVE  (Whole(q) /\ content'[q] = content[q]) \/ content'[q] = data
    <3>1. CASE q = p
      BY <2>1, <3>1, <1>d
    <3>2. CASE q # p
      BY <2>1, <2>2, <3>2, <1>d DEF Whole
    <3>. QED
      BY <3>1, <3>2
  <2>. QED
    BY <2>1, <2>2
<1>4. CASE Stop \/ SkipReport \/ EndReports \/ Finish
  BY <1>r, <1>1, <1>4 DEF Stop, SkipReport, EndReports, Finish, Ended, RunType
<1>5. ASSUME NEW answer \in {"yes", "no", "interrupt", "exception"}, NEW x,
             SendReport(answer) \/ SendEvaluations(answer) \/ SendCertificate(x, answer)
      PROVE  /\ UNCHANGED <<disk, content, data, seen>>
             /\ run'.stage \in {"save", "write"} => run.stage \in {"save", "write"}
  <2>1. CASE answer \in {"interrupt", "exception"}
    BY <1>r, <1>5, <2>1, InterruptedType DEF SendReport, SendEvaluations, SendCertificate
  <2>2. CASE answer \in {"yes", "no"}
    BY <1>r, <1>5, <2>2
      DEF SendReport, SendEvaluations, SendCertificate, AfterReport, Ended, RunType
  <2>. QED
    BY <2>1, <2>2
<1>6. CASE UNCHANGED vars
  BY <1>1, <1>6 DEF vars
<1>. QED
  BY <1>1, <1>2, <1>3, <1>4, <1>5, <1>6 DEF Next

(* While all scans are of the same targets, so are the files and the report *)
(* that is being delivered.                                                 *)
Steady(targets) == \A f \in seen : DOMAIN f = targets /\ \A t \in targets : f[t] # "dropped"
SteadyInv ==
  \A targets \in Configurations : Steady(targets) =>
    /\ \A p \in Path : Whole(p) => Targets(content[p]) = targets
    /\ run.stage \in {"save", "write"} => Targets(data) = targets

LEMMA SteadyStep == TypeInv /\ SteadyInv /\ [Next]_vars => SteadyInv'
<1> SUFFICES ASSUME TypeInv, SteadyInv, [Next]_vars,
                    NEW targets \in Configurations, Steady(targets)'
             PROVE  /\ \A p \in Path : Whole(p)' => Targets(content'[p]) = targets
                    /\ run'.stage \in {"save", "write"} => Targets(data') = targets
  BY DEF SteadyInv, Targets
<1>1. CASE Scan
  <2>1. PICK own \in Configurations :
         \E outcome \in [own -> {"answers", "fails", "dropped"}] :
         \E order \in SetToSeqs({t \in own : outcome[t] # "dropped"}) :
           /\ seen' = seen \cup {outcome}
           /\ data' = [e \in {Query(order[i], outcome[order[i]], run.scan + 1) : i \in DOMAIN order}
                         |-> 1]
           /\ UNCHANGED <<disk, content>>
    BY <1>1, ScanSeen
  <2>2. PICK outcome \in [own -> {"answers", "fails", "dropped"}] :
         \E order \in SetToSeqs({t \in own : outcome[t] # "dropped"}) :
           /\ seen' = seen \cup {outcome}
           /\ data' = [e \in {Query(order[i], outcome[order[i]], run.scan + 1) : i \in DOMAIN order}
                         |-> 1]
           /\ UNCHANGED <<disk, content>>
    BY <2>1
  <2>3. PICK order \in SetToSeqs({t \in own : outcome[t] # "dropped"}) :
           /\ seen' = seen \cup {outcome}
           /\ data' = [e \in {Query(order[i], outcome[order[i]], run.scan + 1) : i \in DOMAIN order}
                         |-> 1]
           /\ UNCHANGED <<disk, content>>
    BY <2>2
  <2>4. own = targets /\ {t \in own : outcome[t] # "dropped"} = targets
    BY <2>2, <2>3 DEF Steady
  <2>5. {order[i] : i \in DOMAIN order} = targets
    <3> PICK S : S = {t \in own : outcome[t] # "dropped"}
      OBVIOUS
    <3>1. order \in SetToSeqs(S) /\ S = targets /\ IsFiniteSet(S)
      BY <2>3, <2>4, DeliveryAssumption
    <3>. QED
      BY <3>1, OrderOnto
  <2>6. Targets(data') = {Query(order[i], outcome[order[i]], run.scan + 1).transport.target :
                            i \in DOMAIN order}
    BY <2>3 DEF Targets
  <2>7. Targets(data') = targets
    <3>1. ASSUME NEW i
          PROVE  Query(order[i], outcome[order[i]], run.scan + 1).transport.target = order[i]
      <4>1. Query(order[i], outcome[order[i]], run.scan + 1).transport =
              [target |-> order[i], scan |-> run.scan + 1]
        BY QueryOf
      <4>. QED
        BY <4>1
    <3>. QED
      BY <2>5, <2>6, <3>1
  <2>8. Steady(targets)
    BY <2>3 DEF Steady
  <2>. QED
    BY <2>3, <2>7, <2>8 DEF SteadyInv, Whole, Targets
<1>2. CASE ~Scan
  <2>1. Steady(targets)
    BY <1>2, OtherSteps DEF Steady
  <2>2. /\ \A p \in Path : Whole(p) => Targets(content[p]) = targets
        /\ run.stage \in {"save", "write"} => Targets(data) = targets
    BY <2>1 DEF SteadyInv
  <2>3. ASSUME NEW p \in Path, Whole(p)' PROVE Targets(content'[p]) = targets
    BY <1>2, <2>2, <2>3, OtherSteps
  <2>4. ASSUME run'.stage \in {"save", "write"} PROVE Targets(data') = targets
    <3>1. Targets(data) = targets
      BY <1>2, <2>2, <2>4, OtherSteps
    <3>2. ASSUME NEW q \in Path, Whole(q), data' = TrackDelta(content[q], data)
          PROVE  Targets(data') = targets
      <4>1. DOMAIN content[q] \subseteq Entry /\ DOMAIN data \subseteq Entry
        BY DEF TypeInv, TypeOK
      <4>. QED
        BY <2>2, <3>1, <3>2, <4>1, TrackTargets
    <3>. QED
      BY <1>2, <3>1, <3>2, OtherSteps
  <2>. QED
    BY <2>3, <2>4
<1>. QED
  BY <1>1, <1>2

(* However often the same targets are scanned and tracked, with runs killed *)
(* and files torn in between, track_delta and merge_lists_by_value drop     *)
(* none that yields a result from a report.                                 *)
THEOREM TrackingKeeps == Spec => []SteadyKept
<1>1. Init => SteadyInv
  BY DEF Init, SteadyInv, Whole, Idle, Delivery
<1>2. SteadyInv => SteadyKept
  BY DEF SteadyInv, SteadyKept, Steady, Targets, Entries
<1>. QED
  BY <1>1, <1>2, TypeAlways, SteadyStep, PTL DEF Spec

(* The same of one target that always answers, with its numbers.            *)
Always(t) == \A f \in seen : DOMAIN f = {t} /\ f[t] = "answers"
AloneInv ==
  \A t \in Target : Always(t) =>
    /\ \A p \in Path : Whole(p) => One(content[p], t)
    /\ run.stage \in {"save", "write"} => One(data, t)

LEMMA AnswerSole ==
  ASSUME NEW t \in Target, NEW scan \in 0..MaxScan
  PROVE  Query(t, "answers", scan) \in Entry /\ Sole(Query(t, "answers", scan), t)
<1> DEFINE o == [target |-> t, scan |-> scan]
<1>1. o \in Origin /\ o.target = t
  BY DEF Origin
<1>2. Query(t, "answers", scan) = Answered(o)
  BY DEF Query
<1> HIDE DEF o
<1>3. Answered(o) \in Entry
  BY <1>1, AnsweredType
<1>4. /\ Answered(o).transport = o /\ Answered(o).error = None
      /\ Answered(o).evaluations = [of |-> o, count |-> Evaluations[t]]
  BY <1>1 DEF Answered
<1>5. [of |-> o, count |-> Evaluations[t]] # None
  <2>1. [of |-> o, count |-> Evaluations[t]] \in [of : Origin, count : [Key -> Nat]]
    BY <1>1, DeliveryAssumption
  <2>. QED
    BY <2>1, DeliveryAssumption DEF Origin
<1>. QED
  BY <1>1, <1>2, <1>3, <1>4, <1>5 DEF Sole

LEMMA AloneStep == TypeInv /\ AloneInv /\ [Next]_vars => AloneInv'
<1> SUFFICES ASSUME TypeInv, AloneInv, [Next]_vars, NEW t \in Target, Always(t)'
             PROVE  /\ \A p \in Path : Whole(p)' => One(content'[p], t)
                    /\ run'.stage \in {"save", "write"} => One(data', t)
  BY DEF AloneInv, One
<1>1. CASE Scan
  <2>1. PICK own \in Configurations :
         \E outcome \in [own -> {"answers", "fails", "dropped"}] :
         \E order \in SetToSeqs({u \in own : outcome[u] # "dropped"}) :
           /\ seen' = seen \cup {outcome}
           /\ data' = [e \in {Query(order[i], outcome[order[i]], run.scan + 1) : i \in DOMAIN order}
                         |-> 1]
           /\ UNCHANGED <<disk, content>>
    BY <1>1, ScanSeen
  <2>2. PICK outcome \in [own -> {"answers", "fails", "dropped"}] :
         \E order \in SetToSeqs({u \in own : outcome[u] # "dropped"}) :
           /\ seen' = seen \cup {outcome}
           /\ data' = [e \in {Query(order[i], outcome[order[i]], run.scan + 1) : i \in DOMAIN order}
                         |-> 1]
           /\ UNCHANGED <<disk, content>>
    BY <2>1
  <2>3. PICK order \in SetToSeqs({u \in own : outcome[u] # "dropped"}) :
           /\ seen' = seen \cup {outcome}
           /\ data' = [e \in {Query(order[i], outcome[order[i]], run.scan + 1) : i \in DOMAIN order}
                         |-> 1]
           /\ UNCHANGED <<disk, content>>
    BY <2>2
  <2>4. own = {t} /\ outcome[t] = "answers" /\ {u \in own : outcome[u] # "dropped"} = {t}
    BY <2>2, <2>3 DEF Always
  <2>5. {order[i] : i \in DOMAIN order} = {t}
    <3> PICK S : S = {u \in own : outcome[u] # "dropped"}
      OBVIOUS
    <3>1. order \in SetToSeqs(S) /\ S = {t} /\ IsFiniteSet(S)
      BY <2>3, <2>4, DeliveryAssumption
    <3>. QED
      BY <3>1, OrderOnto
  <2>6. run.scan + 1 \in 0..MaxScan
    BY <1>1, DeliveryAssumption DEF Scan, TypeInv, TypeOK
  <2> PICK e : e = Query(t, "answers", run.scan + 1)
    OBVIOUS
  <2>7. {Query(order[i], outcome[order[i]], run.scan + 1) : i \in DOMAIN order} = {e}
    BY <2>4, <2>5
  <2>8. One(data', t)
    BY <2>3, <2>6, <2>7, AnswerSole DEF One
  <2>9. Always(t)
    BY <2>3 DEF Always
  <2>. QED
    BY <2>3, <2>8, <2>9 DEF AloneInv, Whole
<1>2. CASE ~Scan
  <2>1. Always(t)
    BY <1>2, OtherSteps DEF Always
  <2>2. /\ \A p \in Path : Whole(p) => One(content[p], t)
        /\ run.stage \in {"save", "write"} => One(data, t)
    BY <2>1 DEF AloneInv
  <2>3. ASSUME NEW p \in Path, Whole(p)' PROVE One(content'[p], t)
    BY <1>2, <2>2, <2>3, OtherSteps
  <2>4. ASSUME run'.stage \in {"save", "write"} PROVE One(data', t)
    <3>1. One(data, t)
      BY <1>2, <2>2, <2>4, OtherSteps
    <3>2. ASSUME NEW q \in Path, Whole(q), data' = TrackDelta(content[q], data)
          PROVE  One(data', t)
      BY <2>2, <3>1, <3>2, TrackOne
    <3>. QED
      BY <1>2, <3>1, <3>2, OtherSteps
  <2>. QED
    BY <2>3, <2>4
<1>. QED
  BY <1>1, <1>2

(* A target scanned and tracked alone keeps one entry, without an error,    *)
(* and in it every evaluation it has once exactly once: however many scans  *)
(* are multiplied into the report, nothing of it is doubled or lost.        *)
THEOREM TrackingAlone == Spec => []AloneSame
<1>1. Init => AloneInv
  BY DEF Init, AloneInv, Whole, Idle, Delivery
<1>2. AloneInv => AloneSame
  <2> SUFFICES ASSUME AloneInv, NEW t \in Target, Always(t), NEW p \in Path, Whole(p),
                      NEW e \in Entries(p)
               PROVE  /\ content[p][e] = 1
                      /\ e.error = None
                      /\ \A k \in Key : Evaluations[t][k] <= 1 =>
                           e.evaluations.count[k] = Evaluations[t][k]
    BY DEF AloneSame, Always
  <2>1. One(content[p], t)
    BY DEF AloneInv
  <2>. QED
    BY <2>1 DEF One, Sole, Entries
<1>. QED
  BY <1>1, <1>2, TypeAlways, AloneStep, PTL DEF Spec
===============================================================================
