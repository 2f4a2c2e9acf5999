------------------------- MODULE ScanSession_proofs -------------------------
(* Proofs about ScanSession, for every set of processes and targets.       *)
EXTENDS ScanSession, SequenceTheorems, TLAPS

USE DEF Phases, LastPhase

(* A checkpoint name.                                                      *)
LEMMA NameType ==
  ASSUME NEW n \in Phases, NEW t \in Target
  PROVE  Name(n, t) \in Names
BY DEF Name, Names

(* What a file can hold.                                                   *)
LEMMA SavedType ==
  /\ Nothing \in Saved
  /\ Torn \in Saved
  /\ List(<<>>) \in Saved
<1>1. <<>> \in Seq(Batch)
  OBVIOUS
<1>. QED
  BY <1>1 DEF Nothing, Torn, List, Saved

(* A scan that starts.                                                     *)
LEMMA NewScanType ==
  ASSUME NEW t \in Target, NEW a \in Nat
  PROVE  NewScan(t, a) \in Scan
BY NameType, SavedType DEF NewScan, Scan

(* A process without a scan.                                               *)
LEMMA NoScanType == NoScan \in Scan
<1>1. PICK t \in Target : NoScan = NewScan(t, 0)
  BY BoundAssumption DEF NoScan
<1>. QED
  BY <1>1, NewScanType

(* The scans a list came from form a sequence of their numbers.            *)
LEMMA ProvenanceType ==
  ASSUME NEW l \in Seq(Batch)
  PROVE  Provenance(l) \in Seq(Nat)
<1>1. \A i \in 1..Len(l) : l[i] \in Batch
  OBVIOUS
<1>2. \A i \in 1..Len(l) : l[i].attempt \in Nat
  BY <1>1 DEF Batch
<1>. QED
  BY <1>2, SeqDef DEF Provenance

(* A phase that has been evaluated leaves a scan with a list.              *)
LEMMA EvaluatedType ==
  ASSUME NEW s \in Scan
  PROVE  Evaluated(s) \in Scan
<1>1. s.evaluations.list \in Seq(Batch)
  BY DEF Scan, Saved
<1>2. NewBatch(s.target, s.phase, s.attempt, s.evaluations.list) \in Batch
  BY <1>1, ProvenanceType DEF NewBatch, Batch, Scan
<1>3. Append(s.evaluations.list, NewBatch(s.target, s.phase, s.attempt, s.evaluations.list)) \in Seq(Batch)
  BY <1>1, <1>2
<1>. QED
  BY <1>3 DEF Evaluated, List, Scan, Saved

(* Every variable keeps its type, whatever the processes do to the files.  *)
THEOREM TypeCorrect == Spec => []TypeOK
<1>1. Init => TypeOK
  BY NoScanType, SavedType, BoundAssumption DEF Init, TypeOK, Locations, NoProc, Proc
<1>2. TypeOK /\ [Next]_vars => TypeOK'
  <2>. SUFFICES ASSUME TypeOK, [Next]_vars
                PROVE  TypeOK'
    OBVIOUS
  <2>. USE DEF TypeOK, Goto
  <2>0. ASSUME NEW p \in Process
        PROVE  /\ Current(p) \in Names
               /\ WithCurrent(p) \in SUBSET Names
    BY NameType DEF Current, WithCurrent, Scan, Proc
  <2>1. ASSUME NEW p \in Process, Leave(p), files' \in [Names -> Saved]
        PROVE  TypeOK'
    BY <2>1, NoScanType DEF Leave, Locations
  <2>2. ASSUME NEW p \in Process, NEW s \in Scan, NEW names \in SUBSET Names,
               EndPhase(p, s, names), files' \in [Names -> Saved]
        PROVE  TypeOK'
    <3>0. [proc[p] EXCEPT !.checkpoints = names] \in Proc
      BY DEF Proc
    <3>1. proc' \in [Process -> Proc]
      BY <2>2, <3>0 DEF EndPhase
    <3>2. [s EXCEPT !.clearing = names] \in Scan
      BY <2>2 DEF Scan
    <3>3. s.phase # LastPhase => [s EXCEPT !.phase = @ + 1] \in Scan
      BY <2>2 DEF Scan
    <3>4. scan' \in [Process -> Scan]
      BY <2>2, <3>2, <3>3 DEF EndPhase
    <3>. QED
      BY <2>2, <3>1, <3>4 DEF EndPhase, Locations
  <2>3. CASE UNCHANGED vars
    BY <2>3 DEF vars
  <2>4. ASSUME NEW p \in Process, Step(p)
        PROVE  TypeOK'
    <3>1. CASE Launch(p)
      BY <3>1 DEF Launch, Proc, Locations
    <3>2. ASSUME NEW t \in Target, StartTarget(p, t)
          PROVE  TypeOK'
      <4>1. NewScan(t, attempts + 1) \in Scan
        BY NewScanType, BoundAssumption
      <4>2. [proc[p] EXCEPT !.todo = @ \ {t}] \in Proc
        BY DEF Proc
      <4>. QED
        BY <3>2, <4>1, <4>2, BoundAssumption DEF StartTarget, Locations
    <3>3. CASE Unfinished(p)
      BY <3>3 DEF Unfinished, Locations
    <3>4. CASE Resume(p)
      <4>1. [scan[p] EXCEPT !.evaluations = files[Current(p)], !.pickles = TRUE] \in Scan
        BY <2>0 DEF Scan
      <4>. QED
        BY <3>4, <4>1, <2>0, <2>1, <2>2 DEF Resume, ResumeWith
    <3>5. CASE Evaluate(p)
      <4>1. Evaluated(scan[p]) \in Scan
        BY EvaluatedType
      <4>2. proc[p].checkpoints \in SUBSET Names
        BY DEF Proc
      <4>3. CASE EndPhase(p, Evaluated(scan[p]), proc[p].checkpoints) \/ Leave(p)
        BY <3>5, <4>1, <4>2, <4>3, <2>1, <2>2 DEF Evaluate
      <4>4. CASE scan' = [scan EXCEPT ![p] = Evaluated(@)] /\ Goto(p, "mark")
                 /\ UNCHANGED <<attempts, proc>>
        BY <3>5, <4>1, <4>4 DEF Evaluate, Locations
      <4>. QED
        BY <3>5, <4>3, <4>4 DEF Evaluate
    <3>6. CASE Mark(p)
      <4>1. [scan[p] EXCEPT !.pickles = FALSE] \in Scan
        BY DEF Scan
      <4>2. [files EXCEPT ![Current(p)] = Torn] \in [Names -> Saved]
        BY SavedType
      <4>3. CASE files' = [files EXCEPT ![Current(p)] = Torn] /\ Goto(p, "write")
                 /\ UNCHANGED <<attempts, proc, scan>>
        BY <4>2, <4>3 DEF Locations
      <4>. QED
        BY <3>6, <4>1, <4>3, <2>0, <2>1, <2>2 DEF Mark
    <3>7. CASE Write(p)
      <4>1. [files EXCEPT ![Current(p)] = scan[p].evaluations] \in [Names -> Saved]
        BY DEF Scan
      <4>2. [files EXCEPT ![Current(p)] = Torn] \in [Names -> Saved]
        BY SavedType
      <4>. QED
        BY <3>7, <4>1, <4>2, <2>0, <2>1, <2>2 DEF Write
    <3>8. CASE Clear(p)
      <4>1. \A n \in scan[p].clearing :
               /\ [scan[p] EXCEPT !.clearing = @ \ {n}] \in Scan
               /\ [scan[p] EXCEPT !.unlinking = n] \in Scan
        BY DEF Scan
      <4>. QED
        BY <3>8, <4>1 DEF Clear, Locations
    <3>9. CASE Unlink(p)
      <4>1. [scan[p] EXCEPT !.clearing = @ \ {scan[p].unlinking}] \in Scan
        BY DEF Scan
      <4>2. [files EXCEPT ![scan[p].unlinking] = Nothing] \in [Names -> Saved]
        BY SavedType
      <4>. QED
        BY <3>9, <4>1, <4>2, <2>1 DEF Unlink, Locations
    <3>10. CASE Report(p)
      BY <3>10, <2>1 DEF Report
    <3>11. CASE Crash(p)
      BY <3>11, NoScanType DEF Crash, Locations, NoProc, Proc
    <3>. QED
      BY <2>4, <3>1, <3>2, <3>3, <3>4, <3>5, <3>6, <3>7, <3>8, <3>9, <3>10, <3>11 DEF Step
  <2>. QED
    BY <2>3, <2>4 DEF Next
<1>. QED
  BY <1>1, <1>2, PTL DEF Spec

-----------------------------------------------------------------------------
(* Names of different phases or targets are different files.               *)
LEMMA NameInjective ==
  ASSUME NEW m \in Phases, NEW n \in Phases, NEW s \in Target, NEW t \in Target,
         Name(m, s) = Name(n, t)
  PROVE  m = n /\ s = t
BY CacheKeyAssumption DEF Name

(* A phase's evaluation extends a coherent list to a coherent list.        *)
LEMMA EvaluatedCoherent ==
  ASSUME NEW l \in Seq(Batch), NEW t \in Target, NEW n \in Phases,
         NEW a \in Nat, Coherent(l, t, n - 1)
  PROVE  Coherent(Append(l, NewBatch(t, n, a, l)), t, n)
<1>. DEFINE b == NewBatch(t, n, a, l)
            k == Append(l, b)
<1>1. Len(l) = n - 1 /\ Len(k) = n
  BY DEF Coherent
<1>2. \A i \in 1..(n - 1) : k[i] = l[i]
  BY <1>1
<1>3. k[n] = b
  BY <1>1
<1>4. b.target = t /\ b.phase = n
  BY DEF NewBatch
<1>5. b.over = [j \in 1..(n - 1) |-> k[j].attempt]
  BY <1>1, <1>2 DEF NewBatch, Provenance
<1>. HIDE DEF b, k
<1>6. ASSUME NEW i \in 1..n
      PROVE  /\ k[i].target = t
             /\ k[i].phase = i
             /\ k[i].over = [j \in 1..(i - 1) |-> k[j].attempt]
  <2>1. CASE i = n
    BY <2>1, <1>3, <1>4, <1>5
  <2>2. CASE i # n
    <3>1. i \in 1..(n - 1) /\ k[i] = l[i]
      BY <2>2, <1>2
    <3>2. l[i].over = [j \in 1..(i - 1) |-> l[j].attempt]
      BY <3>1 DEF Coherent
    <3>3. \A j \in 1..(i - 1) : j \in 1..(n - 1)
      BY <3>1
    <3>4. \A j \in 1..(i - 1) : k[j] = l[j]
      BY <3>3, <1>2
    <3>. QED
      BY <3>1, <3>2, <3>4 DEF Coherent
  <2>. QED
    BY <2>1, <2>2
<1>. QED
  BY <1>1, <1>6 DEF Coherent, k, b

(* A step of one process leaves the memory of the others alone.            *)
LEMMA StepLocal ==
  ASSUME TypeOK, NEW p \in Process, Step(p), NEW q \in Process, q # p
  PROVE  pc'[q] = pc[q] /\ scan'[q] = scan[q]
<1>. USE DEF TypeOK, Goto
<1>1. Leave(p) => pc'[q] = pc[q] /\ scan'[q] = scan[q]
  BY DEF Leave
<1>2. \A s, names : EndPhase(p, s, names) => pc'[q] = pc[q] /\ scan'[q] = scan[q]
  BY DEF EndPhase
<1>3. Launch(p) \/ (\E t \in Target : StartTarget(p, t)) \/ Unfinished(p) \/ Clear(p) \/ Crash(p)
        => pc'[q] = pc[q] /\ scan'[q] = scan[q]
  BY DEF Launch, StartTarget, Unfinished, Clear, Crash
<1>4. Resume(p) \/ Evaluate(p) \/ Mark(p) \/ Write(p) \/ Unlink(p) \/ Report(p)
        => pc'[q] = pc[q] /\ scan'[q] = scan[q]
  BY <1>1, <1>2 DEF Resume, ResumeWith, Evaluate, Mark, Write, Unlink, Report
<1>. QED
  BY <1>3, <1>4 DEF Step

(* The two ways a step of p ends a phase or a scan keep p's part.          *)
LEMMA LeaveCoherent ==
  ASSUME TypeOK, NEW p \in Process, Leave(p)
  PROVE  ScanCoherent(p)'
BY DEF TypeOK, Leave, Goto, ScanCoherent

LEMMA EndPhaseCoherent ==
  ASSUME TypeOK, NEW p \in Process, NEW s \in Scan, NEW names \in SUBSET Names,
         EndPhase(p, s, names),
         s.evaluations.kind = "list" => Coherent(s.evaluations.list, s.target, s.phase)
  PROVE  ScanCoherent(p)'
<1>1. CASE s.phase = LastPhase
  <2>1. pc'[p] = "clear" /\ scan'[p] = [s EXCEPT !.clearing = names]
    BY <1>1 DEF EndPhase, Goto, TypeOK
  <2>2. /\ scan'[p].evaluations = s.evaluations
        /\ scan'[p].target = s.target
        /\ scan'[p].phase = s.phase
    BY <2>1 DEF Scan
  <2>. QED
    BY <1>1, <2>1, <2>2 DEF ScanCoherent, PhasesDone
<1>2. CASE s.phase # LastPhase
  <2>1. pc'[p] = "unfinished" /\ scan'[p] = [s EXCEPT !.phase = @ + 1]
    BY <1>2 DEF EndPhase, Goto, TypeOK
  <2>2. /\ scan'[p].evaluations = s.evaluations
        /\ scan'[p].target = s.target
        /\ scan'[p].phase - 1 = s.phase
    BY <2>1 DEF Scan
  <2>. QED
    BY <2>1, <2>2 DEF ScanCoherent, PhasesDone
<1>. QED
  BY <1>1, <1>2

(* Changing one file to something torn, absent or coherent keeps the files. *)
LEMMA FilesStep ==
  ASSUME TypeOK, FilesCoherent, NEW n \in Phases, NEW t \in Target, NEW f,
         files' = [files EXCEPT ![Name(n, t)] = f],
         f.kind = "list" => Coherent(f.list, t, n)
  PROVE  FilesCoherent'
<1>. SUFFICES ASSUME NEW m \in Phases, NEW s \in Target,
                     files'[Name(m, s)].kind = "list"
              PROVE  Coherent(files'[Name(m, s)].list, s, m)
  BY DEF FilesCoherent
<1>1. Name(m, s) \in Names /\ Name(n, t) \in Names
  BY NameType
<1>2. CASE Name(m, s) = Name(n, t)
  <2>1. m = n /\ s = t
    BY <1>2, NameInjective
  <2>2. files'[Name(m, s)] = f
    BY <1>1, <1>2 DEF TypeOK
  <2>. QED
    BY <2>1, <2>2
<1>3. CASE Name(m, s) # Name(n, t)
  <2>1. files'[Name(m, s)] = files[Name(m, s)]
    BY <1>1, <1>3 DEF TypeOK
  <2>. QED
    BY <2>1 DEF FilesCoherent
<1>. QED
  BY <1>2, <1>3

(* Whatever races, crashes, restarts and resumed checkpoints there are:    *)
(* checkpoint files and running scans hold the results of the first phases *)
(* of their target, each derived from the ones before it.                  *)
THEOREM CoherenceHolds == Spec => []Coherence
<1>1. Init => Coherence
  BY NameType DEF Init, Coherence, FilesCoherent, ScansCoherent, ScanCoherent, Nothing
<1>2. TypeOK /\ Coherence /\ [Next]_vars => Coherence'
  <2>. SUFFICES ASSUME TypeOK, Coherence, [Next]_vars
                PROVE  Coherence'
    OBVIOUS
  <2>. USE DEF Coherence
  <2>1. CASE UNCHANGED vars
    BY <2>1 DEF vars, FilesCoherent, ScansCoherent, ScanCoherent, PhasesDone
  <2>2. ASSUME NEW p \in Process, Step(p)
        PROVE  Coherence'
    <3>1. ScanCoherent(p)' => ScansCoherent'
      <4>. SUFFICES ASSUME NEW q \in Process, q # p
                    PROVE  ScanCoherent(q)'
        BY DEF ScansCoherent
      <4>1. pc'[q] = pc[q] /\ scan'[q] = scan[q]
        BY <2>2, StepLocal
      <4>. QED
        BY <4>1 DEF ScansCoherent, ScanCoherent, PhasesDone
    <3>2. UNCHANGED files => FilesCoherent'
      BY DEF FilesCoherent
    <3>3. ASSUME Leave(p)
          PROVE  ScansCoherent'
      BY <3>1, <3>3, LeaveCoherent
    <3>4. /\ scan[p] \in Scan
          /\ scan[p].target \in Target
          /\ scan[p].phase \in Phases
          /\ WithCurrent(p) \in SUBSET Names
          /\ proc[p].checkpoints \in SUBSET Names
      BY NameType DEF TypeOK, Scan, Proc, WithCurrent, Current
    <3>5. ScanCoherent(p)
      BY DEF ScansCoherent
    <3>6. CASE Launch(p)
      BY <3>6, <3>1, <3>2 DEF Launch, Goto, TypeOK, ScanCoherent
    <3>7. ASSUME NEW t \in Target, StartTarget(p, t)
          PROVE  Coherence'
      <4>1. pc'[p] = "unfinished" /\ scan'[p] = NewScan(t, attempts + 1)
        BY <3>7 DEF StartTarget, Goto, TypeOK
      <4>2. Coherent(<<>>, t, 0)
        BY DEF Coherent
      <4>3. ScanCoherent(p)'
        BY <4>1, <4>2 DEF ScanCoherent, PhasesDone, NewScan, List
      <4>. QED
        BY <3>7, <4>3, <3>1, <3>2 DEF StartTarget
    <3>8. CASE Unfinished(p)
      <4>1. ScanCoherent(p)'
        BY <3>8, <3>5 DEF Unfinished, Goto, TypeOK, ScanCoherent, PhasesDone
      <4>. QED
        BY <3>8, <4>1, <3>1, <3>2 DEF Unfinished
    <3>9. CASE Resume(p)
      <4>. DEFINE s == [scan[p] EXCEPT !.evaluations = files[Current(p)], !.pickles = TRUE]
      <4>1. CASE EndPhase(p, s, WithCurrent(p))
        <5>1. s \in Scan /\ s.evaluations = files[Current(p)]
              /\ s.target = scan[p].target /\ s.phase = scan[p].phase
          BY <3>4, NameType DEF Scan, TypeOK, Current
        <5>2. s.evaluations.kind = "list" => Coherent(s.evaluations.list, s.target, s.phase)
          BY <5>1, <3>4 DEF FilesCoherent, Current
        <5>. HIDE DEF s
        <5>3. ScanCoherent(p)'
          BY <4>1, <5>1, <5>2, <3>4, EndPhaseCoherent
        <5>. QED
          BY <3>9, <5>3, <3>1, <3>2 DEF Resume, ResumeWith
      <4>. QED
        BY <3>9, <4>1, <3>2, <3>3 DEF Resume, ResumeWith
    <3>10. CASE Evaluate(p)
      <4>. DEFINE s == Evaluated(scan[p])
      <4>1. s \in Scan /\ s.target = scan[p].target /\ s.phase = scan[p].phase
        BY <3>4, EvaluatedType DEF Evaluated, Scan
      <4>2. CASE scan[p].evaluations.kind = "list"
        <5>1. Coherent(scan[p].evaluations.list, scan[p].target, scan[p].phase - 1)
          BY <3>10, <4>2, <3>5 DEF Evaluate, ScanCoherent, PhasesDone
        <5>2. s.evaluations.list = Append(scan[p].evaluations.list,
                NewBatch(scan[p].target, scan[p].phase, scan[p].attempt, scan[p].evaluations.list))
              /\ s.evaluations.kind = "list"
          BY <3>4 DEF Evaluated, Scan, List
        <5>3. scan[p].evaluations.list \in Seq(Batch) /\ scan[p].attempt \in Nat
          BY <3>4 DEF Scan, Saved
        <5>4. Coherent(s.evaluations.list, s.target, s.phase)
          BY <5>1, <5>2, <5>3, <3>4, <4>1, EvaluatedCoherent
        <5>. HIDE DEF s
        <5>5. CASE EndPhase(p, s, proc[p].checkpoints)
          <6>1. ScanCoherent(p)'
            BY <5>5, <5>4, <4>1, <3>4, EndPhaseCoherent
          <6>. QED
            BY <3>10, <6>1, <3>1, <3>2 DEF Evaluate
        <5>6. CASE scan' = [scan EXCEPT ![p] = s] /\ Goto(p, "mark")
          <6>1. scan'[p] = s /\ pc'[p] = "mark"
            BY <5>6 DEF TypeOK, Goto
          <6>2. ScanCoherent(p)'
            BY <6>1, <5>2, <5>4 DEF ScanCoherent, PhasesDone
          <6>. QED
            BY <3>10, <6>2, <3>1, <3>2 DEF Evaluate
        <5>. QED
          BY <3>10, <5>5, <5>6, <3>2, <3>3 DEF Evaluate, s
      <4>. QED
        BY <3>10, <4>2, <3>2, <3>3 DEF Evaluate
    <3>11. ASSUME pc[p] \in {"mark", "write"}
           PROVE  /\ scan[p].evaluations.kind = "list"
                  /\ Coherent(scan[p].evaluations.list, scan[p].target, scan[p].phase)
      BY <3>11, <3>5 DEF ScanCoherent, PhasesDone
    <3>12. CASE Mark(p)
      <4>. DEFINE s == [scan[p] EXCEPT !.pickles = FALSE]
      <4>1. CASE files' = [files EXCEPT ![Current(p)] = Torn] /\ Goto(p, "write")
                   /\ UNCHANGED <<attempts, proc, scan>>
        <5>1. FilesCoherent'
          BY <4>1, <3>4, FilesStep DEF Current, Torn
        <5>2. ScanCoherent(p)'
          BY <4>1, <3>12, <3>11 DEF Mark, Goto, TypeOK, ScanCoherent, PhasesDone
        <5>. QED
          BY <5>1, <5>2, <3>1
      <4>2. CASE EndPhase(p, s, WithCurrent(p)) /\ UNCHANGED files
        <5>1. s \in Scan /\ s.evaluations = scan[p].evaluations
              /\ s.target = scan[p].target /\ s.phase = scan[p].phase
          BY <3>4 DEF Scan
        <5>. HIDE DEF s
        <5>2. ScanCoherent(p)'
          BY <4>2, <5>1, <3>12, <3>11, <3>4, EndPhaseCoherent DEF Mark
        <5>. QED
          BY <4>2, <5>2, <3>1, <3>2
      <4>. QED
        BY <3>12, <4>1, <4>2, <3>2, <3>3 DEF Mark
    <3>13. CASE Write(p)
      <4>1. CASE files' = [files EXCEPT ![Current(p)] = scan[p].evaluations]
                   /\ EndPhase(p, scan[p], WithCurrent(p))
        <5>1. FilesCoherent'
          BY <4>1, <3>13, <3>11, <3>4, FilesStep DEF Current, Write
        <5>2. ScanCoherent(p)'
          BY <4>1, <3>13, <3>11, <3>4, EndPhaseCoherent DEF Write
        <5>. QED
          BY <5>1, <5>2, <3>1
      <4>2. CASE files' = [files EXCEPT ![Current(p)] = Torn] /\ Leave(p)
        BY <4>2, <3>3, <3>4, FilesStep DEF Current, Torn
      <4>. QED
        BY <3>13, <4>1, <4>2 DEF Write
    <3>14. CASE Clear(p)
      <4>1. /\ pc'[p] \in {"clear", "unlink", "report"}
            /\ scan'[p].evaluations = scan[p].evaluations
            /\ scan'[p].target = scan[p].target
            /\ scan'[p].phase = scan[p].phase
        BY <3>14, <3>4 DEF Clear, Goto, TypeOK, Scan
      <4>2. ScanCoherent(p)'
        BY <4>1, <3>14, <3>5 DEF Clear, ScanCoherent, PhasesDone
      <4>. QED
        BY <3>14, <4>2, <3>1, <3>2 DEF Clear
    <3>15. CASE Unlink(p)
      <4>1. CASE files[scan[p].unlinking].kind = "none"
        BY <3>15, <4>1, <3>2, <3>3 DEF Unlink
      <4>2. CASE files[scan[p].unlinking].kind # "none"
        <5>1. /\ pc'[p] = "clear"
              /\ scan'[p].evaluations = scan[p].evaluations
              /\ scan'[p].target = scan[p].target
              /\ scan'[p].phase = scan[p].phase
              /\ files' = [files EXCEPT ![scan[p].unlinking] = Nothing]
          BY <3>15, <4>2, <3>4 DEF Unlink, Goto, TypeOK, Scan
        <5>2. ScanCoherent(p)'
          BY <5>1, <3>15, <3>5 DEF Unlink, ScanCoherent, PhasesDone
        <5>3. PICK n \in Phases, t \in Target : scan[p].unlinking = Name(n, t)
          BY <3>4 DEF Scan, Names, Name
        <5>4. FilesCoherent'
          BY <5>1, <5>3, FilesStep DEF Nothing
        <5>. QED
          BY <5>2, <5>4, <3>1
      <4>. QED
        BY <4>1, <4>2
    <3>16. CASE Report(p)
      BY <3>16, <3>2, <3>3 DEF Report
    <3>17. CASE Crash(p)
      BY <3>17, <3>1, <3>2 DEF Crash, Goto, TypeOK, ScanCoherent
    <3>. QED
      BY <2>2, <3>6, <3>7, <3>8, <3>9, <3>10, <3>12, <3>13, <3>14, <3>15, <3>16, <3>17 DEF Step
  <2>. QED
    BY <2>1, <2>2 DEF Next
<1>. QED
  BY <1>1, <1>2, TypeCorrect, PTL DEF Spec

(* A report holds all four phases of its own target, once each and in      *)
(* order, its compliance results derived from the results before them.     *)
THEOREM ReportsWhole == Spec => []ReportWhole
<1>1. Coherence => ReportWhole
  BY DEF Coherence, ScansCoherent, ScanCoherent, PhasesDone, ReportWhole
<1>. QED
  BY <1>1, CoherenceHolds, PTL

(* The two parts of it, which the runs check one by one: every readable    *)
(* checkpoint file ...                                                     *)
THEOREM FilesHold == Spec => []FilesCoherent
<1>1. Coherence => FilesCoherent
  BY DEF Coherence
<1>. QED
  BY <1>1, CoherenceHolds, PTL

(* ... and every running scan holds the results of the first phases of its *)
(* target, in order.                                                       *)
THEOREM ScansHold == Spec => []ScansCoherent
<1>1. Coherence => ScansCoherent
  BY DEF Coherence
<1>. QED
  BY <1>1, CoherenceHolds, PTL

-----------------------------------------------------------------------------
(* With no target scanned by two processes: every process works on its own *)
(* part of the directory.                                                  *)

Mine(p) == {Name(n, t) : n \in Phases, t \in proc[p].assigned}
Scanning(p) == pc[p] \notin {"down", "idle"}
File(p, n) == files[Name(n, scan[p].target)]

Sorted(l) == \A i, j \in DOMAIN l : i < j => l[i].attempt <= l[j].attempt
UpTo(l, c) == \A i \in DOMAIN l : l[i].attempt <= c

(* Nobody else has p's targets.                                            *)
Apart == \A p, q \in Process : p # q => proc[p].assigned \cap proc[q].assigned = {}

(* What p remembers, clears and unlinks is of its own targets.             *)
OwnNames(p) ==
  /\ pc[p] = "down" => proc[p].assigned = {}
  /\ proc[p].todo \subseteq proc[p].assigned
  /\ proc[p].checkpoints \subseteq Mine(p)
  /\ Scanning(p) => scan[p].target \in proc[p].assigned
  /\ pc[p] \in {"clear", "unlink"} => scan[p].clearing \subseteq Mine(p)
  /\ pc[p] = "unlink" => scan[p].unlinking \in scan[p].clearing

(* What p has seen on disk is still there, and it never resumed None.      *)
NothingLost(p) ==
  /\ pc[p] = "resume" => files[Current(p)].kind # "none"
  /\ pc[p] = "unlink" => files[scan[p].unlinking].kind # "none"
  /\ scan[p].evaluations.kind = "list"

(* What p holds, and what it could still resume, is from scans up to its   *)
(* own, older results first.                                               *)
OldFirst(p) ==
  /\ scan[p].attempt <= attempts
  /\ Sorted(scan[p].evaluations.list)
  /\ UpTo(scan[p].evaluations.list, scan[p].attempt)
  /\ Scanning(p) => \A n \in Phases : UpTo(File(p, n).list, scan[p].attempt)

(* A checkpoint of a phase that p has behind it is in _checkpoints, then   *)
(* in the names to clear, and then gone.                                   *)
Behind(p) == IF pc[p] \in {"clear", "unlink", "report"} THEN Phases ELSE 1..(scan[p].phase - 1)
Tracked(p) ==
  /\ pc[p] \in {"mark", "write"} => proc[p].checkpoint
  /\ Scanning(p) /\ (proc[p].checkpoint \/ proc[p].resume) =>
       /\ pc[p] = "evaluate" /\ ~proc[p].checkpoint => files[Current(p)].kind = "none"
       /\ \A n \in Behind(p) : File(p, n).kind # "none" =>
            /\ pc[p] # "report"
            /\ Name(n, scan[p].target) \in
                 IF pc[p] \in {"clear", "unlink"} THEN scan[p].clearing ELSE proc[p].checkpoints

ProcessInv(p) == OwnNames(p) /\ NothingLost(p) /\ OldFirst(p) /\ Tracked(p)

FilesSorted == \A n \in Names : Sorted(files[n].list) /\ UpTo(files[n].list, attempts)

DisjointInv == Disjoint => Apart /\ FilesSorted /\ \A p \in Process : ProcessInv(p)

LEMMA MineNames ==
  ASSUME TypeOK, NEW p \in Process, OwnNames(p)
  PROVE  /\ Mine(p) \subseteq Names /\ proc[p].assigned \subseteq Target
         /\ Scanning(p) => /\ \A n \in Phases : Name(n, scan[p].target) \in Mine(p)
                           /\ Current(p) \in Mine(p)
         /\ pc[p] = "unlink" => scan[p].unlinking \in Mine(p)
<1>1. proc[p].assigned \subseteq Target /\ scan[p].phase \in Phases
  BY DEF TypeOK, Proc, Scan
<1>2. Mine(p) \subseteq Names
  BY <1>1, NameType DEF Mine
<1>. QED
  BY <1>1, <1>2 DEF OwnNames, Mine, Current

LEMMA MineApart ==
  ASSUME TypeOK, Apart, NEW p \in Process, NEW q \in Process, p # q
  PROVE  Mine(p) \cap Mine(q) = {}
<1>. SUFFICES ASSUME NEW m \in Phases, NEW s \in proc[p].assigned,
                     NEW n \in Phases, NEW t \in proc[q].assigned, Name(m, s) = Name(n, t)
              PROVE  FALSE
  BY DEF Mine
<1>1. s \in Target /\ t \in Target
  BY DEF TypeOK, Proc
<1>2. s = t
  BY <1>1, NameInjective
<1>. QED
  BY <1>2 DEF Apart

(* A step of p changes no other process's memory ...                       *)
LEMMA ProcLocal ==
  ASSUME TypeOK, NEW p \in Process, Step(p), NEW q \in Process, q # p
  PROVE  proc'[q] = proc[q]
<1>. USE DEF TypeOK
<1>1. Leave(p) => proc'[q] = proc[q]
  BY DEF Leave
<1>2. \A s, names : EndPhase(p, s, names) => proc'[q] = proc[q]
  BY DEF EndPhase
<1>3. Launch(p) \/ (\E t \in Target : StartTarget(p, t)) \/ Unfinished(p) \/ Clear(p) \/ Crash(p)
        => proc'[q] = proc[q]
  BY DEF Launch, StartTarget, Unfinished, Clear, Crash
<1>4. Resume(p) \/ Evaluate(p) \/ Mark(p) \/ Write(p) \/ Unlink(p) \/ Report(p)
        => proc'[q] = proc[q]
  BY <1>1, <1>2 DEF Resume, ResumeWith, Evaluate, Mark, Write, Unlink, Report
<1>. QED
  BY <1>3, <1>4 DEF Step

(* ... and at most one file, one of p's.                                   *)
LEMMA FilesLocal ==
  ASSUME TypeOK, NEW p \in Process, OwnNames(p), Step(p), NEW n \in Names, n \notin Mine(p)
  PROVE  files'[n] = files[n]
<1>1. CASE UNCHANGED files
  BY <1>1
<1>2. CASE Mark(p) \/ Write(p)
  <2>1. Current(p) \in Mine(p)
    BY <1>2, MineNames DEF Mark, Write, Scanning
  <2>. QED
    BY <2>1, <1>2 DEF Mark, Write, TypeOK
<1>3. CASE Unlink(p)
  <2>1. scan[p].unlinking \in Mine(p)
    BY <1>3, MineNames DEF Unlink
  <2>. QED
    BY <2>1, <1>3 DEF Unlink, TypeOK
<1>. QED
  BY <1>1, <1>2, <1>3 DEF Step, Launch, StartTarget, Unfinished, Resume, Evaluate, Clear, Report, Crash

LEMMA AttemptsGrow ==
  ASSUME TypeOK, NEW p \in Process, Step(p)
  PROVE  attempts \in Nat /\ attempts' \in Nat /\ attempts <= attempts'
<1>1. attempts \in Nat
  BY BoundAssumption DEF TypeOK
<1>2. CASE \E t \in Target : StartTarget(p, t)
  BY <1>1, <1>2 DEF StartTarget
<1>3. CASE UNCHANGED attempts
  BY <1>1, <1>3
<1>4. \A s, names : EndPhase(p, s, names) => UNCHANGED attempts
  BY DEF EndPhase
<1>. QED
  BY <1>2, <1>3, <1>4 DEF Step, Launch, Unfinished, Resume, ResumeWith, Evaluate, Mark, Write, Clear,
                          Unlink, Report, Crash, Leave

LEMMA OthersKept ==
  ASSUME TypeOK, Apart, NEW p \in Process, OwnNames(p), Step(p),
         NEW q \in Process, q # p, ProcessInv(q)
  PROVE  ProcessInv(q)'
<1>1. pc'[q] = pc[q] /\ scan'[q] = scan[q] /\ proc'[q] = proc[q]
  BY StepLocal, ProcLocal
<1>2. Mine(q)' = Mine(q) /\ Scanning(q)' = Scanning(q) /\ Current(q)' = Current(q)
      /\ Behind(q)' = Behind(q)
  BY <1>1 DEF Mine, Scanning, Current, Behind
<1>3. \A n \in Mine(q) : files'[n] = files[n]
  BY MineNames, MineApart, FilesLocal DEF ProcessInv
<1>4. OwnNames(q)'
  BY <1>1, <1>2 DEF ProcessInv, OwnNames
<1>5. NothingLost(q)'
  BY <1>1, <1>2, <1>3, MineNames DEF ProcessInv, NothingLost, Scanning
<1>6. Scanning(q) => \A n \in Phases : File(q, n)' = File(q, n)
  BY <1>1, <1>3, MineNames DEF ProcessInv, File
<1>7. OldFirst(q)'
  <2>1. scan[q].attempt \in Nat
    BY DEF TypeOK, Scan
  <2>2. attempts \in Nat /\ attempts' \in Nat /\ attempts <= attempts'
    BY AttemptsGrow
  <2>3. scan'[q].attempt <= attempts'
    BY <1>1, <2>1, <2>2 DEF ProcessInv, OldFirst
  <2>. QED
    BY <1>1, <1>2, <1>6, <2>3 DEF ProcessInv, OldFirst
<1>8. Tracked(q)'
  <2>1. Behind(q) \subseteq Phases
    <3>1. scan[q].phase \in 1..4
      BY DEF TypeOK, Scan
    <3>. QED
      BY <3>1 DEF Behind
  <2>2. Scanning(q) => files'[Current(q)] = files[Current(q)]
    BY <1>3, MineNames DEF ProcessInv
  <2>. QED
    BY <1>1, <1>2, <1>6, <2>1, <2>2 DEF ProcessInv, Tracked
<1>. QED
  BY <1>4, <1>5, <1>7, <1>8 DEF ProcessInv

LEMMA ApartKept ==
  ASSUME TypeOK, Disjoint, Apart, \A p \in Process : OwnNames(p), NEW p \in Process, Step(p)
  PROVE  Apart'
<1>. SUFFICES ASSUME NEW q \in Process, q # p
              PROVE  proc'[p].assigned \cap proc[q].assigned = {}
  <2>1. \A q \in Process : q # p => proc'[q] = proc[q]
    BY ProcLocal
  <2>. QED
    BY <2>1 DEF Apart
<1>1. CASE proc'[p].assigned = proc[p].assigned
  BY <1>1 DEF Apart
<1>2. CASE Launch(p)
  <2>1. PICK ts : /\ \A r \in Process : Live(r) => proc[r].assigned \cap ts = {}
                  /\ proc'[p].assigned = ts
    BY <1>2 DEF Launch, TypeOK
  <2>. QED
    BY <2>1 DEF OwnNames, Live
<1>3. CASE Crash(p)
  BY <1>3 DEF Crash, TypeOK, NoProc
<1>4. CASE \E t \in Target : StartTarget(p, t)
  <2>1. proc'[p].assigned = proc[p].assigned
    BY <1>4 DEF StartTarget, TypeOK, Proc
  <2>. QED
    BY <2>1, <1>1
<1>5. CASE UNCHANGED proc
  BY <1>1, <1>5
<1>6. ASSUME NEW s, NEW names, EndPhase(p, s, names) PROVE proc'[p].assigned = proc[p].assigned
  BY <1>6 DEF EndPhase, TypeOK, Proc
<1>7. Leave(p) => UNCHANGED proc
  BY DEF Leave
<1>8. CASE Resume(p) \/ Evaluate(p) \/ Mark(p) \/ Write(p)
  BY <1>8, <1>6, <1>7, <1>1, <1>5 DEF Resume, ResumeWith, Evaluate, Mark, Write
<1>. QED
  BY <1>2, <1>3, <1>4, <1>5, <1>7, <1>8 DEF Step, Unfinished, Clear, Unlink, Report

LEMMA FilesSortedKept ==
  ASSUME TypeOK, FilesSorted, NEW p \in Process, ProcessInv(p), Step(p)
  PROVE  FilesSorted'
<1>1. attempts \in Nat /\ attempts' \in Nat /\ attempts <= attempts'
  BY AttemptsGrow
<1>2. ASSUME NEW l \in Seq(Batch), NEW c \in Nat, UpTo(l, c), c <= attempts'
      PROVE  UpTo(l, attempts')
  <2>1. \A i \in DOMAIN l : l[i].attempt \in Nat
    <3>1. \A i \in DOMAIN l : l[i] \in Batch
      OBVIOUS
    <3>. QED
      BY <3>1 DEF Batch
  <2>. QED
    BY <1>1, <1>2, <2>1 DEF UpTo
<1>3. ASSUME NEW n \in Names PROVE files[n].list \in Seq(Batch)
  BY DEF TypeOK, Saved
<1>4. CASE UNCHANGED files
  BY <1>1, <1>2, <1>3, <1>4 DEF FilesSorted
<1>5. ASSUME NEW m \in Names, NEW f, files' = [files EXCEPT ![m] = f],
             Sorted(f.list), UpTo(f.list, attempts')
      PROVE  FilesSorted'
  <2>. SUFFICES ASSUME NEW n \in Names
                PROVE  Sorted(files'[n].list) /\ UpTo(files'[n].list, attempts')
    BY DEF FilesSorted
  <2>1. CASE n = m
    BY <1>5, <2>1 DEF TypeOK
  <2>2. CASE n # m
    BY <1>1, <1>2, <1>3, <1>5, <2>2 DEF TypeOK, FilesSorted
  <2>. QED
    BY <2>1, <2>2
<1>6. /\ Sorted(Torn.list) /\ UpTo(Torn.list, attempts')
      /\ Sorted(Nothing.list) /\ UpTo(Nothing.list, attempts')
  BY DEF Torn, Nothing, Sorted, UpTo
<1>7. scan[p].unlinking \in Names /\ Current(p) \in Names
  BY NameType DEF TypeOK, Scan, Current
<1>8. CASE Mark(p) \/ Unlink(p)
  BY <1>4, <1>5, <1>6, <1>7, <1>8 DEF Mark, Unlink
<1>9. CASE Write(p)
  <2>1. /\ scan[p].evaluations.list \in Seq(Batch) /\ scan[p].attempt \in Nat
        /\ scan[p].attempt <= attempts'
    BY <1>1 DEF TypeOK, Scan, Saved, ProcessInv, OldFirst
  <2>2. Sorted(scan[p].evaluations.list) /\ UpTo(scan[p].evaluations.list, attempts')
    BY <1>2, <2>1 DEF ProcessInv, OldFirst
  <2>. QED
    BY <2>2, <1>5, <1>6, <1>7, <1>9 DEF Write
<1>. QED
  BY <1>4, <1>8, <1>9 DEF Step, Launch, StartTarget, Unfinished, Resume, Evaluate, Clear, Report, Crash

(* A process between two scans.                                            *)
LEMMA IdleKept ==
  ASSUME attempts' \in Nat, NEW p \in Process, OwnNames(p),
         pc'[p] \in {"idle", "down"}, scan'[p] = NoScan,
         (proc'[p] = proc[p] /\ pc'[p] = "idle") \/ proc'[p] = NoProc
  PROVE  ProcessInv(p)'
<1>1. scan'[p].evaluations = List(<<>>) /\ scan'[p].attempt = 0
  BY DEF NoScan, NewScan
<1>2. OwnNames(p)'
  BY DEF OwnNames, Mine, Scanning, NoProc
<1>3. Sorted(<<>>) /\ UpTo(<<>>, 0)
  BY DEF Sorted, UpTo
<1>. QED
  BY <1>1, <1>2, <1>3 DEF ProcessInv, NothingLost, OldFirst, Tracked, Scanning, List

(* A phase ends: what the process knows of the phase's checkpoint is in    *)
(* _checkpoints, whatever the phase did.                                   *)
LEMMA EndPhaseKept ==
  ASSUME TypeOK, TypeOK', NEW p \in Process, ProcessInv(p), Scanning(p),
         pc[p] \notin {"clear", "unlink", "report"},
         NEW s \in Scan, NEW names \in SUBSET Names, EndPhase(p, s, names),
         s.target = scan[p].target, s.phase = scan[p].phase, s.attempt = scan[p].attempt,
         s.evaluations.kind = "list", Sorted(s.evaluations.list), UpTo(s.evaluations.list, s.attempt),
         proc[p].checkpoints \subseteq names, names \subseteq Mine(p),
         \A n \in Names : n # Current(p) => files'[n] = files[n],
         UpTo(files'[Current(p)].list, s.attempt),
         (proc[p].checkpoint \/ proc[p].resume) /\ files'[Current(p)].kind # "none" =>
           Current(p) \in names
  PROVE  ProcessInv(p)'
<1>1. /\ proc'[p].checkpoints = names
      /\ proc'[p].checkpoint = proc[p].checkpoint /\ proc'[p].resume = proc[p].resume
      /\ proc'[p].assigned = proc[p].assigned /\ proc'[p].todo = proc[p].todo
      /\ UNCHANGED attempts
  BY DEF EndPhase, TypeOK, Proc
<1>2. \/ s.phase = LastPhase /\ pc'[p] = "clear" /\ scan'[p] = [s EXCEPT !.clearing = names]
      \/ s.phase # LastPhase /\ pc'[p] = "unfinished" /\ scan'[p] = [s EXCEPT !.phase = @ + 1]
  BY DEF EndPhase, Goto, TypeOK
<1>3. /\ scan'[p].target = s.target /\ scan'[p].attempt = s.attempt
      /\ scan'[p].evaluations = s.evaluations
      /\ pc'[p] = "clear" => scan'[p].clearing = names
      /\ pc'[p] = "unfinished" => scan'[p].phase = s.phase + 1 /\ s.phase \in 1..3
      /\ pc'[p] = "clear" => s.phase = 4
      /\ pc'[p] \in {"clear", "unfinished"}
  BY <1>2 DEF Scan
<1>4. Mine(p)' = Mine(p) /\ Scanning(p)'
  BY <1>1, <1>3 DEF Mine, Scanning
<1>5. OwnNames(p)'
  BY <1>1, <1>3, <1>4 DEF ProcessInv, OwnNames
<1>6. NothingLost(p)'
  BY <1>3 DEF NothingLost
<1>7. Current(p) = Name(s.phase, s.target) /\ s.phase \in Phases
  BY DEF Current, TypeOK, Scan
<1>8. \A n \in Phases : Name(n, s.target) \in Names /\ File(p, n)' = files'[Name(n, s.target)]
  BY <1>3, NameType DEF File, TypeOK, Scan
<1>9. OldFirst(p)'
  <2>1. \A n \in Phases : UpTo(files'[Name(n, s.target)].list, s.attempt)
    BY <1>7, <1>8 DEF ProcessInv, OldFirst, File
  <2>. QED
    BY <1>1, <1>3, <1>8, <2>1 DEF ProcessInv, OldFirst
<1>10. Tracked(p)'
  <2>. SUFFICES ASSUME proc[p].checkpoint \/ proc[p].resume, NEW n \in Behind(p)',
                       File(p, n)'.kind # "none"
                PROVE  Name(n, s.target) \in names
    BY <1>1, <1>3 DEF Tracked
  <2>1. n \in Phases /\ (n = s.phase \/ n \in Behind(p))
    BY <1>3, <1>7 DEF Behind
  <2>2. CASE n = s.phase
    BY <2>2, <1>7, <1>8
  <2>3. CASE n # s.phase
    <3>1. Name(n, s.target) # Current(p)
      BY <2>1, <2>3, <1>7, NameInjective DEF TypeOK, Scan
    <3>2. File(p, n).kind # "none"
      BY <2>1, <3>1, <1>8 DEF File
    <3>. QED
      BY <2>1, <2>3, <3>2 DEF ProcessInv, Tracked
  <2>. QED
    BY <2>2, <2>3
<1>. QED
  BY <1>5, <1>6, <1>9, <1>10 DEF ProcessInv

LEMMA LeaveKept ==
  ASSUME TypeOK, NEW p \in Process, ProcessInv(p), Leave(p), attempts \in Nat
  PROVE  ProcessInv(p)'
<1>1. pc'[p] = "idle" /\ scan'[p] = NoScan /\ proc'[p] = proc[p] /\ UNCHANGED attempts
  BY DEF Leave, Goto, TypeOK
<1>. QED
  BY <1>1, IdleKept DEF ProcessInv

LEMMA LaunchKept ==
  ASSUME TypeOK, NEW p \in Process, ProcessInv(p), Launch(p)
  PROVE  ProcessInv(p)'
<1>1. PICK ts \in SUBSET Target :
        /\ proc'[p].assigned = ts /\ proc'[p].todo = ts /\ proc'[p].checkpoints = {}
        /\ pc'[p] = "idle" /\ scan'[p] = scan[p] /\ UNCHANGED attempts
  BY DEF Launch, Goto, TypeOK
<1>2. OwnNames(p)'
  BY <1>1 DEF OwnNames, Scanning
<1>. QED
  BY <1>1, <1>2 DEF ProcessInv, NothingLost, OldFirst, Tracked, Scanning

LEMMA StartTargetKept ==
  ASSUME TypeOK, FilesSorted, NEW p \in Process, ProcessInv(p), NEW t \in Target, StartTarget(p, t)
  PROVE  ProcessInv(p)'
<1>1. /\ pc'[p] = "unfinished" /\ scan'[p] = NewScan(t, attempts + 1)
      /\ attempts' = attempts + 1 /\ attempts \in Nat /\ UNCHANGED files
      /\ proc'[p] = [proc[p] EXCEPT !.todo = @ \ {t}] /\ t \in proc[p].todo
  BY BoundAssumption DEF StartTarget, Goto, TypeOK
<1>2. /\ scan'[p].evaluations = List(<<>>) /\ scan'[p].attempt = attempts + 1
      /\ scan'[p].target = t /\ scan'[p].phase = 1
  BY <1>1 DEF NewScan
<1>3. /\ proc'[p].assigned = proc[p].assigned /\ proc'[p].todo = proc[p].todo \ {t}
      /\ proc'[p].checkpoints = proc[p].checkpoints
  BY <1>1 DEF TypeOK, Proc
<1>4. OwnNames(p)'
  BY <1>1, <1>2, <1>3 DEF ProcessInv, OwnNames, Mine
<1>5. NothingLost(p)'
  BY <1>1, <1>2 DEF NothingLost, List
<1>6. ASSUME NEW n \in Phases PROVE UpTo(File(p, n)'.list, attempts + 1)
  <2>1. Name(n, t) \in Names /\ File(p, n)' = files[Name(n, t)]
    BY <1>1, <1>2, NameType DEF File
  <2>2. files[Name(n, t)].list \in Seq(Batch)
    BY <2>1 DEF TypeOK, Saved
  <2>3. \A i \in DOMAIN files[Name(n, t)].list : files[Name(n, t)].list[i] \in Batch
    BY <2>2
  <2>. QED
    BY <1>1, <2>1, <2>3 DEF FilesSorted, UpTo, Batch
<1>7. OldFirst(p)'
  <2>1. Sorted(<<>>) /\ UpTo(<<>>, attempts + 1)
    BY DEF Sorted, UpTo
  <2>. QED
    BY <1>1, <1>2, <1>6, <2>1 DEF OldFirst, List
<1>8. Tracked(p)'
  BY <1>1, <1>2 DEF Tracked, Behind
<1>. QED
  BY <1>4, <1>5, <1>7, <1>8 DEF ProcessInv

LEMMA UnfinishedKept ==
  ASSUME TypeOK, NEW p \in Process, ProcessInv(p), Unfinished(p)
  PROVE  ProcessInv(p)'
<1>1. /\ pc'[p] = (IF proc[p].resume /\ files[Current(p)].kind # "none" THEN "resume" ELSE "evaluate")
      /\ UNCHANGED <<files, attempts, proc, scan>> /\ pc[p] = "unfinished"
  BY DEF Unfinished, Goto, TypeOK
<1>2. UNCHANGED <<Mine(p), Current(p), Scanning(p), Behind(p)>> /\ \A n : UNCHANGED File(p, n)
  BY <1>1 DEF Mine, Current, Scanning, Behind, File
<1>3. OwnNames(p)'
  BY <1>1, <1>2 DEF ProcessInv, OwnNames
<1>4. NothingLost(p)'
  BY <1>1, <1>2 DEF ProcessInv, NothingLost
<1>5. OldFirst(p)'
  BY <1>1, <1>2 DEF ProcessInv, OldFirst
<1>6. Tracked(p)'
  BY <1>1, <1>2 DEF ProcessInv, Tracked
<1>. QED
  BY <1>3, <1>4, <1>5, <1>6 DEF ProcessInv

LEMMA CurrentNames ==
  ASSUME TypeOK, NEW p \in Process, ProcessInv(p), Scanning(p)
  PROVE  /\ Current(p) \in Names /\ WithCurrent(p) \in SUBSET Names
         /\ WithCurrent(p) \subseteq Mine(p) /\ proc[p].checkpoints \subseteq WithCurrent(p)
         /\ Current(p) \in WithCurrent(p)
         /\ UpTo(files[Current(p)].list, scan[p].attempt)
<1>1. Current(p) \in Mine(p) /\ Mine(p) \subseteq Names
  BY MineNames DEF ProcessInv
<1>2. scan[p].phase \in Phases
  BY DEF TypeOK, Scan
<1>3. UpTo(files[Current(p)].list, scan[p].attempt)
  BY <1>2 DEF ProcessInv, OldFirst, File, Current
<1>. QED
  BY <1>1, <1>3 DEF ProcessInv, OwnNames, WithCurrent

LEMMA ResumeKept ==
  ASSUME TypeOK, TypeOK', FilesSorted, NEW p \in Process, ProcessInv(p), Resume(p)
  PROVE  ProcessInv(p)'
<1>. DEFINE s == [scan[p] EXCEPT !.evaluations = files[Current(p)], !.pickles = TRUE]
<1>1. pc[p] = "resume" /\ Scanning(p) /\ UNCHANGED files /\ attempts \in Nat
  BY BoundAssumption DEF Resume, Scanning, TypeOK
<1>2. CASE Leave(p)
  BY <1>1, <1>2, LeaveKept
<1>3. CASE files[Current(p)].kind # "torn" /\ EndPhase(p, s, WithCurrent(p))
  <2>1. Current(p) \in Names /\ files[Current(p)] \in Saved /\ scan[p] \in Scan
    BY <1>1, CurrentNames DEF TypeOK
  <2>2. /\ s \in Scan /\ s.evaluations = files[Current(p)] /\ s.target = scan[p].target
        /\ s.phase = scan[p].phase /\ s.attempt = scan[p].attempt
    BY <2>1 DEF Scan
  <2>3. files[Current(p)].kind = "list"
    BY <1>1, <1>3, <2>1 DEF ProcessInv, NothingLost, Saved
  <2>4. Sorted(s.evaluations.list) /\ UpTo(s.evaluations.list, s.attempt)
    BY <2>1, <2>2, <1>1, CurrentNames DEF FilesSorted
  <2>. HIDE DEF s
  <2>. QED
    BY <1>1, <1>3, <2>2, <2>3, <2>4, CurrentNames, EndPhaseKept
<1>. QED
  BY <1>2, <1>3 DEF Resume, ResumeWith

(* The results of a phase are from the scan itself and come last.          *)
LEMMA EvaluatedSorted ==
  ASSUME NEW s \in Scan, Sorted(s.evaluations.list), UpTo(s.evaluations.list, s.attempt)
  PROVE  /\ Evaluated(s) \in Scan /\ Evaluated(s).target = s.target
         /\ Evaluated(s).phase = s.phase /\ Evaluated(s).attempt = s.attempt
         /\ Evaluated(s).clearing = s.clearing /\ Evaluated(s).unlinking = s.unlinking
         /\ Evaluated(s).evaluations.kind = "list"
         /\ Sorted(Evaluated(s).evaluations.list) /\ UpTo(Evaluated(s).evaluations.list, s.attempt)
<1>. DEFINE l == s.evaluations.list
            b == NewBatch(s.target, s.phase, s.attempt, l)
            k == Append(l, b)
<1>1. Evaluated(s) = [s EXCEPT !.evaluations = List(k)] /\ Evaluated(s) \in Scan
  BY EvaluatedType DEF Evaluated, Scan
<1>2. /\ Evaluated(s).evaluations = List(k) /\ Evaluated(s).target = s.target
      /\ Evaluated(s).phase = s.phase /\ Evaluated(s).attempt = s.attempt
      /\ Evaluated(s).clearing = s.clearing /\ Evaluated(s).unlinking = s.unlinking
  BY <1>1 DEF Scan
<1>3. l \in Seq(Batch) /\ b.attempt = s.attempt /\ s.attempt \in Nat
  BY DEF Scan, Saved, NewBatch
<1>4. /\ DOMAIN k = DOMAIN l \cup {Len(l) + 1} /\ k[Len(l) + 1] = b
      /\ \A i \in DOMAIN l : k[i] = l[i] /\ i < Len(l) + 1
  BY SMTT(30), <1>3
<1>. HIDE DEF l, b, k
<1>5. UpTo(k, s.attempt)
  BY <1>3, <1>4 DEF UpTo, l
<1>6. Sorted(k)
  <2>. SUFFICES ASSUME NEW i \in DOMAIN k, NEW j \in DOMAIN k, i < j
                PROVE  k[i].attempt <= k[j].attempt
    BY DEF Sorted
  <2>1. i \in DOMAIN l
    BY <1>3, <1>4
  <2>2. CASE j \in DOMAIN l
    BY <1>4, <2>1, <2>2 DEF Sorted, l
  <2>3. CASE j = Len(l) + 1
    BY <1>3, <1>4, <2>1, <2>3 DEF UpTo, l
  <2>. QED
    BY <1>4, <2>2, <2>3
<1>. QED
  BY <1>1, <1>2, <1>5, <1>6 DEF List

LEMMA EvaluateKept ==
  ASSUME TypeOK, TypeOK', NEW p \in Process, ProcessInv(p), Evaluate(p)
  PROVE  ProcessInv(p)'
<1>1. /\ pc[p] = "evaluate" /\ Scanning(p) /\ UNCHANGED files /\ attempts \in Nat
      /\ scan[p] \in Scan /\ proc[p] \in Proc
  BY BoundAssumption DEF Evaluate, Scanning, TypeOK
<1>. DEFINE s == Evaluated(scan[p])
<1>2. /\ s \in Scan /\ s.target = scan[p].target /\ s.phase = scan[p].phase
      /\ s.attempt = scan[p].attempt /\ s.evaluations.kind = "list"
      /\ s.clearing = scan[p].clearing /\ s.unlinking = scan[p].unlinking
      /\ Sorted(s.evaluations.list) /\ UpTo(s.evaluations.list, s.attempt)
  BY <1>1, EvaluatedSorted DEF ProcessInv, OldFirst
<1>. HIDE DEF s
<1>3. CASE Leave(p)
  BY <1>1, <1>3, LeaveKept
<1>4. CASE ~proc[p].checkpoint /\ EndPhase(p, s, proc[p].checkpoints)
  <2>1. /\ proc[p].checkpoints \in SUBSET Names /\ proc[p].checkpoints \subseteq Mine(p)
        /\ (proc[p].checkpoint \/ proc[p].resume) => files'[Current(p)].kind = "none"
    BY <1>1, <1>4 DEF Proc, ProcessInv, OwnNames, Tracked
  <2>. QED
    BY <1>1, <1>2, <1>4, <2>1, CurrentNames, EndPhaseKept
<1>5. CASE /\ proc[p].checkpoint /\ scan' = [scan EXCEPT ![p] = s] /\ Goto(p, "mark")
           /\ UNCHANGED <<attempts, proc>>
  <2>1. pc'[p] = "mark" /\ scan'[p] = s /\ proc'[p] = proc[p]
    BY <1>5 DEF Goto, TypeOK
  <2>2. /\ UNCHANGED <<Mine(p), Scanning(p), Behind(p)>>
        /\ \A n : UNCHANGED File(p, n)
    BY <1>1, <1>2, <2>1 DEF Mine, Scanning, Behind, File
  <2>3. OwnNames(p)'
    BY <1>1, <1>2, <2>1, <2>2 DEF ProcessInv, OwnNames
  <2>4. NothingLost(p)'
    BY <1>2, <2>1 DEF NothingLost
  <2>5. OldFirst(p)'
    BY <1>1, <1>2, <1>5, <2>1, <2>2 DEF ProcessInv, OldFirst
  <2>6. Tracked(p)'
    BY <1>1, <1>2, <1>5, <2>1, <2>2 DEF ProcessInv, Tracked
  <2>. QED
    BY <2>3, <2>4, <2>5, <2>6 DEF ProcessInv
<1>. QED
  BY <1>3, <1>4, <1>5 DEF Evaluate, s

(* An empty or truncated file, in the place of p's own                     *)
LEMMA NoList ==
  ASSUME NEW c \in Nat
  PROVE  /\ UpTo(Torn.list, c) /\ Torn.kind # "none"
         /\ UpTo(Nothing.list, c) /\ Nothing.kind = "none"
BY DEF Torn, Nothing, UpTo

LEMMA MarkKept ==
  ASSUME TypeOK, TypeOK', NEW p \in Process, ProcessInv(p), Mark(p)
  PROVE  ProcessInv(p)'
<1>1. /\ pc[p] = "mark" /\ Scanning(p) /\ attempts \in Nat /\ scan[p] \in Scan
      /\ proc[p].checkpoint
  BY BoundAssumption DEF Mark, Scanning, TypeOK, ProcessInv, Tracked
<1>2. CASE Leave(p)
  BY <1>1, <1>2, LeaveKept
<1>3. CASE /\ files' = [files EXCEPT ![Current(p)] = Torn] /\ Goto(p, "write")
           /\ UNCHANGED <<attempts, proc, scan>>
  <2>1. pc'[p] = "write" /\ UNCHANGED <<attempts, proc, scan>>
    BY <1>3 DEF Goto, TypeOK
  <2>2. UNCHANGED <<Mine(p), Scanning(p), Behind(p), Current(p)>>
    BY <1>1, <2>1 DEF Mine, Scanning, Behind, Current
  <2>3. /\ \A n \in Names : n # Current(p) => files'[n] = files[n]
        /\ files'[Current(p)] = Torn
    BY <1>1, <1>3, CurrentNames DEF TypeOK
  <2>4. OwnNames(p)'
    BY <1>1, <2>1, <2>2 DEF ProcessInv, OwnNames
  <2>5. NothingLost(p)'
    BY <2>1 DEF ProcessInv, NothingLost
  <2>6. \A n \in Phases : Name(n, scan[p].target) \in Names /\ scan[p].attempt \in Nat
    BY <1>1, NameType DEF Scan
  <2>7. OldFirst(p)'
    <3>1. \A n \in Phases : UpTo(File(p, n)'.list, scan[p].attempt)
      BY <1>1, <2>1, <2>3, <2>6, NoList DEF ProcessInv, OldFirst, File
    <3>. QED
      BY <2>1, <2>2, <3>1 DEF ProcessInv, OldFirst
  <2>8. Tracked(p)'
    <3>. SUFFICES ASSUME NEW n \in Behind(p), File(p, n)'.kind # "none"
                  PROVE  Name(n, scan[p].target) \in proc[p].checkpoints
      BY <1>1, <2>1, <2>2 DEF Tracked
    <3>1. n \in Phases /\ n # scan[p].phase /\ scan[p].target \in Target /\ scan[p].phase \in Phases
      BY <1>1 DEF Behind, Scan
    <3>2. Name(n, scan[p].target) # Current(p)
      BY <3>1, NameInjective DEF Current
    <3>3. File(p, n).kind # "none"
      BY <2>1, <2>3, <2>6, <3>1, <3>2 DEF File
    <3>. QED
      BY <1>1, <3>3 DEF ProcessInv, Tracked
  <2>. QED
    BY <2>4, <2>5, <2>7, <2>8 DEF ProcessInv
<1>4. CASE EndPhase(p, [scan[p] EXCEPT !.pickles = FALSE], WithCurrent(p)) /\ UNCHANGED files
  <2>. DEFINE s == [scan[p] EXCEPT !.pickles = FALSE]
  <2>1. /\ s \in Scan /\ s.evaluations = scan[p].evaluations /\ s.target = scan[p].target
        /\ s.phase = scan[p].phase /\ s.attempt = scan[p].attempt
    BY <1>1 DEF Scan
  <2>2. /\ s.evaluations.kind = "list" /\ Sorted(s.evaluations.list)
        /\ UpTo(s.evaluations.list, s.attempt)
    BY <2>1 DEF ProcessInv, NothingLost, OldFirst
  <2>3. EndPhase(p, s, WithCurrent(p))
    BY <1>4
  <2>. HIDE DEF s
  <2>. QED
    BY <1>1, <1>4, <2>1, <2>2, <2>3, CurrentNames, EndPhaseKept
<1>. QED
  BY <1>2, <1>3, <1>4 DEF Mark

LEMMA WriteKept ==
  ASSUME TypeOK, TypeOK', NEW p \in Process, ProcessInv(p), Write(p)
  PROVE  ProcessInv(p)'
<1>1. /\ pc[p] = "write" /\ Scanning(p) /\ attempts \in Nat /\ scan[p] \in Scan
  BY BoundAssumption DEF Write, Scanning, TypeOK
<1>2. CASE Leave(p)
  BY <1>1, <1>2, LeaveKept
<1>3. CASE /\ files' = [files EXCEPT ![Current(p)] = scan[p].evaluations]
           /\ EndPhase(p, scan[p], WithCurrent(p))
  <2>1. /\ \A n \in Names : n # Current(p) => files'[n] = files[n]
        /\ files'[Current(p)] = scan[p].evaluations
    BY <1>1, <1>3, CurrentNames DEF TypeOK
  <2>2. /\ scan[p].evaluations.kind = "list" /\ Sorted(scan[p].evaluations.list)
        /\ UpTo(scan[p].evaluations.list, scan[p].attempt)
    BY DEF ProcessInv, NothingLost, OldFirst
  <2>. QED
    BY <1>1, <1>3, <2>1, <2>2, CurrentNames, EndPhaseKept
<1>. QED
  BY <1>2, <1>3 DEF Write

LEMMA ClearKept ==
  ASSUME TypeOK, NEW p \in Process, ProcessInv(p), Clear(p)
  PROVE  ProcessInv(p)'
<1>1. /\ pc[p] = "clear" /\ Scanning(p) /\ scan[p] \in Scan
      /\ UNCHANGED <<files, attempts, proc>>
  BY DEF Clear, Scanning, TypeOK
<1>2. /\ scan'[p].target = scan[p].target /\ scan'[p].attempt = scan[p].attempt
      /\ scan'[p].evaluations = scan[p].evaluations
      /\ \/ \E n \in scan[p].clearing :
              /\ files[n].kind = "none" /\ pc'[p] = "clear"
              /\ scan'[p].clearing = scan[p].clearing \ {n}
         \/ \E n \in scan[p].clearing :
              /\ files[n].kind # "none" /\ pc'[p] = "unlink"
              /\ scan'[p].clearing = scan[p].clearing /\ scan'[p].unlinking = n
         \/ pc'[p] = "report" /\ scan'[p].clearing = {} /\ scan[p].clearing = {}
  BY <1>1 DEF Clear, Goto, TypeOK, Scan
<1>3. UNCHANGED <<Mine(p), Scanning(p), Behind(p)>> /\ \A n : UNCHANGED File(p, n)
  BY <1>1, <1>2 DEF Mine, Scanning, Behind, File
<1>4. OwnNames(p)'
  BY <1>1, <1>2, <1>3 DEF ProcessInv, OwnNames
<1>5. NothingLost(p)'
  BY <1>1, <1>2 DEF ProcessInv, NothingLost
<1>6. OldFirst(p)'
  BY <1>1, <1>2, <1>3 DEF ProcessInv, OldFirst
<1>7. Tracked(p)'
  BY <1>1, <1>2, <1>3 DEF ProcessInv, Tracked, File
<1>. QED
  BY <1>4, <1>5, <1>6, <1>7 DEF ProcessInv

LEMMA UnlinkKept ==
  ASSUME TypeOK, NEW p \in Process, ProcessInv(p), Unlink(p)
  PROVE  ProcessInv(p)'
<1> DEFINE u == scan[p].unlinking
<1>1. /\ pc[p] = "unlink" /\ Scanning(p) /\ scan[p] \in Scan
      /\ u \in scan[p].clearing /\ files[u].kind # "none" /\ u \in Names
  BY DEF Unlink, Scanning, TypeOK, ProcessInv, OwnNames, NothingLost, Scan
<1>2. /\ scan'[p].target = scan[p].target /\ scan'[p].attempt = scan[p].attempt
      /\ scan'[p].evaluations = scan[p].evaluations
      /\ scan'[p].clearing = scan[p].clearing \ {u} /\ pc'[p] = "clear"
      /\ UNCHANGED <<attempts, proc>>
      /\ files' = [files EXCEPT ![u] = Nothing]
  BY <1>1 DEF Unlink, Goto, TypeOK, Scan
<1>3. UNCHANGED <<Mine(p), Scanning(p), Behind(p)>>
  BY <1>1, <1>2 DEF Mine, Scanning, Behind
<1>4. /\ \A n \in Names : n # u => files'[n] = files[n]
      /\ files'[u] = Nothing
  BY <1>1, <1>2 DEF TypeOK
<1>5. OwnNames(p)'
  BY <1>1, <1>2, <1>3 DEF ProcessInv, OwnNames
<1>6. NothingLost(p)'
  BY <1>2 DEF ProcessInv, NothingLost
<1>7. \A n \in Phases : Name(n, scan[p].target) \in Names /\ scan[p].attempt \in Nat
  BY <1>1, NameType DEF Scan
<1>8. OldFirst(p)'
  <2>1. \A n \in Phases : UpTo(File(p, n)'.list, scan[p].attempt)
    BY <1>1, <1>2, <1>4, <1>7, NoList DEF ProcessInv, OldFirst, File
  <2>. QED
    BY <1>2, <1>3, <2>1 DEF ProcessInv, OldFirst
<1>9. Tracked(p)'
  <2>. SUFFICES ASSUME proc[p].checkpoint \/ proc[p].resume, NEW n \in Phases,
                       File(p, n)'.kind # "none"
                PROVE  Name(n, scan[p].target) \in scan[p].clearing \ {u}
    BY <1>2 DEF Tracked, Behind
  <2>1. Name(n, scan[p].target) # u /\ File(p, n).kind # "none"
    BY <1>2, <1>4, <1>7, NoList DEF File
  <2>. QED
    BY <1>1, <2>1 DEF ProcessInv, Tracked, Behind
<1>. QED
  BY <1>5, <1>6, <1>8, <1>9 DEF ProcessInv

LEMMA DisjointStep ==
  ASSUME TypeOK, TypeOK', DisjointInv, [Next]_vars
  PROVE  DisjointInv'
<1>. SUFFICES ASSUME Disjoint, Apart, FilesSorted, \A p \in Process : ProcessInv(p)
              PROVE  Apart' /\ FilesSorted' /\ \A p \in Process : ProcessInv(p)'
  BY DEF DisjointInv
<1>1. CASE UNCHANGED vars
  <2>1. UNCHANGED <<files, attempts, pc, proc, scan>>
    BY <1>1 DEF vars
  <2>2. ASSUME NEW p \in Process PROVE ProcessInv(p)'
    <3>1. UNCHANGED <<Mine(p), Current(p), Scanning(p), Behind(p)>> /\ \A n : UNCHANGED File(p, n)
      BY <2>1 DEF Mine, Current, Scanning, Behind, File
    <3>2. OwnNames(p)' /\ NothingLost(p)'
      BY <2>1, <3>1 DEF ProcessInv, OwnNames, NothingLost
    <3>3. OldFirst(p)' /\ Tracked(p)'
      BY <2>1, <3>1 DEF ProcessInv, OldFirst, Tracked
    <3>. QED
      BY <3>2, <3>3 DEF ProcessInv
  <2>. QED
    BY <2>1, <2>2 DEF Apart, FilesSorted
<1>2. ASSUME NEW p \in Process, Step(p)
      PROVE  Apart' /\ FilesSorted' /\ \A q \in Process : ProcessInv(q)'
  <2>1. Apart' /\ FilesSorted'
    BY <1>2, ApartKept, FilesSortedKept DEF ProcessInv
  <2>2. \A q \in Process : q # p => ProcessInv(q)'
    BY <1>2, OthersKept DEF ProcessInv
  <2>3. attempts \in Nat
    BY BoundAssumption DEF TypeOK
  <2>4. CASE Crash(p)
    <3>1. /\ pc'[p] = "down" /\ scan'[p] = NoScan /\ proc'[p] = NoProc /\ UNCHANGED attempts
      BY <2>4 DEF Crash, Goto, TypeOK
    <3>. QED
      BY <3>1, <2>1, <2>2, <2>3, IdleKept DEF ProcessInv
  <2>5. CASE Report(p)
    BY <2>1, <2>2, <2>3, <2>5, LeaveKept DEF Report
  <2>. QED
    BY <1>2, <2>1, <2>2, <2>4, <2>5, LaunchKept, StartTargetKept, UnfinishedKept, ResumeKept,
       EvaluateKept, MarkKept, WriteKept, ClearKept, UnlinkKept DEF Step
<1>. QED
  BY <1>1, <1>2 DEF Next

LEMMA DisjointInit == Init => DisjointInv
<1>. SUFFICES ASSUME Init PROVE Apart /\ FilesSorted /\ \A p \in Process : ProcessInv(p)
  BY DEF DisjointInv
<1>1. Sorted(<<>>) /\ UpTo(<<>>, 0)
  BY DEF Sorted, UpTo
<1>2. FilesSorted
  BY <1>1 DEF Init, FilesSorted, Nothing
<1>3. Apart
  BY DEF Init, Apart, NoProc
<1>4. ASSUME NEW p \in Process PROVE ProcessInv(p)
  <2>1. /\ pc[p] = "down" /\ proc[p] = NoProc /\ attempts = 0
        /\ scan[p].evaluations = List(<<>>) /\ scan[p].attempt = 0
    BY DEF Init, NoScan, NewScan
  <2>. QED
    BY <1>1, <2>1 DEF ProcessInv, OwnNames, NothingLost, OldFirst, Tracked, Scanning, NoProc, List
<1>. QED
  BY <1>2, <1>3, <1>4

LEMMA DisjointInvariant == Spec => []DisjointInv
<1>1. TypeOK /\ TypeOK' /\ DisjointInv /\ [Next]_vars => DisjointInv'
  BY DisjointStep
<1>. QED
  BY DisjointInit, <1>1, TypeCorrect, PTL DEF Spec

(* Resuming may bring old results back, but never on top of newer ones: a  *)
(* process only resumes what earlier scans of its own targets left, and a  *)
(* scan writes after everything it resumed.                                *)
THEOREM NewestComeLast == Spec => []NewestLast
<1>1. DisjointInv => NewestLast
  BY DEF DisjointInv, ProcessInv, OldFirst, Sorted, NewestLast
<1>. QED
  BY <1>1, DisjointInvariant, PTL

(* A checkpoint that unfinished() or is_file() has seen is still there when*)
(* it is read or unlinked, and no scan's results are None, although clear  *)
(* goes through every name the process ever collected.                     *)
THEOREM CheckpointsStay == Spec => []NoLostCheckpoint
<1>1. DisjointInv => NoLostCheckpoint
  BY DEF DisjointInv, ProcessInv, NothingLost, NoLostCheckpoint
<1>. QED
  BY <1>1, DisjointInvariant, PTL

(* A scan that reports has removed every checkpoint of its target, also of *)
(* phases that an earlier, killed scan had got to.                         *)
THEOREM NothingStays == Spec => []NothingLeftBehind
<1>1. DisjointInv => NothingLeftBehind
  <2>. SUFFICES ASSUME Disjoint, NEW p \in Process, ProcessInv(p), pc[p] = "report",
                       proc[p].checkpoint \/ proc[p].resume, NEW n \in Phases
                PROVE  files[Name(n, scan[p].target)].kind = "none"
    BY DEF DisjointInv, NothingLeftBehind
  <2>. QED
    BY DEF ProcessInv, Tracked, Scanning, Behind, File
<1>. QED
  BY <1>1, DisjointInvariant, PTL
=============================================================================
