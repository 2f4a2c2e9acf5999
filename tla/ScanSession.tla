----------------------------- MODULE ScanSession -----------------------------
(***************************************************************************)
(* A scanner process evaluates its targets one after the other, each in    *)
(* four phases, and keeps a checkpoint file per phase and target (class    *)
(* Trivialscan and outputs/checkpoint.py).  Processes share the checkpoint *)
(* directory; each has its own class-level set of checkpoint names.  A     *)
(* process may die between any two of its file operations and be started   *)
(* again, with or without --resume-checkpoint.                             *)
(*                                                                         *)
(* The phases are numbered in the order execute_evaluations runs them:     *)
(* 1 certificates, 2 transport, 3 tls_negotiation, 4 compliance.           *)
(***************************************************************************)
EXTENDS Naturals, Sequences

CONSTANTS
  Process,      \* scanner processes (pool workers or command line runs)
  Target,       \* hostname and port pairs
  CacheKey,     \* the part of a checkpoint name that comes from the target
  MaxAttempt,   \* bound: scans started over the whole history
  Disjoint      \* TRUE: no two live processes were given the same target

\* A checkpoint name is group + hostname + port without a separator.  Valid
\* domain names do not end in a digit, so distinct targets get distinct names.
ASSUME CacheKeyAssumption ==
  \A s, t \in Target : CacheKey[s] = CacheKey[t] => s = t
ASSUME BoundAssumption ==
  MaxAttempt \in Nat /\ Disjoint \in BOOLEAN /\ Target # {}

VARIABLES
  files,        \* the checkpoint directory: name -> Saved
  attempts,     \* scans started so far (it numbers them)
  pc,           \* where each process is
  proc,         \* what lives as long as the process
  scan          \* what lives as long as the scan of one target

vars == <<files, attempts, pc, proc, scan>>

Phases == 1..4
LastPhase == 4

\* Mutant: the group is not part of the name.
NameWithoutGroup(n, t) == <<1, CacheKey[t]>>

\* Checkpoint names: <<phase, key>> stands for sha1(group + hostname + port).
Names == Phases \X {CacheKey[t] : t \in Target}
Name(n, t) == <<n, CacheKey[t]>>

(* The results one phase contributes to the evaluations list, abstracted to *)
(* where they came from: target, phase, the scan that computed them and the *)
(* scans whose results the list held at that moment (compliance tasks read  *)
(* them).                                                                   *)
Batch == [target : Target, phase : Phases, attempt : Nat, over : Seq(Nat)]

Provenance(list) == [i \in DOMAIN list |-> list[i].attempt]

NewBatch(t, n, a, list) ==
  [target |-> t, phase |-> n, attempt |-> a, over |-> Provenance(list)]

(* What a checkpoint file or an evaluations attribute can hold: nothing     *)
(* (no file, None), a truncated pickle, or a list.                          *)
Saved == [kind : {"none", "torn", "list"}, list : Seq(Batch)]
Nothing == [kind |-> "none", list |-> <<>>]
Torn == [kind |-> "torn", list |-> <<>>]
List(l) == [kind |-> "list", list |-> l]

Locations == {"down", "idle", "unfinished", "resume", "evaluate", "mark",
              "write", "clear", "unlink", "report"}

(* The configuration's defaults, the targets the process was given, those   *)
(* not yet started, and the class attribute Trivialscan._checkpoints.       *)
Proc == [checkpoint : BOOLEAN, resume : BOOLEAN, assigned : SUBSET Target,
         todo : SUBSET Target, checkpoints : SUBSET Names]

(* The target, the phase, the number of the scan, store.evaluations,        *)
(* whether that can still be pickled, the names execute_evaluations has yet *)
(* to clear and the one that clear() has found on disk.                     *)
Scan == [target : Target, phase : Phases, attempt : Nat, evaluations : Saved,
         pickles : BOOLEAN, clearing : SUBSET Names, unlinking : Names]

NoProc == [checkpoint |-> FALSE, resume |-> FALSE, assigned |-> {},
           todo |-> {}, checkpoints |-> {}]

NewScan(t, a) ==
  [target |-> t, phase |-> 1, attempt |-> a, evaluations |-> List(<<>>),
   pickles |-> TRUE, clearing |-> {}, unlinking |-> Name(1, t)]

NoScan == NewScan(CHOOSE t \in Target : TRUE, 0)

-----------------------------------------------------------------------------
(* No scanner has run yet and /tmp holds no checkpoint.                     *)
Init ==
  /\ files = [n \in Names |-> Nothing]
  /\ attempts = 0
  /\ pc = [p \in Process |-> "down"]
  /\ proc = [p \in Process |-> NoProc]
  /\ scan = [p \in Process |-> NoScan]

Goto(p, l) == pc' = [pc EXCEPT ![p] = l]

Live(p) == pc[p] # "down"

(* The checkpoint name of the phase the process is in.                      *)
Current(p) == Name(scan[p].phase, scan[p].target)

(* A scanner process starts with an empty _checkpoints; the configuration   *)
(* says whether it writes checkpoints and whether it resumes from them.     *)
Launch(p) ==
  /\ ~Live(p)
  /\ \E ts \in SUBSET Target \ {{}}, writes, resumes \in BOOLEAN :
       /\ Disjoint => \A q \in Process : Live(q) => proc[q].assigned \cap ts = {}
       /\ proc' = [proc EXCEPT ![p] =
            [checkpoint |-> writes, resume |-> resumes, assigned |-> ts,
             todo |-> ts, checkpoints |-> {}]]
  /\ Goto(p, "idle")
  /\ UNCHANGED <<files, attempts, scan>>

(* The next target: a new Trivialscan object and transport (an empty        *)
(* evaluations list), a probe that negotiated TLS, and execute_evaluations  *)
(* begins.  A probe that fails leaves everything here as it was.            *)
StartTarget(p, t) ==
  /\ pc[p] = "idle"
  /\ t \in proc[p].todo
  /\ attempts < MaxAttempt
  /\ attempts' = attempts + 1
  /\ proc' = [proc EXCEPT ![p].todo = @ \ {t}]
  /\ scan' = [scan EXCEPT ![p] = NewScan(t, attempts + 1)]
  /\ Goto(p, "unfinished")
  /\ UNCHANGED files

(* An exception, or the end of the scan, returns to the caller.  The scan's *)
(* objects are dropped; the process, and with it _checkpoints, lives on.    *)
Leave(p) ==
  /\ Goto(p, "idle")
  /\ scan' = [scan EXCEPT ![p] = NoScan]
  /\ UNCHANGED <<attempts, proc>>

(* Mutants: one phase too many; the clearing loop goes through every        *)
(* checkpoint of the directory.                                             *)
EndPhaseLate(p, s, names) ==
  /\ proc' = [proc EXCEPT ![p].checkpoints = names]
  /\ IF s.phase > LastPhase
     THEN /\ Goto(p, "clear")
          /\ scan' = [scan EXCEPT ![p] = [s EXCEPT !.clearing = names]]
     ELSE /\ Goto(p, "unfinished")
          /\ scan' = [scan EXCEPT ![p] = [s EXCEPT !.phase = @ + 1]]
  /\ UNCHANGED attempts

EndPhaseClearingAll(p, s, names) ==
  /\ proc' = [proc EXCEPT ![p].checkpoints = names]
  /\ IF s.phase = LastPhase
     THEN /\ Goto(p, "clear")
          /\ scan' = [scan EXCEPT ![p] = [s EXCEPT !.clearing = Names]]
     ELSE /\ Goto(p, "unfinished")
          /\ scan' = [scan EXCEPT ![p] = [s EXCEPT !.phase = @ + 1]]
  /\ UNCHANGED attempts

(* A phase ends, leaving the scan as s and _checkpoints as names; then      *)
(* comes the next phase, or the clearing loop over all of _checkpoints.     *)
EndPhase(p, s, names) ==
  /\ proc' = [proc EXCEPT ![p].checkpoints = names]
  /\ IF s.phase = LastPhase
     THEN /\ Goto(p, "clear")
          /\ scan' = [scan EXCEPT ![p] = [s EXCEPT !.clearing = names]]
     ELSE /\ Goto(p, "unfinished")
          /\ scan' = [scan EXCEPT ![p] = [s EXCEPT !.phase = @ + 1]]
  /\ UNCHANGED attempts

WithCurrent(p) == proc[p].checkpoints \cup {Current(p)}

(* "if self._resume_cp and checkpoint.unfinished(checkpoint_name)"          *)
Unfinished(p) ==
  /\ pc[p] = "unfinished"
  /\ Goto(p, IF proc[p].resume /\ files[Current(p)].kind # "none"
             THEN "resume" ELSE "evaluate")
  /\ UNCHANGED <<files, attempts, proc, scan>>

ResumeWith(p, evaluations, names) ==
  EndPhase(p, [scan[p] EXCEPT !.evaluations = evaluations, !.pickles = TRUE], names)

(* Mutants of Resume: the results of the file's own phase are added to those*)
(* at hand; its name is not added to _checkpoints; a torn file counts as an *)
(* empty list.                                                              *)
ResumeAddingPhase(p) ==
  /\ pc[p] = "resume"
  /\ \/ /\ files[Current(p)].kind = "list"
        /\ LET l == files[Current(p)].list IN
             ResumeWith(p, List(scan[p].evaluations.list \o SubSeq(l, Len(l), Len(l))),
                        WithCurrent(p))
     \/ /\ files[Current(p)].kind # "list"
        /\ Leave(p)
  /\ UNCHANGED files

ResumeForgetting(p) ==
  /\ pc[p] = "resume"
  /\ \/ /\ files[Current(p)].kind # "torn"
        /\ ResumeWith(p, files[Current(p)], proc[p].checkpoints)
     \/ /\ files[Current(p)].kind # "list"
        /\ Leave(p)
  /\ UNCHANGED files

ResumeTorn(p) ==
  /\ pc[p] = "resume"
  /\ ResumeWith(p, List(files[Current(p)].list), WithCurrent(p))
  /\ UNCHANGED files

(* checkpoint.resume: the file replaces the whole evaluations list.  A      *)
(* truncated pickle raises; a file removed since it was seen yields None or *)
(* FileNotFoundError.                                                       *)
Resume(p) ==
  /\ pc[p] = "resume"
  /\ \/ /\ files[Current(p)].kind # "torn"
        /\ ResumeWith(p, files[Current(p)], WithCurrent(p))
     \/ /\ files[Current(p)].kind # "list"
        /\ Leave(p)
  /\ UNCHANGED files

Evaluated(s) ==
  [s EXCEPT !.evaluations =
     List(Append(@.list, NewBatch(s.target, s.phase, s.attempt, @.list)))]

(* Mutant: None counts as an empty list.                                    *)
EvaluateNone(p) ==
  /\ pc[p] = "evaluate"
  /\ \/ IF proc[p].checkpoint
        THEN /\ scan' = [scan EXCEPT ![p] = Evaluated(@)]
             /\ Goto(p, "mark")
             /\ UNCHANGED <<attempts, proc>>
        ELSE EndPhase(p, Evaluated(scan[p]), proc[p].checkpoints)
     \/ Leave(p)
  /\ UNCHANGED files

(* The phase's tasks run and append their results, or one of them raises    *)
(* something the loop does not catch.  Every group has a task that yields a *)
(* result, so None.append raises.                                           *)
Evaluate(p) ==
  /\ pc[p] = "evaluate"
  /\ \/ /\ scan[p].evaluations.kind = "list"
        /\ IF proc[p].checkpoint
           THEN /\ scan' = [scan EXCEPT ![p] = Evaluated(@)]
                /\ Goto(p, "mark")
                /\ UNCHANGED <<attempts, proc>>
           ELSE EndPhase(p, Evaluated(scan[p]), proc[p].checkpoints)
     \/ Leave(p)
  /\ UNCHANGED files

(* checkpoint.mark: write_bytes opens the file for writing, which truncates *)
(* it; or pickling raises a TypeError, mark returns without touching the    *)
(* file and the caller adds the name all the same; or pickling raises       *)
(* something else.  A list that does not pickle does not pickle after later *)
(* phases have extended it either.                                          *)
Mark(p) ==
  /\ pc[p] = "mark"
  /\ \/ /\ scan[p].pickles
        /\ files' = [files EXCEPT ![Current(p)] = Torn]
        /\ Goto(p, "write")
        /\ UNCHANGED <<attempts, proc, scan>>
     \/ /\ EndPhase(p, [scan[p] EXCEPT !.pickles = FALSE], WithCurrent(p))
        /\ UNCHANGED files
     \/ Leave(p) /\ UNCHANGED files

(* ... and then writes the bytes, all of them or (no space) only a part.    *)
Write(p) ==
  /\ pc[p] = "write"
  /\ \/ /\ files' = [files EXCEPT ![Current(p)] = scan[p].evaluations]
        /\ EndPhase(p, scan[p], WithCurrent(p))
     \/ /\ files' = [files EXCEPT ![Current(p)] = Torn]
        /\ Leave(p)

(* "for cp in self._checkpoints: checkpoint.clear(cp)", over every name the *)
(* process has collected.  clear() returns when the file is not there.      *)
Clear(p) ==
  /\ pc[p] = "clear"
  /\ \/ \E n \in scan[p].clearing :
          IF files[n].kind = "none"
          THEN scan' = [scan EXCEPT ![p].clearing = @ \ {n}] /\ UNCHANGED pc
          ELSE scan' = [scan EXCEPT ![p].unlinking = n] /\ Goto(p, "unlink")
     \/ scan[p].clearing = {} /\ Goto(p, "report") /\ UNCHANGED scan
  /\ UNCHANGED <<files, attempts, proc>>

(* checkpoint_file.unlink() raises when another process was faster.         *)
Unlink(p) ==
  /\ pc[p] = "unlink"
  /\ IF files[scan[p].unlinking].kind = "none"
     THEN UNCHANGED files /\ Leave(p)
     ELSE /\ files' = [files EXCEPT ![scan[p].unlinking] = Nothing]
          /\ scan' = [scan EXCEPT ![p].clearing = @ \ {scan[p].unlinking}]
          /\ Goto(p, "clear")
          /\ UNCHANGED <<attempts, proc>>

(* The caller turns the store into a report (or fails on None).             *)
Report(p) ==
  /\ pc[p] = "report"
  /\ Leave(p)
  /\ UNCHANGED files

(* The process ends, killed at any point or done with its targets; its      *)
(* memory goes with it.                                                     *)
Crash(p) ==
  /\ Live(p)
  /\ Goto(p, "down")
  /\ proc' = [proc EXCEPT ![p] = NoProc]
  /\ scan' = [scan EXCEPT ![p] = NoScan]
  /\ UNCHANGED <<files, attempts>>

Step(p) ==
  \/ Launch(p)
  \/ \E t \in Target : StartTarget(p, t)
  \/ Unfinished(p)
  \/ Resume(p)
  \/ Evaluate(p)
  \/ Mark(p)
  \/ Write(p)
  \/ Clear(p)
  \/ Unlink(p)
  \/ Report(p)
  \/ Crash(p)

Next == \E p \in Process : Step(p)

Spec == Init /\ [][Next]_vars

-----------------------------------------------------------------------------
TypeOK ==
  /\ files \in [Names -> Saved]
  /\ attempts \in 0..MaxAttempt
  /\ pc \in [Process -> Locations]
  /\ proc \in [Process -> Proc]
  /\ scan \in [Process -> Scan]

(* The first n phases of target t, each once and in order, and every batch  *)
(* computed over exactly the batches in front of it.                        *)
Coherent(list, t, n) ==
  /\ Len(list) = n
  /\ \A i \in 1..n :
       /\ list[i].target = t
       /\ list[i].phase = i
       /\ list[i].over = [j \in 1..(i - 1) |-> list[j].attempt]

(* A report that is about to be written (and is not None) holds the results *)
(* of all four phases of its own target, no phase missing, repeated or from *)
(* another target, and its compliance results were derived from the very    *)
(* results that stand before them, whatever mixture of earlier scans the    *)
(* checkpoints came from (execute_evaluations and checkpoint.resume).       *)
ReportWhole ==
  \A p \in Process :
    pc[p] = "report" /\ scan[p].evaluations.kind = "list" =>
      Coherent(scan[p].evaluations.list, scan[p].target, LastPhase)

(* Every readable checkpoint of phase n holds exactly the results of phases *)
(* 1 to n of the target in its name, each derived from those before it,     *)
(* also when processes race for the file, die while they write it or resume *)
(* from what others wrote.                                                  *)
FilesCoherent ==
  \A n \in Phases, t \in Target :
    files[Name(n, t)].kind = "list" => Coherent(files[Name(n, t)].list, t, n)

(* A running scan holds the results of the phases behind it.  With          *)
(* FilesCoherent this is inductive, and it implies ReportWhole.             *)
PhasesDone(p) ==
  IF pc[p] \in {"unfinished", "resume", "evaluate"}
  THEN scan[p].phase - 1 ELSE scan[p].phase

ScanCoherent(p) ==
  pc[p] \notin {"down", "idle"} =>
    /\ scan[p].evaluations.kind = "list" =>
         Coherent(scan[p].evaluations.list, scan[p].target, PhasesDone(p))
    /\ pc[p] \in {"mark", "write"} => scan[p].evaluations.kind = "list"
    /\ pc[p] \in {"clear", "unlink", "report"} => scan[p].phase = LastPhase

ScansCoherent == \A p \in Process : ScanCoherent(p)

Coherence == FilesCoherent /\ ScansCoherent

(* With no target scanned by two processes, no phase's results in a list    *)
(* are newer than those of a later phase: resuming may bring old results    *)
(* back, but never on top of newer ones.                                    *)
NewestLast ==
  Disjoint => \A p \in Process :
    \A i, j \in DOMAIN scan[p].evaluations.list :
      i < j => scan[p].evaluations.list[i].attempt
                 <= scan[p].evaluations.list[j].attempt

(* With no target scanned by two processes, the window between the          *)
(* existence test and the use of a checkpoint (unfinished/resume, is_file/  *)
(* unlink) is never hit: no scan resumes None or fails to unlink, although  *)
(* a finishing scan clears the names of other targets of its process.       *)
NoLostCheckpoint ==
  Disjoint => \A p \in Process :
    /\ pc[p] = "resume" => files[Current(p)].kind # "none"
    /\ pc[p] = "unlink" => files[scan[p].unlinking].kind # "none"
    /\ scan[p].evaluations.kind = "list"

(* With no target scanned by two processes, a scan that wrote or resumed    *)
(* checkpoints leaves none of its own behind when it reports, not even one  *)
(* an earlier crashed scan left for a later phase.                          *)
NothingLeftBehind ==
  Disjoint => \A p \in Process :
    pc[p] = "report" /\ (proc[p].checkpoint \/ proc[p].resume) =>
      \A n \in Phases : files[Name(n, scan[p].target)].kind = "none"
=============================================================================
