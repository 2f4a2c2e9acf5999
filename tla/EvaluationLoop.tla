---------------------------- MODULE EvaluationLoop ----------------------------
(***************************************************************************)
(* The evaluation of one target without checkpoints: execute_evaluations   *)
(* runs the loops evaluate_certificates, evaluate_transports and twice     *)
(* evaluate_generic over the configured evaluations, the first one for     *)
(* every certificate of the chain.  Each loop keeps the value a task       *)
(* returned in a local variable of the function, "result", which outlives  *)
(* the turn that set it.                                                   *)
(***************************************************************************)
EXTENDS Naturals, Sequences

CONSTANTS
  Groups,      \* the group of each configured evaluation, in file order
  NumCerts,    \* certificates of the chain the probe found
  Outcomes     \* per group: what evaluating one of its tasks can come to

\* execute_evaluations' order, by the name the evaluations carry
Order == <<"certificate", "transport", "tls_negotiation", "compliance">>

\* "value" is returned, the others are raised; "error" is any exception the
\* loops do not name, _result_data's included.
Outcome == {"value", "EvaluationNotRelevant", "NotImplementedError",
            "TimeoutError", "NoLogEvaluation", "error"}

ASSUME LoopAssumption ==
  /\ NumCerts \in Nat
  /\ Groups \in Seq({Order[k] : k \in DOMAIN Order})
  /\ \A k \in DOMAIN Order : Outcomes[Order[k]] \subseteq Outcome
\* Only certificate tasks raise it (trust_*, strong_ and weak_issuer_validation).
ASSUME NoLogAssumption ==
  \A k \in DOMAIN Order :
    Order[k] # "certificate" => "NoLogEvaluation" \notin Outcomes[Order[k]]

Task == DOMAIN Groups
NoCert == 0
Turn == [phase : DOMAIN Order, cert : 0..NumCerts, task : Task]

\* The local variable "result": not yet assigned in this call, None, or what
\* the task returned for the certificate (its provenance is all that counts).
Unbound == [task |-> 0, cert |-> 0, is |-> "unbound"]
None == [task |-> 0, cert |-> 0, is |-> "None"]
Value(i, c) == [task |-> i, cert |-> c, is |-> "value"]

VARIABLES
  skipped,      \* tasks without a module or in skip_evaluations/_groups
  phase,        \* the loop that runs
  cert,         \* its certificate (NoCert outside the first loop)
  next,         \* the evaluation its turn is at
  result,       \* the local variable of that name
  evaluations,  \* store.evaluations
  irrelevant,   \* turns whose task raised EvaluationNotRelevant (history)
  status        \* "running", "done" or "raised"

vars == <<skipped, phase, cert, next, result, evaluations, irrelevant, status>>

FirstCert(k) == IF Order[k] = "certificate" THEN 1 ELSE NoCert

(* Mutant: the loop misses the last certificate of the chain.               *)
LastCertMissed(k) == IF Order[k] = "certificate" THEN NumCerts - 1 ELSE NoCert

LastCert(k) == IF Order[k] = "certificate" THEN NumCerts ELSE NoCert

Init ==
  /\ skipped \in SUBSET Task
  /\ phase = 1
  /\ cert = FirstCert(1)
  /\ next = 1
  /\ result = Unbound
  /\ evaluations = <<>>
  /\ irrelevant = {}
  /\ status = "running"

This == [phase |-> phase, cert |-> cert, task |-> next]

InLoop == status = "running" /\ cert <= LastCert(phase) /\ next \in Task

(* The turn is for another group's loop, or _evaluatation_module made no    *)
(* task of it.                                                              *)
Continue ==
  /\ InLoop
  /\ Groups[next] # Order[phase] \/ next \in skipped
  /\ next' = next + 1
  /\ UNCHANGED <<skipped, phase, cert, result, evaluations, irrelevant, status>>

(* Mutant: "result = None" is missing before the try.                       *)
ResetNever(r) == r

(* "result = None", which only evaluate_certificates has.                   *)
Reset(r) == IF Order[phase] = "certificate" THEN None ELSE r

Append1(v, l) ==
  evaluations' = Append(evaluations, [turn |-> This, value |-> v, label |-> l])

(* One turn of a loop with a task.                                          *)
Evaluate ==
  /\ InLoop
  /\ Groups[next] = Order[phase] /\ next \notin skipped
  /\ \E o \in Outcomes[Order[phase]] :
       /\ result' = IF o = "value" THEN Value(next, cert) ELSE Reset(result)
       /\ IF o = "error" \/ (o = "NoLogEvaluation" /\ result'.is = "unbound")
          THEN status' = "raised" /\ UNCHANGED next
          ELSE next' = next + 1 /\ UNCHANGED status
       /\ CASE o = "value" -> Append1(result', "annotated")
            [] o = "NotImplementedError" -> Append1(None, "SKIP!")
            [] o = "TimeoutError" -> Append1(None, "Timeout")
            [] o = "NoLogEvaluation" /\ result'.is # "unbound" ->
                 Append1(result', "No evaluation result")
            [] OTHER -> UNCHANGED evaluations
       /\ irrelevant' = IF o = "EvaluationNotRelevant"
                        THEN irrelevant \cup {This} ELSE irrelevant
  /\ UNCHANGED <<skipped, phase, cert>>

(* The next certificate, the next loop, or the end of execute_evaluations.  *)
Advance ==
  /\ status = "running"
  /\ ~InLoop
  /\ next' = 1
  /\ IF cert < LastCert(phase)
     THEN cert' = cert + 1 /\ UNCHANGED <<phase, result, status>>
     ELSE IF phase < Len(Order)
          THEN /\ phase' = phase + 1
               /\ cert' = FirstCert(phase + 1)
               /\ result' = Unbound
               /\ UNCHANGED status
          ELSE status' = "done" /\ UNCHANGED <<phase, cert, result>>
  /\ UNCHANGED <<skipped, evaluations, irrelevant>>

Next == Continue \/ Evaluate \/ Advance

Spec == Init /\ [][Next]_vars

-----------------------------------------------------------------------------
(* A recorded value is None or was returned by the very task of its record  *)
(* for the very certificate of its record: the variable "result" never      *)
(* carries a value of an earlier turn into a record.                        *)
OwnResult ==
  \A i \in DOMAIN evaluations :
    evaluations[i].value \in
      {None, Value(evaluations[i].turn.task, evaluations[i].turn.cert)}

Before(s, t) ==
  \/ s.phase < t.phase
  \/ s.phase = t.phase /\ s.cert < t.cert
  \/ s.phase = t.phase /\ s.cert = t.cert /\ s.task < t.task

(* The turns the configuration asks for.                                    *)
Due ==
  {t \in Turn : /\ Groups[t.task] = Order[t.phase]
                /\ t.task \notin skipped
                /\ t.cert \in IF Order[t.phase] = "certificate"
                              THEN 1..NumCerts ELSE {NoCert}}

Recorded == {evaluations[i].turn : i \in DOMAIN evaluations}

(* When the evaluation is over, every configured task that was not skipped  *)
(* has one record per certificate, or was not relevant there; the records   *)
(* are in the order of the loops, so compliance, which reads the others,    *)
(* comes last.                                                              *)
CompleteInOrder ==
  /\ \A i, j \in DOMAIN evaluations :
       i < j => Before(evaluations[i].turn, evaluations[j].turn)
  /\ status = "done" =>
       /\ Recorded \cup irrelevant = Due
       /\ Recorded \cap irrelevant = {}
=============================================================================
