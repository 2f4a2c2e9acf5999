--------------------------- MODULE MCEvaluationLoop ---------------------------
(* A small configuration for EvaluationLoop, interleaved as a file may have  *)
(* it: two certificate tasks, one of each other group.                      *)
EXTENDS EvaluationLoop

MCGroups == <<"tls_negotiation", "certificate", "compliance", "certificate",
              "transport">>

MCOutcomes ==
  [k \in {Order[i] : i \in DOMAIN Order} |->
     IF k = "certificate" THEN Outcome ELSE Outcome \ {"NoLogEvaluation"}]
=============================================================================
