--------------------------- MODULE MCReportDelivery ---------------------------
(* Three targets, two of them ports of one host; an evaluation every target *)
(* has once, and one that occurs for each of two certificates.              *)
EXTENDS ReportDelivery, TLC

CONSTANTS a, b, b8443, hostA, hostB, leaf, ca, p1, p2

MCHostOf == a :> hostA @@ b :> hostB @@ b8443 :> hostB
MCEvaluations == [t \in Target |-> [protocol |-> 1, certificate |-> 2]]
MCCertsOf == a :> {leaf} @@ b :> {leaf, ca} @@ b8443 :> {ca}
MCConfigurations == {{a}, {a, b}, {b, b8443}}

(* Two outputs of a configuration file, the first of which is the baseline  *)
(* (with --json-file it is the only one, as if the scan were killed after   *)
(* it), and a scan that is uploaded.                                        *)
MCOptions ==
  {[outputs |-> <<p1, p2>>, baseline |-> p1, track |-> TRUE, cloud |-> FALSE],
   [outputs |-> <<p2>>, baseline |-> None, track |-> FALSE, cloud |-> TRUE]}

(* Uploads change no file: what is uploaded is looked at in the first two   *)
(* scans, and nothing follows it.                                           *)
UploadEnds == \A d \in server : d.scan = run.scan /\ d.scan <= 2
===============================================================================
