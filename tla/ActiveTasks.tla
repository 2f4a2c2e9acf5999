----------------------------- MODULE ActiveTasks -----------------------------
(***************************************************************************)
(* The evaluation tasks that work for a while, most of them with           *)
(* connections of their own: tls_robot, crime_vuln, h2c,                   *)
(* long_handshake_intolerance, version_intolerance and                     *)
(* client_renegotiation.  The decorator util.timeout limits two of them    *)
(* with the one alarm (SIGALRM) a process has, which a decorated method    *)
(* called from a decorated method takes over and switches off.             *)
(***************************************************************************)
EXTENDS CertChain, HttpPages

CONSTANT MaxPending   \* bound: search nodes of crime_vuln still to visit

ASSUME ActiveTasksAssumption == MaxPending \in Nat \ {0}

VARIABLES
  task,      \* the evaluation that runs
  server,    \* how the server treats it: [oracle, outcomes, ciphers, build]
  at,        \* where it is
  alarm,     \* whose alarm is set: "off", "evaluate" or "oracle"
  answers,   \* what its exchanges have brought so far
  pending,   \* crime_vuln: nodes to visit
  found,     \* crime_vuln: the search has counted a possibility
  verdict    \* what evaluate returned or raised; "open" before

taskVars == <<task, server, at, alarm, answers, pending, found, verdict>>

TasksInit(Servers) ==
  /\ server \in Servers
  /\ at = "start" /\ alarm = "off" /\ verdict = "open"
  /\ answers = <<>> /\ pending = 0 /\ found = FALSE

Messages == 1..5   \* pms_good, pms_bad1 to pms_bad4

\* A decorated function sets the alarm on its way in and switches it off on
\* its way out, whoever had set it before.
Enter(function) == alarm' = function
Exit == alarm' = "off"

End(v) ==
  /\ verdict' = v /\ at' = "ended" /\ Exit
  /\ UNCHANGED <<answers, pending, found>>

-----------------------------------------------------------------------------
(* tls_robot                                                                *)

EnterRobot ==
  /\ task = "tls_robot" /\ at = "start"
  /\ IF Leaves = {} THEN End("NotRelevant")
     ELSE IF FirstLeaf.type \notin {"RSA", "DSA"} THEN End("NotRelevant")
     ELSE IF FirstLeaf.type # "RSA" THEN End("None")   \* no modulus
     ELSE at' = "evaluate" /\ Enter("evaluate") /\ UNCHANGED <<answers, pending, found, verdict>>
  /\ UNCHANGED faults

Rounds == Len(answers) \div 5
Round(k) == SubSeq(answers, 5 * k - 4, 5 * k)
Same(round) == \A m \in Messages : round[m] = round[1]

\* The rounds: without the two last messages of a handshake omitted, with
\* them omitted if that made no difference, and once more the one that did.
Shortened == Rounds >= 1 /\ Same(Round(1))

AllAsked == \/ Rounds = 2 /\ (Shortened => Same(Round(2)))
            \/ Rounds = 3

(* Mutant: the answers of the second asking are not compared.               *)
RobotVerdictUnchecked == IF Rounds = 2 /\ Shortened /\ Same(Round(2)) THEN "False" ELSE "True"

RobotVerdict ==
  IF Rounds = 2 /\ Shortened /\ Same(Round(2)) THEN "False"
  ELSE IF Round(Rounds) # Round(Rounds - 1) THEN "None" ELSE "True"

(* Mutant: _oracle is not decorated.                                        *)
CallOracleUntimed ==
  /\ task = "tls_robot" /\ at = "evaluate" /\ ~AllAsked
  /\ at' = "oracle"
  /\ UNCHANGED <<alarm, answers, pending, found, verdict, faults>>

CallOracle ==
  /\ task = "tls_robot" /\ at = "evaluate" /\ ~AllAsked
  /\ at' = "oracle" /\ Enter("oracle")
  /\ UNCHANGED <<answers, pending, found, verdict, faults>>

Returned(text) ==
  /\ answers' = Append(answers, text)
  /\ at' = "evaluate" /\ Exit
  /\ UNCHANGED <<pending, found, verdict>>

Message == (Len(answers) % 5) + 1
Reply == server.oracle[Shortened][Message]

\* The loops that read records add what recv returns, b"" after the end of
\* the connection, until there is enough: they spin.
OracleReplies ==
  /\ at = "oracle"
  /\ IF Reply = "closes"
     THEN at' = "spinning" /\ UNCHANGED <<alarm, answers, pending, found, verdict>>
     ELSE Returned(Reply)
  /\ UNCHANGED faults

(* The exchange goes wrong: every exception becomes a text, the answer.     *)
OracleFails ==
  /\ at = "oracle"
  /\ Fault
  /\ Returned("quiet") \/ (at' = "spinning" /\ UNCHANGED <<alarm, answers, pending, found, verdict>>)

(* TimeoutError in _oracle is one of the exceptions it turns into a text.   *)
AlarmRings ==
  /\ alarm # "off"
  /\ \/ at = "spinning" /\ Returned("closes")
     \/ at = "search" /\ End("Timeout")
  /\ UNCHANGED faults

(* It rings outside of _oracle's try, on the way in or out.                 *)
AlarmEscapes ==
  /\ alarm # "off" /\ at \in {"evaluate", "oracle"}
  /\ Fault
  /\ End("Timeout")

ConcludeRobot ==
  /\ task = "tls_robot" /\ at = "evaluate" /\ AllAsked
  /\ End(RobotVerdict)
  /\ UNCHANGED faults

-----------------------------------------------------------------------------
(* crime_vuln: a search without a connection; a node without children is    *)
(* one possibility found.  It is taken to end or to meet its alarm before   *)
(* it meets Python's limit of recursion.                                    *)

EnterCrime ==
  /\ task = "crime_vuln" /\ at = "start"
  /\ IF server.ciphers = {} THEN End("NotRelevant")
     ELSE /\ at' = "search" /\ Enter("evaluate")
          /\ pending' = 1
          /\ UNCHANGED <<answers, found, verdict>>
  /\ UNCHANGED faults

Visit ==
  /\ at = "search" /\ pending > 0
  /\ \E children \in 0..(MaxPending + 1 - pending) :
       /\ pending' = pending - 1 + children
       /\ found' = (found \/ children = 0)
  /\ UNCHANGED <<at, alarm, answers, verdict, faults>>

\* One search after the other, until one has found something.
ConcludeCrime ==
  /\ at = "search" /\ pending = 0
  /\ IF ~found /\ server.ciphers = {"cbc", "rc4"} /\ answers = <<>>
     THEN answers' = <<"False">> /\ pending' = 1 /\ UNCHANGED <<at, alarm, found, verdict>>
     ELSE End(IF found THEN "True" ELSE "False")
  /\ UNCHANGED faults

-----------------------------------------------------------------------------
(* Attempts in turn, for every page (h2c), protocol version                 *)
(* (long_handshake_intolerance) or invented version (version_intolerance);  *)
(* none has an alarm.                                                       *)

Attempts == [h2c |-> Len(http_states), long_handshake_intolerance |-> 5, version_intolerance |-> 5]

EnterAttempts ==
  /\ task \in DOMAIN Attempts /\ at = "start"
  /\ at' = "attempts"
  /\ UNCHANGED <<alarm, answers, pending, found, verdict, faults>>

\* h2c: an exception skips the page, and get_upgrade_response spins when the
\* connection ends within the header.
UpgradePage(outcome) ==
  CASE outcome = "closes" -> "spinning"
    [] outcome = "upgrade" -> "True"
    [] outcome = "plain" -> "False"
    [] OTHER -> "skipped"   \* refused, silent

\* long_handshake_intolerance: the table of versions names ssl.PROTOCOL_SSLv3,
\* which most builds lack: AttributeError, whatever the version.  The socket
\* is made blocking before the handshake.
LongHandshake(outcome) ==
  IF "SSLv3" \notin server.build THEN "skipped"
  ELSE CASE outcome = "silent" -> "blocked"
         [] outcome = "negotiated" -> "False"
         [] OTHER -> "True"   \* refused, closes

\* version_intolerance: specify_tls_version returns nothing for a version the
\* library refuses, and for a handshake that is refused or takes too long.
\* After one that the server just closes it returns the version's name as
\* OpenSSL has it, as do_handshake keeps the exception to itself.
FakeVersion(outcome) ==
  IF "fake versions" \in server.build /\ outcome \in {"negotiated", "closes"}
  THEN "False" ELSE "True"   \* refused, silent

Outcome(outcome) ==
  CASE task = "h2c" -> UpgradePage(outcome)
    [] task = "long_handshake_intolerance" -> LongHandshake(outcome)
    [] task = "version_intolerance" -> FakeVersion(outcome)

Attempted(result) ==
  /\ IF result \in {"spinning", "blocked"}
     THEN at' = result /\ UNCHANGED answers
     ELSE answers' = Append(answers, result) /\ UNCHANGED at
  /\ UNCHANGED <<alarm, pending, found, verdict>>

Attempt ==
  /\ at = "attempts" /\ Len(answers) < Attempts[task]
  /\ \/ Attempted(Outcome(server.outcomes[Len(answers) + 1])) /\ UNCHANGED faults
     \/ Fault /\ \E outcome \in {"refused", "silent", "closes"} : Attempted(Outcome(outcome))

ConcludeAttempts ==
  /\ at = "attempts" /\ Len(answers) = Attempts[task]
  /\ End(IF \E i \in DOMAIN answers : answers[i] = "True" THEN "True" ELSE "False")
  /\ UNCHANGED faults

\* client_renegotiation compares how many renegotiations have begun: one begins
\* on every connection below TLS 1.3, whether or not the server then takes part.
Renegotiable == {"renegotiates", "keeps"}   \* keeps: the server refuses it

(* prepare_connection is outside of the try.                                *)
Renegotiate ==
  /\ task = "client_renegotiation" /\ at = "start"
  /\ \/ End(IF server.outcomes[1] \in Renegotiable THEN "True" ELSE "False") /\ UNCHANGED faults
     \/ Fault /\ (End("False") \/ End("error"))

(* A loop that spins, or a handshake that waits without an end.             *)
Hang ==
  /\ at \in {"spinning", "blocked"}
  /\ UNCHANGED <<at, alarm, answers, pending, found, verdict, faults>>

(* The evaluations that only read what the probes have recorded.            *)
JudgeRecorded ==
  /\ at = "start"
  /\ \/ task = "basic_constraints_path_length" /\ End(PathLengthVerdict)
     \/ task = "valid_certificate_chain" /\ \E v \in ValidChainVerdicts : End(v)
     \/ task \in PageTasks /\ End(PageVerdict(task))
  /\ UNCHANGED faults

TasksNext ==
  \/ EnterRobot \/ CallOracle \/ OracleReplies \/ OracleFails \/ AlarmRings \/ AlarmEscapes \/ ConcludeRobot
  \/ EnterCrime \/ Visit \/ ConcludeCrime
  \/ EnterAttempts \/ Attempt \/ ConcludeAttempts \/ Renegotiate \/ Hang
  \/ JudgeRecorded
=============================================================================
