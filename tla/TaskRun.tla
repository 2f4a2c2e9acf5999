------------------------------- MODULE TaskRun -------------------------------
(***************************************************************************)
(* One scan from the handshake to an evaluation's verdict: tls_probe       *)
(* assembles the certificates (CertChain), http_probe fetches the pages    *)
(* (HttpPages), and one of the configured evaluations works on both        *)
(* (ActiveTasks).  Which one, and the server it meets, are chosen at the   *)
(* start.                                                                  *)
(***************************************************************************)
EXTENDS ActiveTasks

CONSTANT Scenarios   \* the tasks with the servers they meet

\* The request paths and the lines of a robots.txt are lists.
IsList(list) == list \in Seq(Range(list))
ASSUME ScenarioAssumption ==
  \A s \in Scenarios : \A x \in s.sites :
    IsList(x.paths) /\ (x.robots # NoRobots => IsList(x.robots))

VARIABLE stage       \* "probe", "pages", "tasks"

vars == <<stage, chainVars, pagesVars, taskVars>>

Init ==
  /\ stage = "probe"
  /\ \E s \in Scenarios :
       /\ task \in s.tasks
       /\ ChainInit(s.presented, s.stores)
       /\ PagesInit(s.sites)
       /\ TasksInit(s.servers)

\* trivialscan: tls_probe, then http_probe for every path, then the tasks
Probe ==
  /\ stage = "probe"
  /\ Assemble
  /\ stage' = "pages"
  /\ UNCHANGED <<pagesVars, taskVars>>

Pages ==
  /\ stage = "pages"
  /\ PagesNext
  /\ UNCHANGED <<stage, chainVars, taskVars>>

Evaluate ==
  /\ stage = "pages" /\ asking = "done"
  /\ stage' = "tasks"
  /\ UNCHANGED <<chainVars, pagesVars, taskVars>>

Work ==
  /\ stage = "tasks"
  /\ TasksNext
  /\ UNCHANGED <<stage, chainVars, task, server, site, turn, asking, cache, http_states, read, decided>>

Next == Probe \/ Pages \/ Evaluate \/ Work

Ring == stage = "tasks" /\ AlarmRings /\ UNCHANGED <<stage, chainVars, task, server, site, turn,
                                                   asking, cache, http_states, read, decided>>
(* The process runs; its alarm rings although a loop spins.  The handshake  *)
(* and the requests, which have no limit of their own, are taken to end: a  *)
(* server that neither answers nor closes would hold the probe for good.    *)
(* ProbeEnds is a Probe step: nothing else leaves that stage.               *)
ProbeEnds == stage = "probe" /\ stage' = "pages"
Fairness == WF_stage(ProbeEnds) /\ WF_vars(Pages) /\ WF_vars(Evaluate) /\ WF_vars(Work) /\ WF_vars(Ring)

Spec == Init /\ [][Next]_vars /\ Fairness

-----------------------------------------------------------------------------
Constant(flow) == \A m \in Messages : server.oracle[flow][m] = server.oracle[flow][1]
OracleFree == Constant(FALSE) /\ Constant(TRUE)
Outcomes == {server.outcomes[i] : i \in 1..5}

RobotEarned ==
  /\ verdict = "True" /\ faults < 2 => ~OracleFree
  /\ verdict = "False" /\ faults = 0 => OracleFree
  /\ verdict = "None" => faults > 0 \/ FirstLeaf.type = "DSA"
  /\ verdict = "Timeout" => faults > 0
CrimeEarned ==
  /\ verdict # "False"
  /\ verdict = "NotRelevant" <=> server.ciphers = {}
UpgradeEarned ==
  LET upgraded == \E i \in DOMAIN http_states : server.outcomes[i] = "upgrade"
  IN (verdict = "True" => upgraded) /\ (upgraded /\ faults = 0 => verdict = "True")
LongHandshakeEarned ==
  /\ "SSLv3" \notin server.build => verdict = "False"
  /\ "SSLv3" \in server.build /\ verdict = "False" => Outcomes = {"negotiated"}
  /\ verdict = "True" => faults > 0 \/ Outcomes # {"negotiated"}
Rejections == {i \in 1..5 : server.outcomes[i] \notin {"negotiated", "closes"}}   \* refused, silent
VersionsEarned ==
  /\ "fake versions" \notin server.build => verdict = "True"
  /\ verdict = "False" => Cardinality(Rejections) <= faults
  /\ verdict = "True" /\ faults = 0 /\ "fake versions" \in server.build => Rejections # {}
RenegotiationEarned ==
  /\ verdict = "True" => server.outcomes[1] \in Renegotiable
  /\ verdict = "False" /\ faults = 0 => server.outcomes[1] \notin Renegotiable
  /\ verdict = "error" => faults > 0

\* The intermediates somewhere below a certificate, as far as they are listed.
Intermediates == Classed({"Intermediate"})
BelowIt(c) == {d \in Intermediates : d \in Reach({c}) /\ d.ski # c.ski}
SelfSigned(c) == \E d \in Intermediates : d.aki = c.ski /\ d.ski = c.ski
PathLengthEarned ==
  LET limited == {c \in Classed({"Root", "Intermediate"}) : c.pathlen # NoKey}
  IN /\ verdict = "True" => \A c \in limited : c.pathlen = 0 => BelowIt(c) = {}
     /\ verdict = "False" => \E c \in limited : c.pathlen < Cardinality(BelowIt(c)) \/ SelfSigned(c)
PagesEarned ==
  LET says(i) == Says(task, Headers(site.paths[i]))
      all == {i \in DOMAIN site.paths : Status(<<"GET", site.paths[i].name>>) = 200}
      seen == {i \in all : ~NamedByRobots(site.paths[i])}
  IN /\ task \notin AnyPage =>
          /\ verdict = "False" => \E i \in all : ~says(i)
          /\ verdict = "True" /\ faults = 0 => \A i \in seen : says(i)
     /\ task \in AnyPage =>
          /\ verdict = "True" => \E i \in all : says(i)
          /\ verdict = "False" /\ faults = 0 => \A i \in seen : ~says(i)

(* What each task concludes is what the server did: tls_robot reports an    *)
(* oracle only if there is one or two exchanges went wrong, and none only   *)
(* if there is none or one went wrong; h2c reports an upgrade only if a     *)
(* recorded page was upgraded; crime_vuln has no negative answer;           *)
(* version_intolerance overlooks no more rejected versions than connections *)
(* were closed by accident, and takes one that the server closes for an     *)
(* accepted one; client_renegotiation reports what has begun; the other     *)
(* intolerance task and the headers likewise.                               *)
VerdictsEarned ==
  verdict # "open" =>
    /\ task = "tls_robot" => RobotEarned
    /\ task = "crime_vuln" => CrimeEarned
    /\ task = "h2c" => UpgradeEarned
    /\ task = "long_handshake_intolerance" => LongHandshakeEarned
    /\ task = "version_intolerance" => VersionsEarned
    /\ task = "client_renegotiation" => RenegotiationEarned
    /\ task \in PageTasks => PagesEarned

(* The chain is assembled as get_certificates promises (see CertChain), and *)
(* basic_constraints_path_length, valid_certificate_chain and tls_robot     *)
(* judge it as if they judged what the server presented: a limit of 0 is    *)
(* broken by whatever intermediate hangs below it, and a task about the     *)
(* leaf is not relevant if and only if the server's certificate names no    *)
(* signer (so that it is no leaf), or has another type of key.              *)
ChainSound ==
  /\ Assembled
  /\ verdict # "open" =>
       LET own == Head(presented)
       IN /\ task = "basic_constraints_path_length" => PathLengthEarned
          /\ task = "valid_certificate_chain" => (verdict = "NotRelevant" <=> own.aki = NoKey)
          /\ task = "tls_robot" =>
               (verdict = "NotRelevant" <=> own.aki = NoKey \/ own.type \notin {"RSA", "DSA"})

(* Every scan comes to its verdict, or an exception leaves trivialscan, but *)
(* for the two tasks without an alarm that read from a connection which     *)
(* ends within a header, or wait for a handshake nobody answers.            *)
Hung ==
  \/ task = "h2c" /\ at = "spinning"
  \/ task = "long_handshake_intolerance" /\ at = "blocked"
TasksEnd == <>(at = "ended" \/ asking = "raised" \/ Hung)
=============================================================================
