------------------------------- MODULE TlsProbe -------------------------------
(***************************************************************************)
(* The TLS probe of one target (connect_insecure of InsecureTransport with *)
(* TLSTransport's connect and specify_tls_version), a sequence of          *)
(* handshakes with one server that each offer every version up to some     *)
(* maximum, and the two tls_negotiation tasks that only interpret its      *)
(* outcome: version_interference and fallback_scsv.                        *)
(*                                                                         *)
(* OpenSSL (external) negotiates the highest common version.  The server's *)
(* way of ending a handshake without one matters: an alert raises          *)
(* SSL.Error, closing the connection raises SSL.SysCallError, which        *)
(* util.do_handshake swallows, and get_protocol_version_name then names    *)
(* the highest version the client had offered.                             *)
(***************************************************************************)
EXTENDS Integers, FiniteSetsExt

CONSTANTS
  Client,       \* versions the linked OpenSSL can speak
  Endings,      \* how servers end a hopeless handshake: "alert", "close"
  MaxFailures   \* bound: handshakes the network or the server spoils

NoVersion == 0
SSL2 == 1
TLS13 == 6
Version == SSL2..TLS13
Tried == 2..TLS13             \* tls_version_map: SSL 3 to TLS 1.3, in order

ASSUME ProbeAssumption ==
  /\ Client \subseteq Tried
  /\ Endings \subseteq {"alert", "close"}
  /\ MaxFailures \in Nat

VARIABLES
  supports,     \* the versions the server speaks
  ending,       \* its way to end a hopeless handshake
  failures,     \* handshakes spoiled so far
  at,           \* "start", "connect", "prefer", "offer", "done", "judged";
                \* "failed" (TransportError) or "raised" (anything else)
  version,      \* the loop variable of connect_insecure
  negotiated, preferred,          \* store.tls_state.*_protocol
  offered,      \* offered_tls_versions (reported as a sorted set)
  certificate,  \* the version of the handshake the server certificate is of
  rejected,     \* maxima for which no version was negotiated (history)
  interference, \* version_interference's tls_version_interference_versions
  fallback      \* fallback_scsv's result

server == <<supports, ending>>
state == <<negotiated, preferred, offered, certificate>>
judgement == <<interference, fallback>>
probeVars == <<server, failures, at, version, state, rejected, judgement>>

ProbeInit ==
  /\ supports \in SUBSET Tried
  /\ ending \in Endings
  /\ failures = 0
  /\ at = "start"
  /\ version = 2
  /\ negotiated = NoVersion /\ preferred = NoVersion
  /\ offered = {}
  /\ certificate = NoVersion
  /\ rejected = {}
  /\ interference = {} /\ fallback = "unset"

Hello(max) == {v \in Client : v <= max}
Common(max) == Hello(max) \cap supports

(* A handshake with the given maximum and no minimum: "agreed" on a         *)
(* version, "refused", "closed" under way, or no connection at all.         *)
Handshake(max, how) ==
  \/ /\ how = CASE Common(max) # {}                    -> "agreed"
                [] Common(max) = {} /\ Hello(max) = {} -> "refused"
                [] OTHER -> IF ending = "close" THEN "closed" ELSE "refused"
     /\ UNCHANGED failures
  \/ /\ failures < MaxFailures
     /\ failures' = failures + 1
     /\ how \in {"refused", "unreachable"} \cup
                (IF Hello(max) = {} THEN {} ELSE {"closed"})

(* What get_protocol_version_name says after do_handshake has returned.     *)
Named(max, how) == IF how = "agreed" THEN Max(Common(max)) ELSE Max(Hello(max))

(* cafiles that are no files or URLs raise an AttributeError, which         *)
(* tls_probe does not catch.                                                *)
Start ==
  /\ at = "start"
  /\ at' \in {"connect", "raised"}
  /\ UNCHANGED <<server, failures, version, state, rejected, judgement>>

(* Mutants: the loop does not stop, or does not look at the certificate.    *)
NoBreak(c, n) == FALSE
BreakOnName(c, n) == n # NoVersion

(* The loop of connect_insecure over connect stops with a certificate and a *)
(* version.                                                                 *)
Break(c, n) == c # NoVersion /\ n # NoVersion

(* connect, for one version.  Everything it may raise is logged and         *)
(* dropped; a closed connection has no session, so the attributes after     *)
(* offered_tls_versions keep their values (a reset one has no peer name     *)
(* either).  Without a server certificate the loop goes on.                 *)
Connect ==
  /\ at = "connect"
  /\ \E how \in {"agreed", "refused", "closed", "unreachable"} :
       /\ Handshake(version, how)
       /\ \/ /\ how \in {"agreed", "closed"}
             /\ negotiated' = Named(version, how)
             /\ offered' = offered \cup {Named(version, how)}
             /\ certificate' = IF how = "agreed" THEN Named(version, how)
                                                 ELSE certificate
             /\ UNCHANGED rejected
          \/ /\ how # "agreed"
             /\ rejected' = rejected \cup {version}
             /\ UNCHANGED <<negotiated, offered, certificate>>
  /\ preferred' = IF certificate' # NoVersion /\ version = TLS13
                  THEN TLS13 ELSE preferred
  /\ IF Break(certificate', negotiated')
     THEN at' = "prefer" /\ UNCHANGED version
     ELSE IF version < TLS13
          THEN version' = version + 1 /\ UNCHANGED at
          ELSE at' = (IF negotiated' = NoVersion THEN "failed" ELSE "prefer")
               /\ UNCHANGED version
  /\ UNCHANGED <<server, judgement>>

(* specify_tls_version up to a maximum: the version it returns, NoVersion   *)
(* after an SSL.Error.  A failed TCP connection is raised.                  *)
Specify(max, named) ==
  \E how \in {"agreed", "refused", "closed"} :
    /\ Handshake(max, how)
    /\ named = IF how = "refused" THEN NoVersion ELSE Named(max, how)

Unreachable == Handshake(version, "unreachable")

(* The handshake without a maximum finds the preferred version.             *)
Prefer ==
  /\ at = "prefer"
  /\ \E v \in Tried \cup {NoVersion} :
       /\ Specify(TLS13, v)
       /\ preferred' = IF v = NoVersion THEN negotiated ELSE v
       /\ offered' = IF v = NoVersion THEN offered ELSE offered \cup {v}
  /\ at' = "offer"
  /\ version' = 2
  /\ UNCHANGED <<server, negotiated, certificate, rejected, judgement>>

(* One turn of the last loop.  The label appended is that of the maximum,   *)
(* whatever version was negotiated.                                         *)
Offer ==
  /\ at = "offer"
  /\ \/ version \in offered /\ UNCHANGED <<offered, rejected, failures>>
     \/ /\ version \notin offered
        /\ \E v \in Tried \cup {NoVersion} :
             /\ Specify(version, v)
             /\ IF v = NoVersion
                THEN rejected' = rejected \cup {version} /\ UNCHANGED offered
                ELSE offered' = offered \cup {version} /\ UNCHANGED rejected
  /\ IF version < TLS13 THEN version' = version + 1 /\ UNCHANGED at
                        ELSE at' = "done" /\ UNCHANGED version
  /\ UNCHANGED <<server, negotiated, preferred, certificate, judgement>>

(* conn.connect in prepare_connection is outside of every try.              *)
SpecifyRaises ==
  /\ at = "prefer" \/ (at = "offer" /\ version \notin offered)
  /\ Unreachable
  /\ at' = "raised"
  /\ UNCHANGED <<server, version, state, rejected, judgement>>

(* version_interference: every label it knows that was not offered.         *)
Interfering == Version \ offered

(* fallback_scsv compares the labels of the state, "TLSv1.3 (0x304)", with  *)
(* OPENSSL_VERSION_LOOKUP's name "TLSv1.3", which no label equals.  The     *)
(* scsv connection raises or not; it sends no handshake.                    *)
LooksLikeTls13(label) == FALSE

(* Mutant: _supports_fallback_scsv keeps the None it is created with.       *)
FallbackUnset(scsv) ==
  IF preferred \notin {TLS13, negotiated} THEN "False"
  ELSE IF scsv = "connected" THEN "None" ELSE "True"

Fallback(scsv) ==
  IF LooksLikeTls13(preferred) /\ LooksLikeTls13(negotiated) THEN "True"
  ELSE IF preferred \notin {TLS13, negotiated} THEN "False"
  ELSE IF preferred \notin Version THEN "not relevant"
  ELSE IF scsv \in {"inappropriate fallback", "ConnectionError", "TimeoutError"}
       THEN "True" ELSE "False"

(* The scsv connection may raise what evaluate does not name.               *)
Judge ==
  /\ at = "done"
  /\ interference' = Interfering
  /\ \/ /\ \E scsv \in {"connected", "inappropriate fallback",
                         "ConnectionError", "TimeoutError"} :
             fallback' = Fallback(scsv)
        /\ at' = "judged"
     \/ at' = "raised" /\ UNCHANGED fallback
  /\ UNCHANGED <<server, failures, version, state, rejected>>

ProbeNext == Start \/ Connect \/ Prefer \/ Offer \/ SpecifyRaises \/ Judge

ProbeSpec == ProbeInit /\ [][ProbeNext]_probeVars

-----------------------------------------------------------------------------
TypeOK ==
  /\ supports \subseteq Tried /\ ending \in Endings
  /\ failures \in 0..MaxFailures
  /\ at \in {"start", "connect", "prefer", "offer", "done", "judged",
             "failed", "raised"}
  /\ version \in Tried
  /\ {negotiated, preferred, certificate} \subseteq Tried \cup {NoVersion}
  /\ offered \subseteq Tried
  /\ rejected \subseteq Tried
  /\ interference \subseteq Version
  /\ fallback \in {"unset", "True", "False", "not relevant"}

Probed == at \in {"done", "judged"}

(* Whatever the server and the network do during the dozen handshakes, the  *)
(* state a finished probe leaves is consistent: the negotiated and the      *)
(* preferred protocol are among those offered, and the certificate is of    *)
(* the handshake whose version is recorded as negotiated.                   *)
Consistent ==
  /\ Probed => {negotiated, preferred} \subseteq offered
  /\ certificate # NoVersion => negotiated = certificate
  /\ at = "failed" => negotiated = NoVersion

(* With a network that spoils no handshake the probe is complete: it fails  *)
(* only on servers without a common version, negotiates the lowest one,     *)
(* prefers the highest and offers at least all of them.                     *)
Complete ==
  failures = 0 =>
    LET common == Common(TLS13) IN
    /\ at = "failed" => common = {}
    /\ Probed /\ common # {} =>
         /\ negotiated = Min(common)
         /\ preferred = Max(common)
         /\ common \subseteq offered
=============================================================================
