---------------------------- MODULE Target_proofs ----------------------------
(***************************************************************************)
(* Proofs about the two halves of a target's scan.  TlsProbe: what the     *)
(* probe records is consistent for every server, every client library and  *)
(* any number of spoiled handshakes, and complete when none was spoiled.   *)
(* EvaluationLoop, for every configuration, chain and outcome of the       *)
(* tasks: no record carries a value of another turn, and at the end every  *)
(* configured task has been accounted for.                                 *)
(***************************************************************************)
EXTENDS TlsProbe, EvaluationLoop, TLAPS

-----------------------------------------------------------------------------
(* The probe.                                                               *)


(* Max of FiniteSetsExt returns the greatest of a set of versions.          *)
LEMMA MaxVersion ==
  ASSUME NEW S \in SUBSET Tried, S # {}
  PROVE  Max(S) \in S /\ \A x \in S : x <= Max(S)
<1>1. \E m \in S : \A x \in S : m >= x
  <2>1. CASE 6 \in S
    BY <2>1 DEF Tried, TLS13
  <2>2. CASE 6 \notin S /\ 5 \in S
    BY <2>2 DEF Tried, TLS13
  <2>3. CASE 6 \notin S /\ 5 \notin S /\ 4 \in S
    BY <2>3 DEF Tried, TLS13
  <2>4. CASE 6 \notin S /\ 5 \notin S /\ 4 \notin S /\ 3 \in S
    BY <2>4 DEF Tried, TLS13
  <2>5. CASE 6 \notin S /\ 5 \notin S /\ 4 \notin S /\ 3 \notin S
    <3>1. \A x \in S : x = 2
      BY <2>5 DEF Tried, TLS13
    <3>2. PICK x \in S : TRUE
      OBVIOUS
    <3>3. 2 \in S /\ \A y \in S : 2 >= y
      BY <3>1, <3>2
    <3>. QED
      BY <3>3
  <2>. QED
    BY <2>1, <2>2, <2>3, <2>4, <2>5
<1>2. \A x \in S : Max(S) \in S /\ Max(S) >= x
  BY <1>1 DEF Max
<1>. QED
  BY <1>2 DEF Tried, TLS13

(* Min returns the least; it is the member no other one is below.           *)
LEMMA MinVersion ==
  ASSUME NEW S \in SUBSET Tried, NEW m \in S, \A x \in S : m <= x
  PROVE  Min(S) = m
<1>1. \E k \in S : \A x \in S : k <= x
  OBVIOUS
<1>2. Min(S) \in S /\ \A x \in S : Min(S) <= x
  BY <1>1 DEF Min
<1>3. Min(S) \in Int /\ m \in Int
  <2>1. \A x \in S : x \in Int
    BY DEF Tried, TLS13
  <2>. QED
    BY <1>2, <2>1
<1>4. Min(S) <= m /\ m <= Min(S)
  BY <1>2
<1>. QED
  BY <1>3, <1>4

(* What a handshake names is a version the client can speak, below the      *)
(* maximum it was given.                                                    *)
LEMMA NamedVersion ==
  ASSUME NEW max \in Tried, NEW how, supports \subseteq Tried,
         \/ how = "agreed" /\ Common(max) # {}
         \/ how # "agreed" /\ Hello(max) # {}
  PROVE  Named(max, how) \in Tried
<1>1. Hello(max) \subseteq Tried /\ Common(max) \subseteq Tried
  BY ProbeAssumption DEF Hello, Common
<1>. QED
  BY <1>1, MaxVersion DEF Named

(* A handshake that ends agreed or closed had something to name.            *)
LEMMA HandshakeNames ==
  ASSUME NEW max \in Tried, supports \subseteq Tried,
         NEW how \in {"agreed", "closed"}, Handshake(max, how)
  PROVE  Named(max, how) \in Tried
<1>1. \/ how = "agreed" /\ Common(max) # {}
      \/ how # "agreed" /\ Hello(max) # {}
  BY DEF Handshake
<1>. QED
  BY <1>1, NamedVersion

LEMMA HandshakeCounts ==
  ASSUME NEW max, NEW how, Handshake(max, how), failures \in 0..MaxFailures
  PROVE  failures' \in 0..MaxFailures /\ (failures' = 0 => failures = 0)
BY ProbeAssumption DEF Handshake

(* Without failures a common version is agreed on.                          *)
LEMMA HandshakeAgrees ==
  ASSUME NEW max \in Tried, NEW how, Handshake(max, how),
         failures \in 0..MaxFailures, failures' = 0
  PROVE  how = "agreed" <=> Common(max) # {}
BY ProbeAssumption DEF Handshake

(* Every variable keeps its type, whatever server is probed.                *)
THEOREM ProbeTypes == ProbeSpec => []TypeOK
<1>1. ProbeInit => TypeOK
  BY ProbeAssumption DEF ProbeInit, TypeOK, NoVersion, SSL2, TLS13, Version, Tried
<1>2. TypeOK /\ [ProbeNext]_probeVars => TypeOK'
  <2> SUFFICES ASSUME TypeOK, [ProbeNext]_probeVars PROVE TypeOK'
    OBVIOUS
  <2>1. CASE Start
    BY <2>1 DEF Start, TypeOK, NoVersion, SSL2, TLS13, Version, Tried, server, state, judgement
  <2>2. CASE Connect
    <3>1. PICK how \in {"agreed", "refused", "closed", "unreachable"} :
            /\ Handshake(version, how)
            /\ \/ /\ how \in {"agreed", "closed"}
                  /\ negotiated' = Named(version, how)
                  /\ offered' = offered \cup {Named(version, how)}
                  /\ certificate' = IF how = "agreed" THEN Named(version, how)
                                                      ELSE certificate
                  /\ UNCHANGED rejected
               \/ /\ how # "agreed"
                  /\ rejected' = rejected \cup {version}
                  /\ UNCHANGED <<negotiated, offered, certificate>>
      BY <2>2 DEF Connect
    <3>2. how \in {"agreed", "closed"} => Named(version, how) \in Tried
      BY <3>1, HandshakeNames DEF TypeOK
    <3>3. failures' \in 0..MaxFailures
      BY <3>1, HandshakeCounts DEF TypeOK
    <3>4. version' \in Tried /\ at' \in {"connect", "prefer", "failed"}
      <4>1. \/ at' = "prefer" /\ version' = version
            \/ version < TLS13 /\ version' = version + 1 /\ at' = at
            \/ at' \in {"failed", "prefer"} /\ version' = version
        BY <2>2 DEF Connect, NoVersion, TLS13
      <4>2. version \in Tried /\ at = "connect"
        BY <2>2 DEF Connect, TypeOK
      <4>. QED
        BY <4>1, <4>2 DEF Tried, TLS13
    <3>. QED
      BY <2>2, <3>1, <3>2, <3>3, <3>4 DEF Connect, TypeOK, NoVersion, SSL2, TLS13, Version, Tried, server, judgement
  <2>3. CASE Prefer
    <3>1. PICK v \in Tried \cup {NoVersion} :
            /\ Specify(TLS13, v)
            /\ preferred' = IF v = NoVersion THEN negotiated ELSE v
            /\ offered' = IF v = NoVersion THEN offered ELSE offered \cup {v}
      BY <2>3 DEF Prefer
    <3>2. failures' \in 0..MaxFailures
      BY <3>1, HandshakeCounts DEF Specify, TypeOK, NoVersion, SSL2, TLS13, Version, Tried
    <3>3. preferred' \in Tried \cup {NoVersion} /\ offered' \subseteq Tried
      BY <3>1 DEF TypeOK
    <3>4. version' \in Tried /\ at' = "offer"
      BY <2>3 DEF Prefer, Tried, TLS13
    <3>. QED
      BY <2>3, <3>2, <3>3, <3>4 DEF Prefer, TypeOK, server, judgement
  <2>4. CASE Offer
    <3>1. failures' \in 0..MaxFailures
      BY <2>4, HandshakeCounts DEF Offer, Specify, TypeOK, NoVersion, SSL2, TLS13, Version, Tried
    <3>2. offered' \subseteq Tried /\ rejected' \subseteq Tried
      BY <2>4 DEF Offer, TypeOK, NoVersion, SSL2, TLS13, Version, Tried
    <3>3. version' \in Tried /\ at' \in {"offer", "done"}
      <4>1. \/ version < TLS13 /\ version' = version + 1 /\ at' = at
            \/ at' = "done" /\ version' = version
        BY <2>4 DEF Offer
      <4>2. version \in Tried /\ at = "offer"
        BY <2>4 DEF Offer, TypeOK
      <4>. QED
        BY <4>1, <4>2 DEF Tried, TLS13
    <3>. QED
      BY <2>4, <3>1, <3>2, <3>3 DEF Offer, TypeOK, NoVersion, SSL2, TLS13, Version, Tried, server, judgement
  <2>5. CASE SpecifyRaises
    <3>1. failures' \in 0..MaxFailures
      BY <2>5, HandshakeCounts DEF SpecifyRaises, Unreachable, TypeOK, NoVersion, SSL2, TLS13, Version, Tried
    <3>. QED
      BY <2>5, <3>1 DEF SpecifyRaises, TypeOK, NoVersion, SSL2, TLS13, Version, Tried, server, state, judgement
  <2>6. CASE Judge
    BY <2>6 DEF Judge, TypeOK, NoVersion, SSL2, TLS13, Version, Tried, server, state, Interfering, Fallback
  <2>7. CASE UNCHANGED probeVars
    BY <2>7 DEF probeVars, TypeOK, NoVersion, SSL2, TLS13, Version, Tried, server, state, judgement
  <2>. QED
    BY <2>1, <2>2, <2>3, <2>4, <2>5, <2>6, <2>7 DEF ProbeNext
<1>. QED
  BY <1>1, <1>2, PTL DEF ProbeSpec

(* One turn of the loop over connect, by how its handshake ended.           *)
LEMMA ConnectTurn ==
  ASSUME TypeOK, Connect
  PROVE  \E how \in {"agreed", "refused", "closed", "unreachable"} :
           /\ Handshake(version, how)
           /\ \/ /\ how \in {"agreed", "closed"}
                 /\ Named(version, how) \in Tried
                 /\ negotiated' = Named(version, how)
                 /\ offered' = offered \cup {Named(version, how)}
                 /\ certificate' = IF how = "agreed" THEN Named(version, how)
                                                     ELSE certificate
              \/ /\ how # "agreed"
                 /\ UNCHANGED <<negotiated, offered, certificate>>
<1>1. PICK how \in {"agreed", "refused", "closed", "unreachable"} :
        /\ Handshake(version, how)
        /\ \/ /\ how \in {"agreed", "closed"}
              /\ negotiated' = Named(version, how)
              /\ offered' = offered \cup {Named(version, how)}
              /\ certificate' = IF how = "agreed" THEN Named(version, how)
                                                  ELSE certificate
           \/ /\ how # "agreed"
              /\ UNCHANGED <<negotiated, offered, certificate>>
  BY DEF Connect
<1>2. how \in {"agreed", "closed"} => Named(version, how) \in Tried
  BY <1>1, HandshakeNames DEF TypeOK
<1>. QED
  BY <1>1, <1>2

(* Where the loop over connect goes after a turn.                           *)
LEMMA ConnectGoes ==
  ASSUME TypeOK, Connect
  PROVE  \/ /\ certificate' # NoVersion /\ negotiated' # NoVersion
            /\ at' = "prefer"
         \/ /\ certificate' = NoVersion \/ negotiated' = NoVersion
            /\ version < TLS13 /\ version' = version + 1
            /\ at' = "connect"
         \/ /\ certificate' = NoVersion \/ negotiated' = NoVersion
            /\ version = TLS13
            /\ at' = IF negotiated' = NoVersion THEN "failed" ELSE "prefer"
<1>1. version \in Tried /\ at = "connect"
  BY DEF Connect, TypeOK
<1>2. ~(version < TLS13) => version = TLS13
  BY <1>1 DEF Tried, TLS13
<1>. QED
  BY <1>1, <1>2 DEF Connect, Break

-----------------------------------------------------------------------------
(* What is known of the recorded state at each stage of the probe: a       *)
(* certificate ends the loop over connect, what was negotiated is offered, *)
(* and so is what is preferred.                                            *)
WellRecorded ==
  /\ at \in {"start", "connect"} => certificate = NoVersion
  /\ negotiated # NoVersion => negotiated \in offered
  /\ certificate # NoVersion => negotiated = certificate
  /\ at \in {"prefer", "offer", "done", "judged"} => negotiated # NoVersion
  /\ at \in {"offer", "done", "judged"} => preferred \in offered
  /\ at = "failed" => negotiated = NoVersion

All == Common(TLS13)

(* What is known when no handshake was spoiled: the loop over connect has   *)
(* passed only versions that are not common, the last loop has offered the *)
(* common ones it has passed.                                              *)
Covered ==
  failures = 0 =>
    /\ at \in {"start", "connect"} => \A v \in All : version <= v
    /\ at = "failed" => All = {}
    /\ All # {} =>
         /\ at \in {"prefer", "offer", "done", "judged"} =>
              negotiated = Min(All)
         /\ at \in {"offer", "done", "judged"} => preferred = Max(All)
    /\ at = "offer" => \A v \in All : v < version => v \in offered
    /\ Probed => All \subseteq offered
(* WellRecorded is an invariant of the steps.                               *)
LEMMA RecordedKept == TypeOK /\ WellRecorded /\ [ProbeNext]_probeVars => WellRecorded'
<1> SUFFICES ASSUME TypeOK, WellRecorded, [ProbeNext]_probeVars PROVE WellRecorded'
  OBVIOUS
<1>0. NoVersion \notin Tried
  BY DEF NoVersion, Tried
<1>1. CASE Start
  BY <1>1 DEF Start, WellRecorded, state
<1>2. CASE Connect
  <2>1. PICK how \in {"agreed", "refused", "closed", "unreachable"} :
          /\ Handshake(version, how)
          /\ \/ /\ how \in {"agreed", "closed"}
                /\ Named(version, how) \in Tried
                /\ negotiated' = Named(version, how)
                /\ offered' = offered \cup {Named(version, how)}
                /\ certificate' = IF how = "agreed" THEN Named(version, how)
                                                    ELSE certificate
             \/ /\ how # "agreed"
                /\ UNCHANGED <<negotiated, offered, certificate>>
    BY <1>2, ConnectTurn
  <2>2. at = "connect"
    BY <1>2 DEF Connect
  <2>3. /\ negotiated' # NoVersion => negotiated' \in offered'
        /\ certificate' # NoVersion => negotiated' = certificate'
    BY <2>1, <2>2 DEF WellRecorded
  <2>4. /\ at' = "connect" => certificate' = NoVersion
        /\ at' = "prefer" => negotiated' # NoVersion
        /\ at' = "failed" => negotiated' = NoVersion
        /\ at' \in {"connect", "prefer", "failed"}
    <3>1. certificate' # NoVersion => negotiated' # NoVersion
      BY <2>3
    <3>. QED
      BY <1>2, <3>1, ConnectGoes
  <2>. QED
    BY <2>3, <2>4 DEF WellRecorded
<1>3. CASE Prefer
  <2>1. PICK v \in Tried \cup {NoVersion} :
          /\ preferred' = IF v = NoVersion THEN negotiated ELSE v
          /\ offered' = IF v = NoVersion THEN offered ELSE offered \cup {v}
    BY <1>3 DEF Prefer
  <2>2. at = "prefer" /\ at' = "offer" /\ UNCHANGED <<negotiated, certificate>>
    BY <1>3 DEF Prefer
  <2>. QED
    BY <2>1, <2>2 DEF WellRecorded
<1>4. CASE Offer
  <2>1. offered \subseteq offered'
    BY <1>4 DEF Offer
  <2>2. /\ at = "offer" /\ at' \in {"offer", "done"}
        /\ UNCHANGED <<negotiated, preferred, certificate>>
    BY <1>4 DEF Offer
  <2>. QED
    BY <2>1, <2>2 DEF WellRecorded
<1>5. CASE SpecifyRaises
  BY <1>5 DEF SpecifyRaises, WellRecorded, state
<1>6. CASE Judge
  <2>1. at = "done" /\ at' \in {"judged", "raised"} /\ UNCHANGED state
    BY <1>6 DEF Judge
  <2>. QED
    BY <2>1 DEF WellRecorded, state
<1>7. CASE UNCHANGED probeVars
  BY <1>7 DEF probeVars, WellRecorded, state
<1>. QED
  BY <1>1, <1>2, <1>3, <1>4, <1>5, <1>6, <1>7 DEF ProbeNext

(* The probe never reports a negotiated or preferred protocol that is not  *)
(* among the offered ones, or a certificate of another handshake.           *)
THEOREM ProbeConsistent == ProbeSpec => []Consistent
<1>1. ProbeInit => WellRecorded
  BY DEF ProbeInit, WellRecorded
<1>2. WellRecorded => Consistent
  BY DEF WellRecorded, Consistent, Probed
<1>. QED
  BY <1>1, <1>2, ProbeTypes, RecordedKept, PTL DEF ProbeSpec
-----------------------------------------------------------------------------
(* The versions a handshake can agree on are the common ones up to its     *)
(* maximum.                                                                *)
LEMMA CommonUpTo ==
  ASSUME NEW max \in Tried
  PROVE  /\ All \subseteq Tried
         /\ Common(max) = {v \in All : v <= max}
<1>1. \A v \in Client : v <= TLS13
  BY ProbeAssumption DEF Tried, TLS13
<1>. QED
  BY <1>1, ProbeAssumption DEF All, Common, Hello

(* Without failures the handshake at the lowest common version names it,   *)
(* and the handshake without a maximum names the highest one.               *)
LEMMA LowestNamed ==
  ASSUME NEW max \in Tried, Common(max) # {}, \A v \in All : max <= v
  PROVE  Named(max, "agreed") = Min(All)
<1>1. All \subseteq Tried /\ Common(max) = {v \in All : v <= max}
  BY CommonUpTo
<1>2. \A v \in Common(max) : v = max
  <2>1. \A v \in Tried : v <= max /\ max <= v => v = max
    BY DEF Tried, TLS13
  <2>. QED
    BY <1>1, <2>1
<1>3. max \in All
  <2>1. PICK v \in Common(max) : TRUE
    OBVIOUS
  <2>. QED
    BY <1>1, <1>2, <2>1
<1>4. Min(All) = max
  BY <1>1, <1>3, MinVersion
<1>5. Max(Common(max)) \in Common(max)
  BY <1>1, MaxVersion
<1>. QED
  BY <1>2, <1>4, <1>5 DEF Named

(* Covered is an invariant of the steps.                                    *)
LEMMA CoveredKept ==
  TypeOK /\ WellRecorded /\ Covered /\ [ProbeNext]_probeVars => Covered'
<1> SUFFICES ASSUME TypeOK, WellRecorded, Covered, [ProbeNext]_probeVars, failures' = 0
             PROVE  Covered'
  BY DEF Covered
<1>1. CASE Start
  BY <1>1 DEF Start, Covered, Probed, All, Common, Hello, server, state
<1>2. CASE Connect
  <2>1. PICK how \in {"agreed", "refused", "closed", "unreachable"} :
          /\ Handshake(version, how)
          /\ \/ /\ how \in {"agreed", "closed"}
                /\ Named(version, how) \in Tried
                /\ negotiated' = Named(version, how)
                /\ offered' = offered \cup {Named(version, how)}
                /\ certificate' = IF how = "agreed" THEN Named(version, how)
                                                    ELSE certificate
             \/ /\ how # "agreed"
                /\ UNCHANGED <<negotiated, offered, certificate>>
    BY <1>2, ConnectTurn
  <2>2. at = "connect" /\ version \in Tried /\ All' = All
    BY <1>2 DEF Connect, TypeOK, All, Common, Hello, server
  <2>3. failures = 0 /\ (how = "agreed" <=> Common(version) # {})
    BY <2>1, <2>2, HandshakeCounts, HandshakeAgrees DEF TypeOK
  <2>4. \A v \in All : version <= v
    BY <2>2, <2>3 DEF Covered
  <2>5. All \subseteq Tried /\ Common(version) = {v \in All : v <= version}
    BY <2>2, CommonUpTo
  <2>6. CASE how = "agreed"
    <3>1. negotiated' = Min(All) /\ certificate' = negotiated'
      BY <2>1, <2>2, <2>3, <2>4, <2>6, LowestNamed
    <3>2. at' = "prefer"
      <4>1. negotiated' # NoVersion
        BY <2>1, <2>6 DEF NoVersion, Tried
      <4>. QED
        BY <1>2, <3>1, <4>1, ConnectGoes
    <3>. QED
      BY <2>2, <3>1, <3>2 DEF Covered, Probed
  <2>7. CASE how # "agreed"
    <3>1. \A v \in All : version < v
      <4>1. \A v \in All : ~(v <= version)
        BY <2>3, <2>5, <2>7
      <4>. QED
        BY <2>2, <2>5, <4>1 DEF Tried, TLS13
    <3>2. certificate' = NoVersion
      BY <2>1, <2>2, <2>7 DEF WellRecorded
    <3>3. CASE version < TLS13 /\ version' = version + 1 /\ at' = "connect"
      <4>1. \A v \in All : version + 1 <= v
        BY <2>2, <2>5, <3>1 DEF Tried, TLS13
      <4>. QED
        BY <2>2, <3>3, <4>1 DEF Covered, Probed
    <3>4. CASE version = TLS13 /\ at' \in {"failed", "prefer"}
      <4>1. All = {}
        BY <2>5, <3>1, <3>4 DEF Tried, TLS13
      <4>. QED
        BY <2>2, <3>4, <4>1 DEF Covered, Probed
    <3>. QED
      BY <1>2, <3>2, <3>3, <3>4, ConnectGoes
  <2>. QED
    BY <2>6, <2>7
<1>3. CASE Prefer
  <2>1. PICK v \in Tried \cup {NoVersion} :
          /\ Specify(TLS13, v)
          /\ preferred' = IF v = NoVersion THEN negotiated ELSE v
    BY <1>3 DEF Prefer
  <2>2. PICK how \in {"agreed", "refused", "closed"} :
          /\ Handshake(TLS13, how)
          /\ v = IF how = "refused" THEN NoVersion ELSE Named(TLS13, how)
    BY <2>1 DEF Specify
  <2>3. /\ at = "prefer" /\ at' = "offer" /\ version' = 2
        /\ negotiated' = negotiated /\ All' = All
    BY <1>3 DEF Prefer, All, Common, Hello, server
  <2>4. TLS13 \in Tried
    BY DEF Tried, TLS13
  <2>5. failures = 0 /\ (how = "agreed" <=> All # {})
    BY <2>2, <2>4, HandshakeCounts, HandshakeAgrees DEF TypeOK, All
  <2>6. All # {} => negotiated' = Min(All) /\ preferred' = Max(All)
    <3>1. All # {} => Named(TLS13, how) = Max(All)
      BY <2>5 DEF Named, All
    <3>2. All # {} => Max(All) \in Tried
      BY <2>4, CommonUpTo, MaxVersion
    <3>. QED
      BY <2>1, <2>2, <2>3, <2>5, <3>1, <3>2 DEF Covered, NoVersion, Tried
  <2>7. \A x \in All : ~(x < 2)
    BY <2>4, CommonUpTo DEF Tried, TLS13
  <2>. QED
    BY <2>3, <2>6, <2>7 DEF Covered, Probed
<1>4. CASE Offer
  <2>1. /\ at = "offer" /\ version \in Tried /\ All' = All
        /\ UNCHANGED <<negotiated, preferred>> /\ offered \subseteq offered'
    BY <1>4 DEF Offer, TypeOK, All, Common, Hello, server
  <2>2. failures = 0
    BY <1>4, HandshakeCounts DEF Offer, Specify, TypeOK
  <2>3. All \subseteq Tried /\ Common(version) = {v \in All : v <= version}
    BY <2>1, CommonUpTo
  <2>4. version \in All => version \in offered'
    <3> SUFFICES ASSUME version \in All, version \notin offered
                 PROVE  version \in offered'
      BY <2>1
    <3>1. Common(version) # {}
      BY <2>1, <2>3 DEF Tried, TLS13
    <3>2. PICK v \in Tried \cup {NoVersion} :
            /\ Specify(version, v)
            /\ v # NoVersion => offered' = offered \cup {version}
      BY <1>4 DEF Offer
    <3>3. PICK how \in {"agreed", "refused", "closed"} :
            /\ Handshake(version, how)
            /\ v = IF how = "refused" THEN NoVersion ELSE Named(version, how)
      BY <3>2 DEF Specify
    <3>4. how = "agreed"
      BY <2>1, <2>2, <3>1, <3>3, HandshakeAgrees DEF TypeOK
    <3>5. Named(version, how) \in Tried
      BY <2>1, <3>3, <3>4, HandshakeNames DEF TypeOK
    <3>. QED
      BY <3>2, <3>3, <3>4, <3>5 DEF NoVersion, Tried
  <2>5. \A v \in All : v <= version => v \in offered'
    <3>1. \A v \in All : v < version => v \in offered'
      BY <2>1, <2>2 DEF Covered
    <3>2. \A v \in All : v <= version => v < version \/ v = version
      BY <2>1, <2>3 DEF Tried, TLS13
    <3>. QED
      BY <2>4, <3>1, <3>2
  <2>6. CASE version < TLS13
    <3>1. version' = version + 1 /\ at' = "offer"
      BY <1>4, <2>1, <2>6 DEF Offer
    <3>2. \A v \in All : v < version + 1 => v <= version
      BY <2>1, <2>3 DEF Tried, TLS13
    <3>. QED
      BY <2>1, <2>2, <2>5, <3>1, <3>2 DEF Covered, Probed
  <2>7. CASE ~(version < TLS13)
    <3>1. at' = "done"
      BY <1>4, <2>7 DEF Offer
    <3>2. \A v \in All : v <= version
      BY <2>1, <2>3, <2>7 DEF Tried, TLS13
    <3>. QED
      BY <2>1, <2>2, <2>5, <3>1, <3>2 DEF Covered, Probed
  <2>. QED
    BY <2>6, <2>7
<1>5. CASE SpecifyRaises
  <2>1. failures = 0
    BY <1>5, HandshakeCounts DEF SpecifyRaises, Unreachable, TypeOK
  <2>. QED
    BY <1>5 DEF SpecifyRaises, Covered, Probed
<1>6. CASE Judge
  BY <1>6 DEF Judge, Covered, Probed, All, Common, Hello, server, state
<1>7. CASE UNCHANGED probeVars
  BY <1>7 DEF probeVars, Covered, Probed, All, Common, Hello, server, state
<1>. QED
  BY <1>1, <1>2, <1>3, <1>4, <1>5, <1>6, <1>7 DEF ProbeNext

(* A probe none of whose handshakes was spoiled fails only for want of a   *)
(* common version, negotiates the lowest, prefers the highest and offers   *)
(* all of them, whatever the server and the client library support.         *)
THEOREM ProbeComplete == ProbeSpec => []Complete
<1>1. ProbeInit => WellRecorded /\ Covered
  <2>1. ProbeInit => \A v \in All : 2 <= v
    <3>1. TLS13 \in Tried
      BY DEF Tried, TLS13
    <3>. QED
      BY <3>1, CommonUpTo DEF Tried, TLS13
  <2>. QED
    BY <2>1 DEF ProbeInit, WellRecorded, Covered, Probed
<1>2. Covered => Complete
  BY DEF Covered, Complete, All, Probed
<1>. QED
  BY <1>1, <1>2, ProbeTypes, RecordedKept, CoveredKept, PTL DEF ProbeSpec

-----------------------------------------------------------------------------
(* The loops.                                                               *)


Label == {"annotated", "SKIP!", "Timeout", "No evaluation result"}

Entry == [turn : [phase : Nat, cert : Nat, task : Nat],
          value : [task : Nat, cert : Nat, is : {"unbound", "None", "value"}],
          label : Label]

(* OwnResult is inductive once the list of records is known to be one: the  *)
(* variable result may hold an older value, but the only handler that would *)
(* record it runs behind Reset.                                             *)
IInv ==
  /\ evaluations \in Seq(Entry)
  /\ phase \in DOMAIN Order
  /\ cert \in Nat
  /\ result \in [task : Nat, cert : Nat, is : {"unbound", "None", "value"}]
  /\ OwnResult

(* A record whose value is None or of its own turn can be appended.         *)
LEMMA AppendOwn ==
  ASSUME IInv, next \in Nat, NEW l \in Label,
         NEW v \in {None, Value(next, cert)}, Append1(v, l)
  PROVE  evaluations' \in Seq(Entry) /\ OwnResult'
<1> DEFINE e == [turn |-> This, value |-> v, label |-> l]
<1>1. e \in Entry
  BY DEF IInv, Entry, This, None, Value, Order
<1>2. evaluations \in Seq(Entry) /\ evaluations' = Append(evaluations, e)
  BY DEF IInv, Append1
<1>3. ASSUME NEW i \in DOMAIN evaluations'
      PROVE  evaluations'[i].value \in
               {None, Value(evaluations'[i].turn.task, evaluations'[i].turn.cert)}
  <2>1. CASE i \in DOMAIN evaluations
    BY <2>1, <1>1, <1>2 DEF IInv, OwnResult
  <2>2. CASE i = Len(evaluations) + 1
    BY <2>2, <1>1, <1>2 DEF This
  <2>. QED
    BY <2>1, <2>2, <1>1, <1>2, <1>3
<1>. QED
  BY <1>1, <1>2, <1>3 DEF OwnResult

(* A turn of a loop keeps the invariant: whatever the outcome, what it      *)
(* records is None or the value the task has just returned.                 *)
LEMMA EvaluateKeeps ==
  ASSUME IInv, Evaluate
  PROVE  IInv'
<1>1. PICK o \in Outcomes[Order[phase]] :
        /\ result' = IF o = "value" THEN Value(next, cert) ELSE Reset(result)
        /\ CASE o = "value" -> Append1(result', "annotated")
             [] o = "NotImplementedError" -> Append1(None, "SKIP!")
             [] o = "TimeoutError" -> Append1(None, "Timeout")
             [] o = "NoLogEvaluation" /\ result'.is # "unbound" ->
                  Append1(result', "No evaluation result")
             [] OTHER -> UNCHANGED evaluations
  BY DEF Evaluate
<1>2. next \in Nat /\ phase' = phase /\ cert' = cert
  <2>1. next \in DOMAIN Groups /\ phase' = phase /\ cert' = cert
    BY DEF Evaluate, InLoop, Task
  <2>2. DOMAIN Groups = 1..Len(Groups) /\ Len(Groups) \in Nat
    <3> DEFINE G == {Order[k] : k \in DOMAIN Order}
    <3>1. Groups \in Seq(G)
      BY LoopAssumption
    <3> HIDE DEF G
    <3>. QED
      BY <3>1
  <2>. QED
    BY <2>1, <2>2
<1>3. result' \in [task : Nat, cert : Nat, is : {"unbound", "None", "value"}]
  BY <1>1, <1>2 DEF IInv, Value, Reset, None
<1>4. o \in Outcome
  BY <1>1, LoopAssumption DEF IInv
<1>a. ASSUME NEW l \in Label, Append1(None, l) \/ Append1(Value(next, cert), l)
      PROVE  IInv'
  <2>1. evaluations' \in Seq(Entry) /\ OwnResult'
    BY <1>2, <1>a, AppendOwn DEF Append1
  <2>. QED
    BY <1>2, <1>3, <2>1 DEF IInv
<1>5. CASE o = "value"
  BY <1>1, <1>5, <1>a DEF Append1, Label
<1>6. CASE o = "NotImplementedError"
  BY <1>1, <1>6, <1>a DEF Append1, Label
<1>7. CASE o = "TimeoutError"
  BY <1>1, <1>7, <1>a DEF Append1, Label
<1>8. CASE o = "NoLogEvaluation"
  <2>1. Order[phase] = "certificate"
    BY <1>1, <1>8, NoLogAssumption DEF IInv
  <2>2. result' = None /\ result'.is # "unbound"
    BY <1>1, <1>8, <2>1 DEF Reset, None
  <2>. QED
    BY <1>1, <1>8, <2>2, <1>a DEF Append1, Label
<1>9. CASE o \in {"EvaluationNotRelevant", "error"}
  BY <1>1, <1>2, <1>3, <1>9 DEF IInv, OwnResult
<1>. QED
  BY <1>4, <1>5, <1>6, <1>7, <1>8, <1>9 DEF Outcome

LEMMA Invariant == Spec => []IInv
<1>1. Init => IInv
  BY DEF Init, IInv, FirstCert, Unbound, OwnResult, Order, NoCert
<1>2. IInv /\ [Next]_vars => IInv'
  <2> SUFFICES ASSUME IInv, [Next]_vars PROVE IInv'
    OBVIOUS
  <2>1. CASE Evaluate
    BY <2>1, EvaluateKeeps
  <2>2. CASE Continue
    BY <2>2 DEF Continue, IInv, OwnResult
  <2>3. CASE Advance
    <3>1. phase' \in DOMAIN Order /\ cert' \in Nat
      BY <2>3, LoopAssumption DEF Advance, IInv, Order, FirstCert, NoCert
    <3>. QED
      BY <2>3, <3>1 DEF Advance, IInv, OwnResult, Unbound
  <2>4. CASE UNCHANGED vars
    BY <2>4 DEF vars, IInv, OwnResult
  <2>. QED
    BY <2>1, <2>2, <2>3, <2>4 DEF Next
<1>. QED
  BY <1>1, <1>2, PTL DEF Spec

(* A recorded value is None or was returned by the record's own task for    *)
(* the record's own certificate, whatever is configured and raised.         *)
THEOREM OwnResults == Spec => []OwnResult
<1>1. IInv => OwnResult
  BY DEF IInv
<1>. QED
  BY <1>1, Invariant, PTL

-----------------------------------------------------------------------------
(* Every configured task, once, in the order of the loops.                  *)

(* The due turns that lie behind the loops' position.                       *)
Passed == {t \in Due : Before(t, This)}

Accounted(T) == Recorded \cup irrelevant = T /\ Recorded \cap irrelevant = {}

(* CompleteInOrder is about the end; before it, the same holds of the turns *)
(* that have been passed.                                                   *)
LoopInv ==
  /\ evaluations \in Seq(Entry)
  /\ phase \in 1..4 /\ next \in 1..(Len(Groups) + 1)
  /\ cert \in Nat
  /\ phase = 1 => cert \in 1..NumCerts \/ (NumCerts = 0 /\ cert = 1)
  /\ phase # 1 => cert = NoCert
  /\ \A i, j \in DOMAIN evaluations : i < j => Before(evaluations[i].turn, evaluations[j].turn)
  /\ status = "running" => Accounted(Passed)
  /\ status = "done" => Accounted(Due)

LEMMA TaskRange == Len(Groups) \in Nat /\ Task = 1..Len(Groups)
<1> DEFINE G == {Order[k] : k \in DOMAIN Order}
<1>1. Groups \in Seq(G)
  BY LoopAssumption
<1> HIDE DEF G
<1>. QED
  BY <1>1 DEF Task

LEMMA Phases ==
  /\ DOMAIN Order = 1..4
  /\ \A k \in 1..4 : Order[k] = "certificate" <=> k = 1
  /\ \A k \in 1..4 : FirstCert(k) = (IF k = 1 THEN 1 ELSE 0) /\ LastCert(k) = (IF k = 1 THEN NumCerts ELSE 0)
BY DEF Order, FirstCert, LastCert, NoCert

(* A due turn in numbers.                                                   *)
LEMMA DueTurn ==
  ASSUME NEW t \in Due
  PROVE  /\ t.phase \in 1..4 /\ t.task \in 1..Len(Groups) /\ t.cert \in Nat
         /\ t.phase = 1 => t.cert \in 1..NumCerts
         /\ t.phase # 1 => t.cert = 0
         /\ t = [phase |-> t.phase, cert |-> t.cert, task |-> t.task]
         /\ Groups[t.task] = Order[t.phase] /\ t.task \notin skipped
BY TaskRange, Phases, LoopAssumption DEF Due, Turn, NoCert

(* The next evaluation of the loop: This is passed, if it was due.          *)
LEMMA PassedOne ==
  ASSUME LoopInv, InLoop, next' = next + 1, UNCHANGED <<skipped, phase, cert>>
  PROVE  /\ Passed' = Passed \cup ({This} \cap Due)
         /\ This \in Due <=> Groups[next] = Order[phase] /\ next \notin skipped
         /\ This \notin Passed
         /\ next' \in 1..(Len(Groups) + 1)
<1>1. /\ next \in 1..Len(Groups) /\ phase \in 1..4 /\ cert \in Nat /\ NumCerts \in Nat
      /\ cert <= NumCerts /\ (phase = 1 => cert \in 1..NumCerts) /\ (phase # 1 => cert = 0)
  BY TaskRange, Phases, LoopAssumption DEF LoopInv, InLoop, NoCert
<1>2. Due' = Due
  BY DEF Due
<1>3. ASSUME NEW t \in Due
      PROVE  Before(t, This') <=> Before(t, This) \/ t = This
  BY <1>1, DueTurn DEF Before, This
<1>4. This \in Due <=> Groups[next] = Order[phase] /\ next \notin skipped
  <2>1. This \in Turn /\ This.phase = phase /\ This.cert = cert /\ This.task = next
    BY <1>1, TaskRange, Phases DEF This, Turn
  <2>2. cert \in IF Order[phase] = "certificate" THEN 1..NumCerts ELSE {NoCert}
    BY <1>1, Phases DEF NoCert
  <2>. QED
    BY <2>1, <2>2 DEF Due
<1>5. This \notin Passed
  BY <1>1 DEF Passed, Before, This
<1>. QED
  BY <1>1, <1>2, <1>3, <1>4, <1>5 DEF Passed

(* A record of this turn comes after the others.                            *)
LEMMA AppendInOrder ==
  ASSUME LoopInv, status = "running", next \in Nat, NEW l \in Label,
         NEW v \in [task : Nat, cert : Nat, is : {"unbound", "None", "value"}], Append1(v, l)
  PROVE  /\ evaluations' \in Seq(Entry) /\ Recorded' = Recorded \cup {This}
         /\ \A i, j \in DOMAIN evaluations' :
              i < j => Before(evaluations'[i].turn, evaluations'[j].turn)
<1> PICK e : e = [turn |-> This, value |-> v, label |-> l]
  OBVIOUS
<1>1. e \in Entry /\ e.turn = This
  BY DEF LoopInv, Entry, This
<1>2. evaluations \in Seq(Entry) /\ evaluations' = Append(evaluations, e)
  BY DEF LoopInv, Append1
<1>3. /\ evaluations' \in Seq(Entry) /\ Len(evaluations) \in Nat
      /\ DOMAIN evaluations' = DOMAIN evaluations \cup {Len(evaluations) + 1}
      /\ DOMAIN evaluations = 1..Len(evaluations)
      /\ \A i \in DOMAIN evaluations : evaluations'[i] = evaluations[i]
      /\ evaluations'[Len(evaluations) + 1] = e
  BY <1>1, <1>2
<1>4. Recorded' = Recorded \cup {This}
  BY <1>1, <1>3 DEF Recorded
<1>5. \A i \in DOMAIN evaluations : Before(evaluations[i].turn, This)
  BY DEF LoopInv, Accounted, Passed, Recorded
<1>6. ASSUME NEW i \in DOMAIN evaluations', NEW j \in DOMAIN evaluations', i < j
      PROVE  Before(evaluations'[i].turn, evaluations'[j].turn)
  <2>1. i \in DOMAIN evaluations
    BY <1>3, <1>6
  <2>2. CASE j \in DOMAIN evaluations
    BY <2>1, <2>2, <1>3, <1>6 DEF LoopInv
  <2>3. CASE j = Len(evaluations) + 1
    BY <2>1, <2>3, <1>1, <1>3, <1>5
  <2>. QED
    BY <2>2, <2>3, <1>3
<1>. QED
  BY <1>3, <1>4, <1>6

LEMMA EvaluateInOrder ==
  ASSUME IInv, LoopInv, Evaluate
  PROVE  LoopInv'
<1>1. /\ InLoop /\ status = "running" /\ UNCHANGED <<skipped, phase, cert>>
      /\ Groups[next] = Order[phase] /\ next \notin skipped
  BY DEF Evaluate, InLoop
<1>2. PICK o \in Outcomes[Order[phase]] :
        /\ result' = IF o = "value" THEN Value(next, cert) ELSE Reset(result)
        /\ IF o = "error" \/ (o = "NoLogEvaluation" /\ result'.is = "unbound")
           THEN status' = "raised" /\ UNCHANGED next
           ELSE next' = next + 1 /\ UNCHANGED status
        /\ CASE o = "value" -> Append1(result', "annotated")
             [] o = "NotImplementedError" -> Append1(None, "SKIP!")
             [] o = "TimeoutError" -> Append1(None, "Timeout")
             [] o = "NoLogEvaluation" /\ result'.is # "unbound" ->
                  Append1(result', "No evaluation result")
             [] OTHER -> UNCHANGED evaluations
        /\ irrelevant' = IF o = "EvaluationNotRelevant"
                         THEN irrelevant \cup {This} ELSE irrelevant
  BY DEF Evaluate
<1>3. next \in Nat /\ o \in Outcome /\ phase' = phase /\ cert' = cert
  <2>1. phase \in DOMAIN Order
    BY Phases DEF LoopInv
  <2>2. Outcomes[Order[phase]] \subseteq Outcome
    BY <2>1, LoopAssumption
  <2>. QED
    BY <1>1, <2>2, TaskRange DEF InLoop
<1>4. /\ result' \in [task : Nat, cert : Nat, is : {"unbound", "None", "value"}]
      /\ None \in [task : Nat, cert : Nat, is : {"unbound", "None", "value"}]
  BY <1>2, <1>3 DEF IInv, Value, Reset, None
<1>5. CASE /\ o \in {"value", "NotImplementedError", "TimeoutError", "NoLogEvaluation"}
           /\ ~(o = "NoLogEvaluation" /\ result'.is = "unbound")
  <2>1. \E l \in Label, v \in [task : Nat, cert : Nat, is : {"unbound", "None", "value"}] : Append1(v, l)
    BY <1>2, <1>4, <1>5 DEF Label
  <2>2. /\ evaluations' \in Seq(Entry) /\ Recorded' = Recorded \cup {This}
        /\ \A i, j \in DOMAIN evaluations' :
             i < j => Before(evaluations'[i].turn, evaluations'[j].turn)
    BY <1>1, <1>3, <2>1, AppendInOrder
  <2>3. next' = next + 1 /\ status' = "running" /\ irrelevant' = irrelevant
    BY <1>1, <1>2, <1>5
  <2>4. Accounted(Passed)'
    BY <1>1, <2>2, <2>3, PassedOne DEF LoopInv, Accounted
  <2>. QED
    BY <1>1, <1>3, <2>2, <2>3, <2>4, PassedOne DEF LoopInv
<1>6. CASE o = "EvaluationNotRelevant"
  <2>1. /\ next' = next + 1 /\ status' = "running" /\ irrelevant' = irrelevant \cup {This}
        /\ UNCHANGED evaluations
    BY <1>1, <1>2, <1>6
  <2>2. Recorded' = Recorded
    BY <2>1 DEF Recorded
  <2>3. Accounted(Passed)'
    BY <1>1, <2>1, <2>2, PassedOne DEF LoopInv, Accounted
  <2>. QED
    BY <1>1, <1>3, <2>1, <2>3, PassedOne DEF LoopInv
<1>7. CASE o = "error" \/ (o = "NoLogEvaluation" /\ result'.is = "unbound")
  BY <1>1, <1>2, <1>3, <1>7 DEF LoopInv
<1>. QED
  BY <1>3, <1>5, <1>6, <1>7 DEF Outcome

(* The next certificate or the next loop: nothing due lies between the end  *)
(* of one and the start of the other, and nothing after the last.           *)
LEMMA AdvanceInOrder ==
  ASSUME LoopInv, Advance
  PROVE  LoopInv'
<1>1. /\ status = "running" /\ ~InLoop /\ next' = 1
      /\ UNCHANGED <<skipped, evaluations, irrelevant>>
      /\ phase \in 1..4 /\ cert \in Nat /\ next \in 1..(Len(Groups) + 1) /\ Len(Order) = 4
      /\ NumCerts \in Nat /\ Len(Groups) \in Nat
      /\ phase = 1 => cert \in 1..NumCerts \/ (NumCerts = 0 /\ cert = 1)
      /\ phase # 1 => cert = 0
  BY TaskRange, LoopAssumption DEF Advance, LoopInv, Order, NoCert
<1>2. Recorded' = Recorded /\ Due' = Due
  BY <1>1 DEF Recorded, Due
<1>3. cert > LastCert(phase) \/ next = Len(Groups) + 1
  BY <1>1, TaskRange, Phases DEF InLoop
<1>4. CASE cert < LastCert(phase)
  <2>1. /\ phase' = phase /\ cert' = cert + 1 /\ status' = "running"
        /\ phase = 1 /\ next = Len(Groups) + 1 /\ cert + 1 \in 1..NumCerts
    BY <1>1, <1>3, <1>4, Phases DEF Advance
  <2>2. ASSUME NEW t \in Due PROVE Before(t, This') <=> Before(t, This)
    BY <1>1, <2>1, DueTurn DEF Before, This
  <2>3. Accounted(Passed)'
    BY <1>1, <1>2, <2>2 DEF LoopInv, Accounted, Passed
  <2>. QED
    BY <1>1, <2>1, <2>3 DEF LoopInv
<1>5. CASE ~(cert < LastCert(phase)) /\ phase < Len(Order)
  <2>1. /\ phase' = phase + 1 /\ cert' = 0 /\ status' = "running" /\ phase' \in 2..4
    BY <1>1, <1>5, Phases DEF Advance
  <2>2. ASSUME NEW t \in Due PROVE Before(t, This') <=> Before(t, This)
    BY <1>1, <1>3, <1>5, <2>1, DueTurn, Phases DEF Before, This
  <2>3. Accounted(Passed)'
    BY <1>1, <1>2, <2>2 DEF LoopInv, Accounted, Passed
  <2>. QED
    BY <1>1, <2>1, <2>3 DEF LoopInv, NoCert
<1>6. CASE ~(cert < LastCert(phase)) /\ ~(phase < Len(Order))
  <2>1. UNCHANGED <<phase, cert>> /\ status' = "done" /\ phase = 4
    BY <1>1, <1>6 DEF Advance
  <2>2. ASSUME NEW t \in Due PROVE Before(t, This)
    BY <1>1, <1>3, <1>6, <2>1, DueTurn, Phases DEF Before, This
  <2>3. Accounted(Due)'
    BY <1>1, <1>2, <2>2 DEF LoopInv, Accounted, Passed
  <2>. QED
    BY <1>1, <2>1, <2>3 DEF LoopInv
<1>. QED
  BY <1>4, <1>5, <1>6

LEMMA ContinueInOrder ==
  ASSUME LoopInv, Continue
  PROVE  LoopInv'
<1>1. /\ InLoop /\ next' = next + 1 /\ status = "running"
      /\ UNCHANGED <<skipped, phase, cert, evaluations, irrelevant, status>>
      /\ ~(Groups[next] = Order[phase] /\ next \notin skipped)
  BY DEF Continue, InLoop
<1>2. Passed' = Passed /\ next' \in 1..(Len(Groups) + 1)
  BY <1>1, PassedOne
<1>3. Recorded' = Recorded
  BY <1>1 DEF Recorded
<1>. QED
  BY <1>1, <1>2, <1>3 DEF LoopInv, Accounted

LEMMA LoopInit == Init => LoopInv
<1>. SUFFICES ASSUME Init PROVE LoopInv
  OBVIOUS
<1>1. Passed = {}
  <2>1. \A t \in Due : ~Before(t, This)
    BY DueTurn, Phases DEF Init, Before, This
  <2>. QED
    BY <2>1 DEF Passed
<1>2. Recorded = {}
  BY DEF Init, Recorded
<1>. QED
  BY <1>1, <1>2, TaskRange, Phases, LoopAssumption DEF Init, LoopInv, Accounted

(* At the end every configured task that was not skipped has one record per *)
(* certificate, or was not relevant there, and the records are in the order *)
(* of the loops, whatever the file's order, the chain and the outcomes are. *)
THEOREM CompletesInOrder == Spec => []CompleteInOrder
<1>1. IInv /\ LoopInv /\ [Next]_vars => LoopInv'
  <2> SUFFICES ASSUME IInv, LoopInv, [Next]_vars PROVE LoopInv'
    OBVIOUS
  <2>1. CASE UNCHANGED vars
    BY <2>1 DEF vars, LoopInv, Accounted, Passed, Recorded, Due, This
  <2>. QED
    BY <2>1, EvaluateInOrder, AdvanceInOrder, ContinueInOrder DEF Next
<1>2. LoopInv => CompleteInOrder
  BY DEF LoopInv, Accounted, CompleteInOrder
<1>. QED
  BY <1>1, <1>2, LoopInit, Invariant, PTL DEF Spec
=============================================================================
