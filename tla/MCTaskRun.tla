------------------------------ MODULE MCTaskRun ------------------------------
EXTENDS TaskRun

C(id, ski, aki, pathlen, type) == [id |-> id, ski |-> ski, aki |-> aki, pathlen |-> pathlen, type |-> type]

\* Certificates: a leaf, intermediates signed by the trusted root or by one
\* another, the root as a server may present it, and one nobody has signed.
LeafCert(ski, aki, type) == C("leaf", ski, aki, NoKey, type)
Root == C("root", "kR", NoKey, NoKey, "RSA")
RootLimited == C("limited", "kR", NoKey, 1, "RSA")
RootSelf == C("self", "kR", "kR", 0, "RSA")
InterI == C("I", "kI", "kR", 0, "RSA")
InterJ == C("J", "kJ", "kI", NoKey, "RSA")
InterS == C("S", "kS", "kR", 1, "RSA")
Old == C("old", "kO", NoKey, NoKey, "RSA")

Subchains(S) == UNION {{s \in [1..n -> S] : \A i, j \in 1..n : s[i] = s[j] => i = j} : n \in 0..3}
Chains == {<<LeafCert(ski, aki, "RSA")>> \o rest :
             ski \in {"kL", NoKey}, aki \in {NoKey, "kI", "kJ", "kR"},
             rest \in Subchains({InterI, InterJ, InterS, RootSelf, Old})}
NoStore == [k \in {} |-> Root]
Stores == {NoStore} \cup {[k \in {"kR"} |-> r] : r \in {Root, RootLimited, RootSelf}}

OneChain == {<<LeafCert("kL", "kR", "RSA")>>}
OneStore == {[k \in {"kR"} |-> Root]}

\* Request paths and what a site says of them
PathA == [name |-> "/a", bare |-> ""]
PathB == [name |-> "/b/", bare |-> "/b"]
Line(kind, path) == [kind |-> kind, path |-> path]
Agent == Line("agent", "")
Other == Line("other", "")
Rule(path) == Line("disallow", path)
Robots == {NoRobots} \cup {<<Agent, Rule(p), Rule(q)>> : p, q \in {"/a", "/b", "/b/"}}
          \cup {<<Rule("/a")>>, <<Agent, Other, Rule("/a"), Agent, Rule("/b")>>,
                <<Agent, Rule("/"), Rule("/b/"), Other, Rule("/a")>>}
Good == {<<"cross-origin-embedder-policy", "require-corp">>, <<"cross-origin-opener-policy", "same-origin">>,
         <<"cross-origin-resource-policy", "same-origin">>, <<"strict-transport-security", "max-age">>,
         <<"x-content-type-options", "nosniff">>, <<"referrer-policy", "unsafe-url">>,
         <<"content-security-policy", "frame-ancestors">>, <<"content-security-policy", "block-all-mixed-content">>,
         <<"permissions-policy", "clipboard-read=()">>, <<"permissions-policy", "sync-script=()">>,
         <<"permissions-policy", "document-domain=()">>, <<"feature-policy", "sync-xhr 'none'">>,
         <<"x-xss-protection", "0">>}
HeaderSets == {{}, Good, {<<"content-security-policy", "">>, <<"x-xss-protection", "">>,
                         <<"content-encoding", "gzip">>, <<"feature-policy", "sync-xhr 'none'">>}}
Page(status, headers) == [status |-> status, headers |-> headers]
SitesOf(robots, head, contents) ==
  {[robots |-> r, head |-> h, paths |-> <<PathA, PathB>>, pages |-> ("/a" :> a @@ "/b/" :> b)] :
     r \in robots, h \in head, a, b \in contents}
AllSites == SitesOf(Robots, BOOLEAN, {Page(200, h) : h \in HeaderSets} \cup {Page(404, {})})
PlainSite == {[robots |-> NoRobots, head |-> FALSE, paths |-> <<PathA>>, pages |-> ("/a" :> Page(200, {}))]}
TwoPages == SitesOf({NoRobots, <<Agent, Rule("/a")>>}, {TRUE}, {Page(200, {})})

\* Servers: their replies to tls_robot (with the second flow only told apart
\* where it is reached), the outcomes of attempts, ciphers and this build
Replies == [Messages -> {"alert", "closes"}]
ConstantReplies == {r \in Replies : \A i \in Messages : r[i] = r[1]}
Oracles == {[f \in BOOLEAN |-> IF f THEN [i \in Messages |-> "alert"] ELSE r] : r \in Replies}
           \cup {[f \in BOOLEAN |-> IF f THEN r ELSE c] : r \in Replies, c \in ConstantReplies}
Quiet == [f \in BOOLEAN |-> [i \in Messages |-> "alert"]]
Fine == [i \in 1..5 |-> "negotiated"]
Server(oracle, outcomes, ciphers, build) ==
  [oracle |-> oracle, outcomes |-> outcomes, ciphers |-> ciphers, build |-> build]
AnyServer == {Server(Quiet, Fine, {}, {})}

Scenario(tasks, chains, stores, sites, servers) ==
  [tasks |-> tasks, presented |-> chains, stores |-> stores, sites |-> sites, servers |-> servers]
MCScenarios == {
  Scenario({"basic_constraints_path_length", "valid_certificate_chain"}, Chains, Stores, PlainSite, AnyServer),
  Scenario(PageTasks, OneChain, OneStore, AllSites, AnyServer),
  Scenario({"tls_robot"}, OneChain, OneStore, PlainSite, {Server(o, Fine, {}, {}) : o \in Oracles}),
  Scenario({"tls_robot"}, {<<LeafCert("kL", aki, type)>> : aki \in {NoKey, "kR"}, type \in {"DSA", "EC"}},
           OneStore, PlainSite, AnyServer),
  Scenario({"tls_robot"}, {<<LeafCert("kL", NoKey, "RSA")>>}, OneStore, PlainSite, AnyServer),
  Scenario({"crime_vuln"}, OneChain, OneStore, PlainSite,
           {Server(Quiet, Fine, c, {}) : c \in SUBSET {"cbc", "rc4"}}),
  Scenario({"h2c"}, OneChain, OneStore, TwoPages,
           {Server(Quiet, [i \in 1..5 |-> IF i = 1 THEN a ELSE b], {}, {}) :
              a, b \in {"upgrade", "plain", "refused", "silent", "closes"}}),
  Scenario({"long_handshake_intolerance", "version_intolerance"}, OneChain, OneStore, PlainSite,
           {Server(Quiet, o, {}, build) : o \in [1..5 -> {"negotiated", "refused", "silent", "closes"}],
                                          build \in {{}, {"SSLv3", "fake versions"}}}),
  Scenario({"client_renegotiation"}, OneChain, OneStore, PlainSite,
           {Server(Quiet, [i \in 1..5 |-> o], {}, {}) :
              o \in Renegotiable \cup {"negotiated", "refused", "silent", "closes"}}) }
=============================================================================
