------------------------------ MODULE HttpPages ------------------------------
(***************************************************************************)
(* The pages of a target: trivialscan calls http_probe for every request   *)
(* path, HTTPTransport.do_request asks for robots.txt (HEAD, then GET) and *)
(* then for the page, through a session that keeps what was answered with  *)
(* 200; the evaluations of the transport group judge the recorded pages.   *)
(* A site is its robots.txt, whether it answers HEAD, and its pages.       *)
(***************************************************************************)
EXTENDS Naturals, Sequences, FiniteSets, SequencesExt

CONSTANTS
  MaxFaults,   \* bound: exchanges with the network that go wrong
  NoRobots     \* a site without robots.txt

ASSUME HttpPagesAssumption == MaxFaults \in Nat

VARIABLES
  site,         \* [robots, head, paths, pages], see Site in MCTaskRun
  turn,         \* the request path http_probe is at
  asking,       \* "head", "robots", "page"; "done", or "raised" by an exception
  cache,        \* the requests the session can answer itself
  http_states,  \* the paths of the pages recorded
  read,         \* robots.txt has been read (history)
  decided,      \* what became of each path so far (history)
  faults        \* exchanges that went wrong

pagesVars == <<site, turn, asking, cache, http_states, read, decided, faults>>

PagesInit(Sites) ==
  /\ site \in Sites
  /\ turn = 1 /\ asking = (IF site.paths = <<>> THEN "done" ELSE "head")
  /\ cache = {} /\ http_states = <<>>
  /\ read = FALSE /\ decided = <<>>
  /\ faults = 0

Path == site.paths[turn]
Fault == faults < MaxFaults /\ faults' = faults + 1
NoResponse == 0

Status(request) ==
  IF request[2] # "/robots.txt" THEN site.pages[request[2]].status
  ELSE IF site.robots = NoRobots \/ (request[1] = "HEAD" /\ ~site.head) THEN 404 ELSE 200

(* Mutant: the session forgets.                                             *)
KeptNothing(request) == cache
\* The session keeps GET and HEAD answered with 200 (for 15 minutes, which
\* the pages of one target are taken to fit in).
Kept(request) == cache \cup {request}

\* _do_request: what was kept, an answer, or None
DoRequest(request, status) ==
  \/ /\ request \in cache
     /\ status = 200
     /\ UNCHANGED <<cache, faults>>
  \/ /\ request \notin cache
     /\ status = Status(request)
     /\ cache' = IF status = 200 THEN Kept(request) ELSE cache
     /\ UNCHANGED faults
  \/ /\ request \notin cache
     /\ status = NoResponse
     /\ Fault
     /\ UNCHANGED cache

\* A path that ends with a slash is denied by its name without it, too.
Spellings(path) == {path.name} \cup (IF path.bare # "" THEN {path.bare} ELSE {})

\* Rules count as long as they follow a "User-agent:" line for us or all.
Track(track, line) == line.kind = "agent" \/ (track /\ line.kind = "disallow")

\* Whether they count after so many lines
Tracking(lines) ==
  LET track[n \in 0..Len(lines)] == n > 0 /\ Track(track[n - 1], lines[n])
  IN track

\* _parse_robots_path
Denied(lines, path) ==
  \E n \in DOMAIN lines :
    /\ Tracking(lines)[n - 1]
    /\ lines[n].kind = "disallow"
    /\ lines[n].path \in Spellings(path)

NextPath(how) ==
  /\ decided' = Append(decided, [path |-> Path, how |-> how, read |-> read'])
  /\ turn' = turn + 1
  /\ asking' = IF turn < Len(site.paths) THEN "head" ELSE "done"

HeadRobots ==
  /\ asking = "head"
  /\ \E status \in {NoResponse, 200, 404} :
       /\ DoRequest(<<"HEAD", "/robots.txt">>, status)
       /\ asking' = IF status = 200 THEN "robots" ELSE "page"
  /\ UNCHANGED <<site, turn, http_states, read, decided>>

GetRobots ==
  /\ asking = "robots"
  /\ \E status \in {NoResponse, 200, 404} :
       /\ DoRequest(<<"GET", "/robots.txt">>, status)
       /\ read' = (read \/ status = 200)
       /\ IF status = 200 /\ Denied(site.robots, Path)
          THEN NextPath("refused")
          ELSE asking' = "page" /\ UNCHANGED <<turn, decided>>
  /\ UNCHANGED <<site, http_states>>

(* A page is recorded unless its status is an error (a Response is then     *)
(* false) or nothing came.                                                  *)
GetPage ==
  /\ asking = "page"
  /\ \E status \in {NoResponse, 200, 404} :
       /\ DoRequest(<<"GET", Path.name>>, status)
       /\ http_states' = IF status = 200 THEN Append(http_states, Path) ELSE http_states
       /\ UNCHANGED read
       /\ NextPath(IF status = 200 THEN "fetched" ELSE "failed")
  /\ UNCHANGED site

\* Any exception but SSLError, ConnectionError and CertificateError leaves
\* trivialscan: too many redirects, a broken body.
RequestRaises ==
  /\ asking \in {"head", "robots", "page"}
  /\ Fault
  /\ asking' = "raised"
  /\ UNCHANGED <<site, turn, cache, http_states, read, decided>>

PagesNext == HeadRobots \/ GetRobots \/ GetPage \/ RequestRaises

-----------------------------------------------------------------------------
\* A page's headers are the pairs of a name and a text its value has; the
\* text "" stands for a value with none of the texts looked for.
Names(headers) == {h[1] : h \in headers}

\* What each evaluation looks for in the headers of a page.
Coep(headers) == <<"cross-origin-embedder-policy", "require-corp">> \in headers
Coop(headers) == <<"cross-origin-opener-policy", "same-origin">> \in headers
Corp(headers) == <<"cross-origin-resource-policy", "same-origin">> \in headers
Hsts(headers) == <<"strict-transport-security", "max-age">> \in headers
Nosniff(headers) == <<"x-content-type-options", "nosniff">> \in headers
ReferrerPolicy(headers) == <<"referrer-policy", "unsafe-url">> \in headers
Xfo(headers) == <<"content-security-policy", "frame-ancestors">> \in headers
UpgradeInsecure(headers) ==
  \E text \in {"upgrade-insecure-requests", "block-all-mixed-content"} :
    <<"content-security-policy", text>> \in headers
Blocks(feature, headers) ==
  \/ <<"permissions-policy", feature \o "=()">> \in headers
  \/ <<"feature-policy", feature \o " 'none'">> \in headers
BlockClipboard(headers) == Blocks("clipboard-read", headers)
BlockDeprecated(headers) ==
  \A feature \in {"sync-script", "sync-xhr", "document-domain"} : Blocks(feature, headers)
Csp(headers) == "content-security-policy" \in Names(headers)
PermissionsPolicy(headers) == Names(headers) \cap {"permissions-policy", "feature-policy"} # {}
Xss(headers) == "x-xss-protection" \in Names(headers) /\ <<"x-xss-protection", "0">> \notin headers
Compressed(headers) ==
  \E method \in {"gzip", "bz", "deflate", "compress"} : <<"content-encoding", method>> \in headers

Says(task, headers) ==
  CASE task = "header_coep" -> Coep(headers)
    [] task = "header_coop" -> Coop(headers)
    [] task = "header_corp" -> Corp(headers)
    [] task = "header_hsts" -> Hsts(headers)
    [] task = "header_nosniff" -> Nosniff(headers)
    [] task = "header_referrer_policy" -> ReferrerPolicy(headers)
    [] task = "header_xfo" -> Xfo(headers)
    [] task = "header_upgrade_insecure" -> UpgradeInsecure(headers)
    [] task = "header_block_clipboard" -> BlockClipboard(headers)
    [] task = "header_block_deprecated" -> BlockDeprecated(headers)
    [] task = "header_csp" -> Csp(headers)
    [] task = "header_permissions_policy" -> PermissionsPolicy(headers)
    [] task = "header_xss" -> Xss(headers)
    [] task = "compression_support" -> Compressed(headers)
\* One page is enough for these; the others ask it of all.
AnyPage == {"header_xss", "compression_support"}
AllPages == {"header_coep", "header_coop", "header_corp", "header_hsts", "header_nosniff",
             "header_referrer_policy", "header_xfo", "header_upgrade_insecure", "header_block_clipboard",
             "header_block_deprecated", "header_csp", "header_permissions_policy"}
PageTasks == AllPages \cup AnyPage

Headers(path) == site.pages[path.name].headers
\* The verdict: all([]) is True, any([]) is False.
PageVerdict(task) ==
  IF task \in AnyPage
  THEN IF \E i \in DOMAIN http_states : Says(task, Headers(http_states[i])) THEN "True" ELSE "False"
  ELSE IF \A i \in DOMAIN http_states : Says(task, Headers(http_states[i])) THEN "True" ELSE "False"

-----------------------------------------------------------------------------
\* robots.txt names the path in a rule of the unbroken block of rules right
\* below a line for us.
NamedByRobots(path) ==
  /\ site.robots # NoRobots
  /\ \E i, j \in DOMAIN site.robots :
       /\ i < j
       /\ site.robots[i].kind = "agent"
       /\ \A k \in (i + 1)..j : site.robots[k].kind = "disallow"
       /\ site.robots[j].path \in Spellings(path)

(* do_request and _deny_robots: whatever fails on the way, a path is only   *)
(* refused if robots.txt names it, and once robots.txt has been read in a   *)
(* scan no path it names is requested, though a later request fails.  Every *)
(* path has its turn, in the order of the configuration, and a page is      *)
(* recorded if and only if it was fetched.                                  *)
RobotsKept ==
  /\ \A i \in DOMAIN decided :
       /\ decided[i].path = site.paths[i]
       /\ decided[i].how = "refused" => NamedByRobots(decided[i].path)
       /\ NamedByRobots(decided[i].path) /\ decided[i].read => decided[i].how = "refused"
  /\ asking = "done" => Len(decided) = Len(site.paths)
  /\ LET fetched == {i \in DOMAIN decided : decided[i].how = "fetched"}
     IN /\ Len(http_states) = Cardinality(fetched)
        /\ \A i \in fetched : http_states[Cardinality({j \in fetched : j <= i})] = decided[i].path
=============================================================================
