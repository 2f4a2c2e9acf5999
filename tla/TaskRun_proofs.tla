--------------------------- MODULE TaskRun_proofs ---------------------------
(***************************************************************************)
(* Proofs about TaskRun, for any sites, servers and numbers of faults:     *)
(* robots.txt is kept, and what a task concludes is what the server did.   *)
(***************************************************************************)
EXTENDS TaskRun, FiniteSetTheorems, WellFoundedInduction, TLAPS

-----------------------------------------------------------------------------
(* The rules of robots.txt                                                  *)

LEMMA Least ==
  ASSUME NEW S \in SUBSET Nat, S # {}
  PROVE  \E i \in S : \A j \in S : i <= j
<1>1. PICK R : R = OpToRel(<, Nat) /\ IsWellFoundedOn(R, Nat)
  BY NatLessThanWellFounded
<1>2. PICK i \in S : \A j \in S : ~(<<j, i>> \in R)
  BY <1>1, WFMin
<1>3. ASSUME NEW j \in S PROVE i <= j
  <2>1. j < i => <<j, i>> \in R
    BY <1>1 DEF OpToRel
  <2>. QED
    BY <1>2, <2>1
<1>. QED
  BY <1>3

\* A line for us with nothing but rules from there to line n
UnderAgent(lines, n) ==
  \E i \in 1..n :
    /\ lines[i].kind = "agent"
    /\ \A k \in (i + 1)..n : lines[k].kind = "disallow"

LEMMA UnderAgentNext ==
  ASSUME NEW lines, NEW n \in Nat
  PROVE  /\ ~UnderAgent(lines, 0)
         /\ UnderAgent(lines, n + 1) <=> Track(UnderAgent(lines, n), lines[n + 1])
<1>1. ~UnderAgent(lines, 0)
  BY DEF UnderAgent
<1>2. ASSUME UnderAgent(lines, n + 1)
      PROVE  Track(UnderAgent(lines, n), lines[n + 1])
  <2>1. PICK i \in 1..(n + 1) : /\ lines[i].kind = "agent"
                                /\ \A k \in (i + 1)..(n + 1) : lines[k].kind = "disallow"
    BY <1>2 DEF UnderAgent
  <2>2. CASE i = n + 1
    BY <2>1, <2>2 DEF Track
  <2>3. CASE i \in 1..n
    <3>1. lines[n + 1].kind = "disallow"
      BY <2>1, <2>3
    <3>2. UnderAgent(lines, n)
      BY <2>1, <2>3 DEF UnderAgent
    <3>. QED
      BY <3>1, <3>2 DEF Track
  <2>. QED
    BY <2>1, <2>2, <2>3
<1>3. ASSUME Track(UnderAgent(lines, n), lines[n + 1])
      PROVE  UnderAgent(lines, n + 1)
  <2>1. CASE lines[n + 1].kind = "agent"
    <3>1. n + 1 \in 1..(n + 1) /\ \A k \in (n + 1 + 1)..(n + 1) : FALSE
      OBVIOUS
    <3>. QED
      BY <2>1, <3>1 DEF UnderAgent
  <2>2. CASE lines[n + 1].kind = "disallow" /\ UnderAgent(lines, n)
    <3>1. PICK i \in 1..n : /\ lines[i].kind = "agent"
                            /\ \A k \in (i + 1)..n : lines[k].kind = "disallow"
      BY <2>2 DEF UnderAgent
    <3>2. \A k \in (i + 1)..(n + 1) : lines[k].kind = "disallow"
      BY <2>2, <3>1
    <3>. QED
      BY <3>1, <3>2 DEF UnderAgent
  <2>. QED
    BY <1>3, <2>1, <2>2 DEF Track
<1>. QED
  BY <1>1, <1>2, <1>3

\* Tracking is a recursive function: what it is on every list of lines
TracksLines(f, lines) ==
  f = [n \in 0..Len(lines) |-> n > 0 /\ Track(f[n - 1], lines[n])]

LEMMA TrackingExists ==
  ASSUME NEW L, NEW lines \in Seq(L)
  PROVE  \E f : TracksLines(f, lines)
<1> DEFINE W == [n \in 0..Len(lines) |-> UnderAgent(lines, n)]
<1>1. ASSUME NEW n \in 0..Len(lines)
      PROVE  UnderAgent(lines, n) <=> (n > 0 /\ Track(W[n - 1], lines[n]))
  <2>1. CASE n = 0
    BY <2>1, UnderAgentNext
  <2>2. CASE n > 0
    <3>1. n - 1 \in 0..Len(lines) /\ n - 1 \in Nat /\ n - 1 + 1 = n
      BY <2>2
    <3>2. W[n - 1] <=> UnderAgent(lines, n - 1)
      BY <3>1
    <3>3. UnderAgent(lines, n) <=> Track(UnderAgent(lines, n - 1), lines[n])
      BY <3>1, UnderAgentNext
    <3>. QED
      BY <2>2, <3>2, <3>3 DEF Track
  <2>. QED
    BY <2>1, <2>2
<1>2. W = [n \in 0..Len(lines) |-> n > 0 /\ Track(W[n - 1], lines[n])]
  BY <1>1
<1>. QED
  BY <1>2 DEF TracksLines

LEMMA TrackingIs ==
  ASSUME NEW L, NEW lines \in Seq(L), NEW n \in 0..Len(lines)
  PROVE  Tracking(lines)[n] <=> UnderAgent(lines, n)
<1>1. PICK f : f = Tracking(lines)
  OBVIOUS
<1>2. f = CHOOSE g : TracksLines(g, lines)
  BY <1>1 DEF Tracking, TracksLines
<1>3. TracksLines(f, lines)
  BY <1>2, TrackingExists
<1>4. ASSUME NEW m \in 0..Len(lines)
      PROVE  f[m] = (m > 0 /\ Track(f[m - 1], lines[m]))
  BY <1>3 DEF TracksLines
<1> DEFINE Wrong == {m \in 0..Len(lines) : ~(f[m] <=> UnderAgent(lines, m))}
<1>5. Wrong = {}
  <2>1. SUFFICES ASSUME Wrong # {} PROVE FALSE
    OBVIOUS
  <2>2. PICK m \in Wrong : \A j \in Wrong : m <= j
    <3>1. Wrong \in SUBSET Nat
      OBVIOUS
    <3>. QED
      BY <2>1, <3>1, Least
  <2>3. m # 0
    <3>1. ~(0 > 0) /\ 0 \in 0..Len(lines) /\ 0 \in Nat
      OBVIOUS
    <3>2. ~f[0] /\ ~UnderAgent(lines, 0)
      BY <1>4, <3>1, UnderAgentNext
    <3>. QED
      BY <3>2
  <2>4. m - 1 \in 0..Len(lines) /\ m - 1 \in Nat /\ m - 1 + 1 = m /\ m > 0 /\ ~(m <= m - 1)
    BY <2>3
  <2>5. f[m - 1] <=> UnderAgent(lines, m - 1)
    BY <2>2, <2>4
  <2>6. UnderAgent(lines, m) <=> Track(UnderAgent(lines, m - 1), lines[m])
    BY <2>4, UnderAgentNext
  <2>7. f[m] <=> UnderAgent(lines, m)
    BY <1>4, <2>4, <2>5, <2>6 DEF Track
  <2>. QED
    BY <2>7
<1>. QED
  BY <1>1, <1>5

\* _parse_robots_path denies what robots.txt names
LEMMA DeniedIs ==
  ASSUME NEW L, NEW path, site.robots # NoRobots, site.robots \in Seq(L)
  PROVE  Denied(site.robots, path) <=> NamedByRobots(path)
<1> DEFINE lines == site.robots
<1>1. ASSUME Denied(lines, path) PROVE NamedByRobots(path)
  <2>1. PICK n \in DOMAIN lines : /\ Tracking(lines)[n - 1]
                                  /\ lines[n].kind = "disallow"
                                  /\ lines[n].path \in Spellings(path)
    BY <1>1 DEF Denied
  <2>2. n \in 1..Len(lines) /\ n - 1 \in 0..Len(lines)
    OBVIOUS
  <2>3. UnderAgent(lines, n - 1)
    BY <2>1, <2>2, TrackingIs
  <2>4. PICK i \in 1..(n - 1) : /\ lines[i].kind = "agent"
                                /\ \A k \in (i + 1)..(n - 1) : lines[k].kind = "disallow"
    BY <2>3 DEF UnderAgent
  <2>5. i \in DOMAIN lines /\ i < n /\ \A k \in (i + 1)..n : lines[k].kind = "disallow"
    BY <2>1, <2>2, <2>4
  <2>. QED
    BY <2>1, <2>4, <2>5 DEF NamedByRobots
<1>2. ASSUME NamedByRobots(path) PROVE Denied(lines, path)
  <2>1. PICK i \in DOMAIN lines, j \in DOMAIN lines :
               /\ i < j
               /\ lines[i].kind = "agent"
               /\ \A k \in (i + 1)..j : lines[k].kind = "disallow"
               /\ lines[j].path \in Spellings(path)
    BY <1>2 DEF NamedByRobots
  <2>2. i \in 1..(j - 1) /\ j - 1 \in 0..Len(lines) /\ lines[j].kind = "disallow"
    BY <2>1
  <2>3. UnderAgent(lines, j - 1)
    BY <2>1, <2>2 DEF UnderAgent
  <2>4. Tracking(lines)[j - 1]
    BY <2>2, <2>3, TrackingIs
  <2>. QED
    BY <2>1, <2>2, <2>4 DEF Denied
<1>. QED
  BY <1>1, <1>2

-----------------------------------------------------------------------------
(* The invariants                                                           *)

HeadRequest == <<"HEAD", "/robots.txt">>
GetRequest == <<"GET", "/robots.txt">>
PageRequest(path) == <<"GET", path.name>>

SiteInv ==
  IsList(site.paths) /\ (site.robots # NoRobots => IsList(site.robots))

\* Every path before turn is decided, and no other one.
TurnInv ==
  /\ faults \in Nat /\ read \in BOOLEAN
  /\ asking \in {"head", "robots", "page", "done", "raised"}
  /\ turn \in 1..(Len(site.paths) + 1)
  /\ asking \in {"head", "robots", "page"} => turn <= Len(site.paths)
  /\ asking = "done" => turn = Len(site.paths) + 1
  /\ IsList(decided) /\ Len(decided) = turn - 1

\* The session keeps nothing the site would not answer.  Once robots.txt has
\* been read it keeps both requests for it, so that no path escapes its rules.
CacheInv ==
  /\ \A request \in cache : Status(request) = 200
  /\ asking = "robots" => HeadRequest \in cache
  /\ read => HeadRequest \in cache /\ GetRequest \in cache
  /\ asking = "page" /\ read => ~NamedByRobots(Path)

DecidedInv ==
  \A i \in DOMAIN decided :
    LET d == decided[i]
    IN /\ d.path = site.paths[i]
       /\ d.how \in {"refused", "fetched", "failed"}
       /\ d.how = "refused" => NamedByRobots(d.path)
       /\ NamedByRobots(d.path) /\ d.read => d.how = "refused"
       /\ d.how = "fetched" => Status(PageRequest(d.path)) = 200
       /\ d.how = "failed" /\ faults = 0 => Status(PageRequest(d.path)) # 200

\* The recorded pages are the fetched ones in their order.
Fetched == {i \in DOMAIN decided : decided[i].how = "fetched"}
Place(S, i) == Cardinality({j \in S : j <= i})
RecordedInv ==
  /\ IsList(http_states) /\ Len(http_states) = Cardinality(Fetched)
  /\ \A i \in Fetched : http_states[Place(Fetched, i)] = decided[i].path
  /\ \A k \in DOMAIN http_states : \E i \in Fetched : http_states[k] = decided[i].path

PagesInv == SiteInv /\ TurnInv /\ CacheInv /\ DecidedInv /\ RecordedInv

AttemptTasks == {"h2c", "long_handshake_intolerance", "version_intolerance"}

\* Which task is where, before the tasks begin and afterwards
StageInv ==
  /\ stage \in {"probe", "pages", "tasks"}
  /\ stage = "tasks" => asking = "done"
  /\ stage # "tasks" => at = "start"
  /\ at = "start" => answers = <<>> /\ alarm = "off" /\ found = FALSE
  /\ verdict # "open" => at = "ended"
  /\ IsList(answers)
PlaceInv ==
  /\ at \in {"evaluate", "oracle"} => task = "tls_robot"
  /\ at = "search" => task = "crime_vuln"
  /\ at \in {"attempts", "blocked"} => task \in AttemptTasks
  /\ at = "spinning" => task \in AttemptTasks \cup {"tls_robot"}
  /\ task \in AttemptTasks => alarm = "off"

\* The n-th answer is the server's, not the work of a fault.
Asked(n) == server.oracle[n > 5 /\ Shortened][((n - 1) % 5) + 1]
Truthful(n) == answers[n] = Asked(n)
Spoiled == at = "spinning" /\ Reply # "closes"
RobotInv ==
  task = "tls_robot" =>
    /\ Len(answers) <= 15
    /\ at \in {"oracle", "spinning"} => ~AllAsked
    /\ Len(answers) > 10 => Shortened /\ ~Same(Round(2))
    /\ faults = 0 => ~Spoiled /\ \A n \in DOMAIN answers : Truthful(n)
    /\ faults = 1 =>
         /\ Spoiled => \A n \in DOMAIN answers : Truthful(n)
         /\ \A m, n \in DOMAIN answers : ~Truthful(m) /\ ~Truthful(n) => m = n

CrimeInv ==
  at = "search" => server.ciphers # {} /\ pending \in Nat /\ found \in BOOLEAN /\ (pending > 0 \/ found)

\* An attempt has the outcome the server has for it, or one of a fault, and no more
\* attempts are bent by faults than there were faults.
Bent == {n \in DOMAIN answers : answers[n] # Outcome(server.outcomes[n])}
AttemptsInv ==
  task \in AttemptTasks =>
    /\ Len(answers) <= Attempts[task]
    /\ \A n \in DOMAIN answers :
         /\ answers[n] \notin {"spinning", "blocked"}
         /\ \/ answers[n] = Outcome(server.outcomes[n])
            \/ faults > 0 /\ \E o \in {"refused", "silent", "closes"} : answers[n] = Outcome(o)
    /\ IsFiniteSet(Bent) /\ Cardinality(Bent) <= faults

TaskInv == StageInv /\ PlaceInv /\ RobotInv /\ CrimeInv /\ AttemptsInv

Inv == PagesInv /\ TaskInv /\ VerdictsEarned

-----------------------------------------------------------------------------
(* Lists that grow                                                          *)

LEMMA ListIs ==
  ASSUME NEW n \in Nat, NEW list, list = [i \in 1..n |-> list[i]]
  PROVE  IsList(list) /\ Len(list) = n
<1>1. list \in [1..n -> Range(list)]
  BY DEF Range
<1>. QED
  BY <1>1 DEF IsList

LEMMA EmptyList == IsList(<< >>) /\ Len(<< >>) = 0
BY DEF IsList

LEMMA ListFacts ==
  ASSUME NEW list, IsList(list)
  PROVE  /\ Len(list) \in Nat /\ DOMAIN list = 1..Len(list)
         /\ list = [i \in 1..Len(list) |-> list[i]]
<1>1. PICK S : S = Range(list) /\ list \in Seq(S)
  BY DEF IsList
<1>. QED
  BY <1>1

Longer(list, x) == Append(list, x)

LEMMA Appended ==
  ASSUME NEW list, IsList(list), NEW x, NEW longer, longer = Longer(list, x)
  PROVE  /\ IsList(longer) /\ Len(longer) = Len(list) + 1
         /\ longer[Len(list) + 1] = x
         /\ \A i \in 1..Len(list) : longer[i] = list[i]
<1>1. PICK S : S = Range(list) /\ list \in Seq(S)
  BY DEF IsList
<1>2. longer \in Seq(S \cup {x}) /\ Len(longer) = Len(list) + 1
      /\ longer[Len(list) + 1] = x /\ \A i \in 1..Len(list) : longer[i] = list[i]
  BY <1>1 DEF Longer
<1>3. Len(longer) \in Nat /\ longer = [i \in 1..Len(longer) |-> longer[i]]
  <2>1. PICK T : longer \in Seq(T)
    BY <1>2
  <2>. QED
    BY ONLY <2>1
<1>4. IsList(longer)
  BY <1>3, ListIs
<1>. QED
  BY <1>2, <1>4

LEMMA Places ==
  ASSUME NEW n \in Nat, NEW S \in SUBSET (1..n)
  PROVE  IsFiniteSet(S) /\ Cardinality(S) \in Nat /\ \A i \in S : Place(S, i) \in 1..Cardinality(S)
<1>1. IsFiniteSet(1..n)
  BY FS_Interval
<1>2. IsFiniteSet(S) /\ Cardinality(S) \in Nat
  BY <1>1, FS_Subset, FS_CardinalityType
<1>3. ASSUME NEW i \in S PROVE Place(S, i) \in 1..Cardinality(S)
  <2>1. PICK T : T = {j \in S : j <= i}
    OBVIOUS
  <2>2. i \in T /\ T \subseteq S
    BY <2>1
  <2>3. IsFiniteSet(T) /\ Cardinality(T) <= Cardinality(S)
    BY <1>2, <2>2, FS_Subset
  <2>4. Cardinality(T) \in Nat /\ Cardinality(T) # 0
    BY <2>2, <2>3, FS_CardinalityType, FS_EmptySet
  <2>. QED
    BY <1>2, <2>1, <2>3, <2>4 DEF Place
<1>. QED
  BY <1>2, <1>3

\* One more at the end has the next place and leaves the others theirs.
LEMMA NextPlace ==
  ASSUME NEW n \in Nat, NEW S \in SUBSET (1..n), NEW T, T = S \cup {n + 1}
  PROVE  /\ Cardinality(T) = Cardinality(S) + 1
         /\ Place(T, n + 1) = Cardinality(T)
         /\ \A i \in S : Place(T, i) = Place(S, i)
<1>1. n + 1 \notin S /\ IsFiniteSet(S)
  <2>1. n + 1 \notin S
    OBVIOUS
  <2>2. IsFiniteSet(S)
    BY Places
  <2>. QED
    BY <2>1, <2>2
<1>2. Cardinality(T) = Cardinality(S) + 1
  BY <1>1, FS_AddElement
<1>3. \A j \in T : j <= n + 1
  OBVIOUS
<1>4. {j \in T : j <= n + 1} = T
  BY <1>3
<1>5. ASSUME NEW i \in S PROVE {j \in T : j <= i} = {j \in S : j <= i}
  <2>1. ~(n + 1 <= i)
    OBVIOUS
  <2>. QED
    BY <2>1
<1>. QED
  BY <1>2, <1>4, <1>5 DEF Place

-----------------------------------------------------------------------------
(* Pages                                                                    *)

LEMMA PagesInvInit == Init => PagesInv
<1>1. SUFFICES ASSUME Init PROVE PagesInv
  OBVIOUS
<1>2. PICK s \in Scenarios : PagesInit(s.sites)
  BY <1>1 DEF Init
<1>3. /\ site \in s.sites /\ turn = 1 /\ asking = IF site.paths = << >> THEN "done" ELSE "head"
      /\ cache = {} /\ http_states = << >> /\ read = FALSE /\ decided = << >> /\ faults = 0
  BY <1>2 DEF PagesInit
<1>4. SiteInv
  BY <1>3, ScenarioAssumption DEF SiteInv
<1>5. TurnInv
  <2>1. Len(site.paths) \in Nat /\ site.paths = [i \in 1..Len(site.paths) |-> site.paths[i]]
    BY <1>4, ListFacts DEF SiteInv
  <2>2. Len(site.paths) = 0 <=> site.paths = << >>
    BY <2>1
  <2>3. IsList(decided) /\ Len(decided) = 0
    BY <1>3, EmptyList
  <2>4. Len(site.paths) \in Nat /\ faults \in Nat /\ read \in BOOLEAN /\ turn = 1
    BY <1>3, <2>1
  <2>5. CASE site.paths = << >>
    <3>1. asking = "done" /\ Len(site.paths) = 0
      BY <1>3, <2>2, <2>5
    <3>. QED
      BY <2>3, <2>4, <3>1 DEF TurnInv
  <2>6. CASE site.paths # << >>
    <3>1. asking = "head" /\ Len(site.paths) > 0
      BY <1>3, <2>2, <2>4, <2>6
    <3>. QED
      BY <2>3, <2>4, <3>1 DEF TurnInv
  <2>. QED
    BY <2>5, <2>6
<1>6. CacheInv
  BY <1>3 DEF CacheInv
<1>7. DecidedInv
  BY <1>3 DEF DecidedInv
<1>8. RecordedInv
  <2>1. Fetched = {}
    BY <1>3 DEF Fetched
  <2>2. Cardinality(Fetched) = 0
    BY <2>1, FS_EmptySet
  <2>. QED
    BY <1>3, <2>1, <2>2, EmptyList DEF RecordedInv
<1>. QED
  BY <1>4, <1>5, <1>6, <1>7, <1>8 DEF PagesInv

\* The exchanges of the pages may go wrong, and nothing else may have changed.
LEMMA PagesInvKept ==
  ASSUME PagesInv, UNCHANGED <<site, turn, asking, cache, http_states, read, decided>>,
         faults' = faults \/ faults' = faults + 1
  PROVE  PagesInv'
<1>1. SiteInv'
  BY DEF PagesInv, SiteInv
<1>2. TurnInv'
  BY DEF PagesInv, TurnInv
<1>3. CacheInv'
  BY DEF PagesInv, CacheInv, Status, NamedByRobots, Path
<1>4. DecidedInv'
  <2>1. faults' = 0 => faults = 0
    BY DEF PagesInv, TurnInv
  <2>. QED
    BY <2>1 DEF PagesInv, DecidedInv, Status, NamedByRobots
<1>5. RecordedInv'
  BY DEF PagesInv, RecordedInv, Fetched
<1>. QED
  BY <1>1, <1>2, <1>3, <1>4, <1>5 DEF PagesInv

LEMMA SiteKept ==
  ASSUME site' = site
  PROVE  /\ SiteInv => SiteInv'
         /\ \A path : NamedByRobots(path)' <=> NamedByRobots(path)
         /\ \A request : Status(request)' = Status(request)
BY DEF SiteInv, NamedByRobots, Status

\* What it takes to decide on a path and go on to the next one
Decides(how) ==
  /\ site' = site /\ turn <= Len(site.paths)
  /\ NextPath(how) /\ how \in {"refused", "fetched", "failed"}
  /\ read' \in BOOLEAN /\ faults' \in Nat /\ faults <= faults'
  /\ how = "refused" => NamedByRobots(Path)
  /\ NamedByRobots(Path) /\ read' => how = "refused"
  /\ how = "fetched" => Status(PageRequest(Path)) = 200
  /\ how = "failed" /\ faults' = 0 => Status(PageRequest(Path)) # 200
  /\ http_states' = IF how = "fetched" THEN Append(http_states, Path) ELSE http_states

LEMMA DecidesOnce ==
  ASSUME PagesInv, NEW how, Decides(how)
  PROVE  /\ IsList(decided') /\ Len(decided') = turn
         /\ DOMAIN decided = 1..(turn - 1) /\ DOMAIN decided' = 1..turn
         /\ \A i \in 1..(turn - 1) : decided'[i] = decided[i]
         /\ decided'[turn].path = Path /\ decided'[turn].how = how /\ decided'[turn].read = read'
<1>1. IsList(decided) /\ Len(decided) = turn - 1 /\ turn \in Nat
  <2>1. Len(site.paths) \in Nat
    BY ListFacts DEF PagesInv, SiteInv
  <2>. QED
    BY <2>1 DEF PagesInv, TurnInv
<1>2. PICK d : d = [path |-> Path, how |-> how, read |-> read']
  OBVIOUS
<1>3. decided' = Longer(decided, d)
  BY <1>2 DEF Decides, NextPath, Longer
<1>4. DOMAIN decided = 1..(turn - 1)
  BY <1>1, ListFacts
<1>5. IsList(decided') /\ Len(decided') = Len(decided) + 1
      /\ decided'[Len(decided) + 1] = d /\ \A i \in 1..Len(decided) : decided'[i] = decided[i]
  BY <1>1, <1>3, Appended
<1>6. DOMAIN decided' = 1..Len(decided')
  BY <1>5, ListFacts
<1>7. Len(decided) + 1 = turn
  BY <1>1
<1>8. d.path = Path /\ d.how = how /\ d.read = read'
  BY <1>2
<1>. QED
  BY <1>1, <1>4, <1>5, <1>6, <1>7, <1>8

LEMMA TurnStep ==
  ASSUME PagesInv, NEW how, Decides(how)
  PROVE  TurnInv'
<1>1. Len(site.paths) \in Nat /\ turn \in 1..(Len(site.paths) + 1)
  BY ListFacts DEF PagesInv, SiteInv, TurnInv
<1>2. /\ site' = site /\ turn <= Len(site.paths) /\ turn' = turn + 1
      /\ asking' = IF turn < Len(site.paths) THEN "head" ELSE "done"
      /\ read' \in BOOLEAN /\ faults' \in Nat
  BY DEF Decides, NextPath
<1>3. IsList(decided') /\ Len(decided') = turn
  BY DecidesOnce
<1>4. CASE turn < Len(site.paths)
  BY <1>1, <1>2, <1>3, <1>4 DEF TurnInv
<1>5. CASE turn = Len(site.paths)
  BY <1>1, <1>2, <1>3, <1>5 DEF TurnInv
<1>. QED
  BY <1>1, <1>2, <1>4, <1>5

LEMMA DecidedStep ==
  ASSUME PagesInv, NEW how, Decides(how)
  PROVE  DecidedInv'
<1>1. turn \in Nat /\ faults \in Nat /\ faults' \in Nat /\ faults <= faults' /\ turn >= 1
  BY ListFacts DEF PagesInv, SiteInv, TurnInv, Decides
<1>2. site' = site
  BY DEF Decides
<1>3. ASSUME NEW i \in 1..turn
      PROVE  LET d == decided'[i]
             IN /\ d.path = site'.paths[i]
                /\ d.how \in {"refused", "fetched", "failed"}
                /\ d.how = "refused" => NamedByRobots(d.path)
                /\ NamedByRobots(d.path) /\ d.read => d.how = "refused"
                /\ d.how = "fetched" => Status(PageRequest(d.path)) = 200
                /\ d.how = "failed" /\ faults' = 0 => Status(PageRequest(d.path)) # 200
  <2>1. CASE i = turn
    <3>1. decided'[i].path = Path /\ decided'[i].how = how /\ decided'[i].read = read'
      BY <2>1, DecidesOnce
    <3>2. Path = site'.paths[i]
      BY <1>2, <2>1 DEF Path
    <3>. QED
      BY <3>1, <3>2 DEF Decides
  <2>2. CASE i # turn
    <3>1. i \in 1..(turn - 1) /\ DOMAIN decided = 1..(turn - 1) /\ decided'[i] = decided[i]
      BY <1>1, <2>2, DecidesOnce
    <3>2. faults' = 0 => faults = 0
      BY <1>1
    <3>. QED
      BY <1>2, <3>1, <3>2 DEF PagesInv, DecidedInv
  <2>. QED
    BY <2>1, <2>2
<1>4. DOMAIN decided' = 1..turn
  BY DecidesOnce
<1>5. /\ \A path : NamedByRobots(path)' <=> NamedByRobots(path)
      /\ \A request : Status(request)' = Status(request)
  BY <1>2, SiteKept
<1>. QED
  BY ZenonT(60), <1>3, <1>4, <1>5 DEF DecidedInv, PageRequest

LEMMA RecordedStep ==
  ASSUME PagesInv, NEW how, Decides(how)
  PROVE  RecordedInv'
<1>1. turn \in Nat /\ turn >= 1
  BY ListFacts DEF PagesInv, SiteInv, TurnInv
<1>2. PICK F : F = Fetched
  OBVIOUS
<1>3. PICK G : G = Fetched'
  OBVIOUS
<1>4. F \in SUBSET (1..(turn - 1)) /\ turn - 1 \in Nat
  BY <1>1, <1>2, DecidesOnce DEF Fetched
<1>5. IsList(http_states) /\ Len(http_states) = Cardinality(F)
      /\ DOMAIN http_states = 1..Len(http_states)
  BY <1>2, ListFacts DEF PagesInv, RecordedInv
<1>6. \A i \in F : http_states[Place(F, i)] = decided[i].path /\ decided'[i] = decided[i]
  BY <1>2, <1>4, DecidesOnce DEF PagesInv, RecordedInv
<1>7. \A k \in DOMAIN http_states : \E i \in F : http_states[k] = decided[i].path
  BY <1>2 DEF PagesInv, RecordedInv
<1>8. \A i \in 1..turn : i \in G <=> decided'[i].how = "fetched"
  BY <1>3, DecidesOnce DEF Fetched
<1>9. G \subseteq 1..turn
  BY <1>3, DecidesOnce DEF Fetched
<1>10. \A i \in 1..(turn - 1) : i \in G <=> i \in F
  <2>1. \A i \in 1..(turn - 1) : i \in F <=> decided[i].how = "fetched"
    BY <1>2, DecidesOnce DEF Fetched
  <2>. QED
    BY SMTT(30), <1>1, <1>8, <2>1, DecidesOnce
<1>11. turn \in G <=> how = "fetched"
  BY <1>1, <1>8, DecidesOnce
<1>12. SUFFICES /\ IsList(http_states') /\ Len(http_states') = Cardinality(G)
                /\ \A i \in G : http_states'[Place(G, i)] = decided'[i].path
                /\ \A k \in DOMAIN http_states' : \E i \in G : http_states'[k] = decided'[i].path
  BY <1>3 DEF RecordedInv, Place
<1>13. CASE how # "fetched"
  <2>1. http_states' = http_states
    BY <1>13 DEF Decides
  <2>2. G = F
    <3>1. ASSUME NEW i \in 1..turn PROVE i \in G <=> i \in F
      BY <1>1, <1>4, <1>10, <1>11, <1>13
    <3>2. F \subseteq 1..turn
      BY <1>1, <1>4
    <3>. QED
      BY <1>9, <3>1, <3>2
  <2>. QED
    BY <1>5, <1>6, <1>7, <2>1, <2>2
<1>14. CASE how = "fetched"
  <2>1. http_states' = Longer(http_states, Path)
    BY <1>14 DEF Decides, Longer
  <2>2. G = F \cup {turn}
    <3>1. ASSUME NEW i \in 1..turn PROVE i \in G <=> i \in F \cup {turn}
      BY <1>1, <1>4, <1>10, <1>11, <1>14
    <3>2. F \cup {turn} \subseteq 1..turn
      BY <1>1, <1>4
    <3>. QED
      BY <1>9, <3>1, <3>2
  <2>3. G = F \cup {turn - 1 + 1} /\ turn - 1 + 1 = turn
    BY <1>1, <2>2
  <2>4. /\ Cardinality(G) = Cardinality(F) + 1
        /\ Place(G, turn) = Cardinality(G)
        /\ \A i \in F : Place(G, i) = Place(F, i)
    BY <1>4, <2>3, NextPlace
  <2>5. /\ IsList(http_states') /\ Len(http_states') = Len(http_states) + 1
        /\ http_states'[Len(http_states) + 1] = Path
        /\ \A i \in 1..Len(http_states) : http_states'[i] = http_states[i]
    BY <1>5, <2>1, Appended
  <2>6. DOMAIN http_states' = 1..(Len(http_states) + 1) /\ Len(http_states) \in Nat
    BY <1>5, <2>5, ListFacts
  <2>7. \A i \in F : Place(F, i) \in 1..Cardinality(F)
    BY <1>4, Places
  <2>8. decided'[turn].path = Path
    BY DecidesOnce
  <2>9. ASSUME NEW i \in G PROVE http_states'[Place(G, i)] = decided'[i].path
    <3>1. CASE i = turn
      BY <1>5, <2>4, <2>5, <2>8, <3>1
    <3>2. CASE i \in F
      BY <1>5, <1>6, <2>4, <2>5, <2>7, <3>2
    <3>. QED
      BY <2>2, <3>1, <3>2
  <2>10. ASSUME NEW k \in DOMAIN http_states'
         PROVE  \E i \in G : http_states'[k] = decided'[i].path
    <3>1. CASE k = Len(http_states) + 1
      BY <2>2, <2>5, <2>8, <3>1
    <3>2. CASE k \in 1..Len(http_states)
      <4>1. PICK i \in F : http_states[k] = decided[i].path
        BY <1>5, <1>7, <3>2
      <4>. QED
        BY <1>6, <2>2, <2>5, <3>2, <4>1
    <3>. QED
      BY <2>6, <3>1, <3>2
  <2>. QED
    BY <1>5, <2>4, <2>5, <2>9, <2>10
<1>. QED
  BY <1>13, <1>14

LEMMA Requested ==
  ASSUME PagesInv, NEW request, NEW status, DoRequest(request, status)
  PROVE  /\ faults' \in Nat /\ faults <= faults'
         /\ cache \subseteq cache' /\ \A r \in cache' : Status(r) = 200
         /\ status = 200 => request \in cache' /\ Status(request) = 200
         /\ status # 200 => request \notin cache /\ (faults' = 0 => Status(request) # 200)
<1>1. faults \in Nat /\ \A r \in cache : Status(r) = 200
  BY DEF PagesInv, TurnInv, CacheInv
<1>2. CASE request \in cache /\ status = 200 /\ UNCHANGED <<cache, faults>>
  BY <1>1, <1>2
<1>3. CASE /\ request \notin cache /\ status = Status(request) /\ UNCHANGED faults
           /\ cache' = IF status = 200 THEN Kept(request) ELSE cache
  BY <1>1, <1>3 DEF Kept
<1>4. CASE request \notin cache /\ status = NoResponse /\ Fault /\ UNCHANGED cache
  <2>1. faults' = faults + 1 /\ status = 0
    BY <1>4 DEF Fault, NoResponse
  <2>2. faults' \in Nat /\ faults <= faults' /\ faults' # 0 /\ status # 200
    BY <1>1, <2>1
  <2>3. cache' = cache /\ request \notin cache
    BY <1>4
  <2>. QED
    BY <1>1, <2>2, <2>3
<1>. QED
  BY <1>2, <1>3, <1>4 DEF DoRequest

\* Turning to another request for the same path
LEMMA AsksNext ==
  ASSUME PagesInv, UNCHANGED <<site, turn, http_states, decided>>,
         asking \in {"head", "robots", "page"}, asking' \in {"robots", "page", "raised"},
         read' \in BOOLEAN, faults' \in Nat, faults <= faults'
  PROVE  SiteInv' /\ TurnInv' /\ DecidedInv' /\ RecordedInv'
<1>1. SiteInv'
  BY SiteKept DEF PagesInv
<1>2. TurnInv'
  BY DEF PagesInv, TurnInv
<1>3. DecidedInv'
  <2>1. faults' = 0 => faults = 0
    BY DEF PagesInv, TurnInv
  <2>. QED
    BY <2>1 DEF PagesInv, DecidedInv, Status, NamedByRobots
<1>4. RecordedInv'
  BY DEF PagesInv, RecordedInv, Fetched
<1>. QED
  BY <1>1, <1>2, <1>3, <1>4

LEMMA HeadStep == PagesInv /\ HeadRobots => PagesInv'
<1> SUFFICES ASSUME PagesInv, HeadRobots PROVE PagesInv'
  OBVIOUS
<1>1. PICK status \in {NoResponse, 200, 404} :
        DoRequest(HeadRequest, status) /\ asking' = IF status = 200 THEN "robots" ELSE "page"
  BY DEF HeadRobots, HeadRequest
<1>2. asking = "head" /\ UNCHANGED <<site, turn, http_states, read, decided>>
  BY DEF HeadRobots
<1>3. /\ faults' \in Nat /\ faults <= faults'
      /\ cache \subseteq cache' /\ \A r \in cache' : Status(r) = 200
      /\ status = 200 => HeadRequest \in cache'
      /\ status # 200 => HeadRequest \notin cache
  BY <1>1, Requested
<1>4. SiteInv' /\ TurnInv' /\ DecidedInv' /\ RecordedInv'
  <2>1. read' \in BOOLEAN
    BY <1>2 DEF PagesInv, TurnInv
  <2>. QED
    BY <1>1, <1>2, <1>3, <2>1, AsksNext
<1>5. CacheInv'
  <2>1. \A r \in cache' : Status(r)' = 200
    BY <1>2, <1>3, SiteKept
  <2>2. read => HeadRequest \in cache /\ GetRequest \in cache
    BY DEF PagesInv, CacheInv
  <2>3. asking' = "page" => ~read'
    BY <1>1, <1>2, <1>3, <2>2
  <2>4. asking' = "robots" => HeadRequest \in cache'
    BY <1>1, <1>3
  <2>5. read' => HeadRequest \in cache' /\ GetRequest \in cache'
    BY <1>2, <1>3, <2>2
  <2>. QED
    BY <2>1, <2>3, <2>4, <2>5 DEF CacheInv, HeadRequest, GetRequest
<1>. QED
  BY <1>4, <1>5 DEF PagesInv

LEMMA GetStep == PagesInv /\ GetRobots => PagesInv'
<1> SUFFICES ASSUME PagesInv, GetRobots PROVE PagesInv'
  OBVIOUS
<1>1. PICK status \in {NoResponse, 200, 404} :
        /\ DoRequest(GetRequest, status)
        /\ read' = (read \/ status = 200)
        /\ IF status = 200 /\ Denied(site.robots, Path)
           THEN NextPath("refused")
           ELSE asking' = "page" /\ UNCHANGED <<turn, decided>>
  BY DEF GetRobots, GetRequest
<1>2. asking = "robots" /\ UNCHANGED <<site, http_states>>
  BY DEF GetRobots
<1>3. /\ faults' \in Nat /\ faults <= faults'
      /\ cache \subseteq cache' /\ \A r \in cache' : Status(r) = 200
      /\ status = 200 => GetRequest \in cache' /\ Status(GetRequest) = 200
      /\ status # 200 => GetRequest \notin cache
  BY <1>1, Requested
<1>4. read \in BOOLEAN /\ read' \in BOOLEAN /\ HeadRequest \in cache
      /\ (read => GetRequest \in cache) /\ turn <= Len(site.paths)
  BY <1>1, <1>2 DEF PagesInv, TurnInv, CacheInv
<1>5. status = 200 => (Denied(site.robots, Path) <=> NamedByRobots(Path))
  <2>1. status = 200 => site.robots # NoRobots
    BY <1>3 DEF Status, GetRequest
  <2>2. site.robots # NoRobots => IsList(site.robots)
    BY DEF PagesInv, SiteInv
  <2>. QED
    BY <2>1, <2>2, DeniedIs DEF IsList
<1>6. \A r \in cache' : Status(r)' = 200
  BY <1>2, <1>3, SiteKept
<1>7. HeadRequest \in cache' /\ (read' => GetRequest \in cache')
  BY <1>1, <1>3, <1>4
<1>8. CASE status = 200 /\ Denied(site.robots, Path)
  <2>1. NextPath("refused") /\ NamedByRobots(Path)
    BY <1>1, <1>5, <1>8
  <2>2. Decides("refused")
    BY <1>2, <1>3, <1>4, <2>1 DEF Decides
  <2>3. TurnInv' /\ DecidedInv' /\ RecordedInv' /\ SiteInv'
    BY <1>2, <2>2, TurnStep, DecidedStep, RecordedStep, SiteKept DEF PagesInv
  <2>4. asking' \in {"head", "done"}
    BY <2>1 DEF NextPath
  <2>5. CacheInv'
    BY <1>6, <1>7, <2>4 DEF CacheInv, HeadRequest, GetRequest
  <2>. QED
    BY <2>3, <2>5 DEF PagesInv
<1>9. CASE ~(status = 200 /\ Denied(site.robots, Path))
  <2>1. asking' = "page" /\ UNCHANGED <<turn, decided>>
    BY <1>1, <1>9
  <2>2. SiteInv' /\ TurnInv' /\ DecidedInv' /\ RecordedInv'
    BY <1>2, <1>3, <1>4, <2>1, AsksNext
  <2>3. read' => ~NamedByRobots(Path)
    BY <1>1, <1>3, <1>4, <1>5, <1>9
  <2>4. (~NamedByRobots(Path))' <=> ~NamedByRobots(Path)
    BY <1>2, <2>1, SiteKept DEF NamedByRobots, Path
  <2>5. CacheInv'
    BY <1>6, <1>7, <2>1, <2>3, <2>4 DEF CacheInv, HeadRequest, GetRequest
  <2>. QED
    BY <2>2, <2>5 DEF PagesInv
<1>. QED
  BY <1>8, <1>9

LEMMA PageStep == PagesInv /\ GetPage => PagesInv'
<1> SUFFICES ASSUME PagesInv, GetPage PROVE PagesInv'
  OBVIOUS
<1>1. PICK status \in {NoResponse, 200, 404} :
        /\ DoRequest(PageRequest(Path), status)
        /\ http_states' = IF status = 200 THEN Append(http_states, Path) ELSE http_states
        /\ UNCHANGED read
        /\ NextPath(IF status = 200 THEN "fetched" ELSE "failed")
  BY DEF GetPage, PageRequest
<1>2. asking = "page" /\ site' = site
  BY DEF GetPage
<1>3. /\ faults' \in Nat /\ faults <= faults'
      /\ cache \subseteq cache' /\ \A r \in cache' : Status(r) = 200
      /\ status = 200 => Status(PageRequest(Path)) = 200
      /\ status # 200 => (faults' = 0 => Status(PageRequest(Path)) # 200)
  BY <1>1, Requested
<1>4. read' = read /\ read \in BOOLEAN /\ (read => HeadRequest \in cache /\ GetRequest \in cache)
      /\ (read => ~NamedByRobots(Path)) /\ turn <= Len(site.paths)
  BY <1>1, <1>2 DEF PagesInv, TurnInv, CacheInv
<1>5. PICK how \in {"fetched", "failed"} : how = IF status = 200 THEN "fetched" ELSE "failed"
  OBVIOUS
<1>6. how = "fetched" <=> status = 200
  BY <1>5
<1>7. Decides(how)
  <2>1. NextPath(how)
    BY <1>1, <1>5
  <2>2. http_states' = IF how = "fetched" THEN Append(http_states, Path) ELSE http_states
    BY <1>1, <1>6
  <2>. QED
    BY <1>2, <1>3, <1>4, <1>6, <2>1, <2>2 DEF Decides
<1>8. TurnInv' /\ DecidedInv' /\ RecordedInv' /\ SiteInv'
  BY <1>2, <1>7, TurnStep, DecidedStep, RecordedStep, SiteKept DEF PagesInv
<1>9. CacheInv'
  <2>1. \A r \in cache' : Status(r)' = 200
    BY <1>2, <1>3, SiteKept
  <2>2. asking' \in {"head", "done"}
    BY <1>7 DEF Decides, NextPath
  <2>3. read' => HeadRequest \in cache' /\ GetRequest \in cache'
    BY <1>3, <1>4
  <2>. QED
    BY <2>1, <2>2, <2>3 DEF CacheInv, HeadRequest, GetRequest
<1>. QED
  BY <1>8, <1>9 DEF PagesInv

LEMMA RaiseStep == PagesInv /\ RequestRaises => PagesInv'
<1> SUFFICES ASSUME PagesInv, RequestRaises PROVE PagesInv'
  OBVIOUS
<1>1. /\ asking \in {"head", "robots", "page"} /\ asking' = "raised" /\ faults' = faults + 1
      /\ UNCHANGED <<site, turn, cache, http_states, read, decided>>
  BY DEF RequestRaises, Fault
<1>2. faults' \in Nat /\ faults <= faults' /\ read' \in BOOLEAN
  BY <1>1 DEF PagesInv, TurnInv
<1>3. SiteInv' /\ TurnInv' /\ DecidedInv' /\ RecordedInv'
  BY <1>1, <1>2, AsksNext
<1>4. CacheInv'
  <2>1. \A r \in cache' : Status(r)' = 200
    BY <1>1, SiteKept DEF PagesInv, CacheInv
  <2>. QED
    BY <1>1, <2>1 DEF PagesInv, CacheInv, HeadRequest, GetRequest
<1>. QED
  BY <1>3, <1>4 DEF PagesInv

-----------------------------------------------------------------------------
(* tls_robot: rounds of five answers                                        *)

\* The k-th round of a list of answers gives one answer five times.
Agree(list, k) == \A m \in 1..5 : list[5 * k - 5 + m] = list[5 * k - 4]

RoundOf(list, k) == SubSeq(list, 5 * k - 4, 5 * k)

LEMMA Fives ==
  ASSUME NEW list, IsList(list), NEW k \in 1..3, 5 * k <= Len(list), NEW five, five = RoundOf(list, k)
  PROVE  five = [m \in 1..5 |-> list[5 * k - 5 + m]] /\ (Same(five) <=> Agree(list, k))
<1>1. PICK S : S = Range(list) /\ list \in Seq(S)
  BY DEF IsList
<1>2. Len(list) \in Nat
  BY <1>1
<1>3. five \in Seq(S) /\ Len(five) = 5 /\ \A m \in 1..5 : five[m] = list[5 * k - 5 + m]
  <2>1. PICK a, b : a = 5 * k - 4 /\ b = 5 * k
    OBVIOUS
  <2>2. a \in 1..Len(list) /\ b \in 1..Len(list) /\ b = a + 4 /\ five = SubSeq(list, a, b)
    BY <1>2, <2>1 DEF RoundOf
  <2>3. five \in Seq(S) /\ Len(five) = 5 /\ \A m \in 1..5 : five[m] = list[a + m - 1]
    BY ONLY <1>1, <1>2, <2>2
  <2>4. \A m \in 1..5 : a + m - 1 = 5 * k - 5 + m
    BY <2>1
  <2>. QED
    BY <2>3, <2>4
<1>4. five = [m \in 1..5 |-> five[m]]
  BY <1>3
<1>5. five = [m \in 1..5 |-> list[5 * k - 5 + m]]
  BY <1>3, <1>4
<1>6. Same(five) <=> \A m \in 1..5 : five[m] = five[1]
  BY DEF Same, Messages
<1>7. five[1] = list[5 * k - 4]
  BY <1>3
<1>. QED
  BY <1>3, <1>5, <1>6, <1>7 DEF Agree

\* Shortened and the rest of AllAsked, as facts about a list of answers
Short(list) == Len(list) \div 5 >= 1 /\ Same(RoundOf(list, 1))
Again(list) == Same(RoundOf(list, 2))

LEMMA ShortIs ==
  ASSUME NEW list, IsList(list)
  PROVE  /\ Short(list) <=> Len(list) >= 5 /\ Agree(list, 1)
         /\ Len(list) >= 10 => (Again(list) <=> Agree(list, 2))
<1>1. Len(list) \in Nat
  BY ListFacts
<1>2. Len(list) \div 5 >= 1 <=> Len(list) >= 5
  BY <1>1
<1>3. ASSUME Len(list) >= 5 PROVE Same(RoundOf(list, 1)) <=> Agree(list, 1)
  BY <1>1, <1>3, Fives
<1>4. ASSUME Len(list) >= 10 PROVE Same(RoundOf(list, 2)) <=> Agree(list, 2)
  BY <1>1, <1>4, Fives
<1>. QED
  BY <1>2, <1>3, <1>4 DEF Short, Again

LEMMA ShortKept ==
  ASSUME NEW list, IsList(list), NEW x, NEW longer, longer = Longer(list, x)
  PROVE  /\ Len(list) >= 5 => (Short(longer) <=> Short(list))
         /\ Len(list) >= 10 => (Again(longer) <=> Again(list))
<1>1. /\ IsList(longer) /\ Len(longer) = Len(list) + 1 /\ Len(list) \in Nat
      /\ \A i \in 1..Len(list) : longer[i] = list[i]
  BY Appended, ListFacts
<1>2. ASSUME NEW k \in 1..2, Len(list) >= 5 * k
      PROVE  Agree(longer, k) <=> Agree(list, k)
  <2>1. longer[5 * k - 4] = list[5 * k - 4]
    BY <1>1, <1>2
  <2>2. \A m \in 1..5 : longer[5 * k - 5 + m] = list[5 * k - 5 + m]
    BY <1>1, <1>2
  <2>. QED
    BY <2>1, <2>2 DEF Agree
<1>. QED
  BY <1>1, <1>2, ShortIs

LEMMA RobotTerms ==
  /\ Shortened <=> Short(answers)
  /\ Same(Round(2)) <=> Again(answers)
  /\ Rounds = Len(answers) \div 5
  /\ AllAsked <=> (Len(answers) \div 5 = 2 /\ (Short(answers) => Again(answers))) \/ Len(answers) \div 5 = 3
<1>1. /\ Shortened <=> Short(answers)
      /\ Same(Round(2)) <=> Again(answers)
      /\ Rounds = Len(answers) \div 5
  BY DEF Shortened, Rounds, Round, Short, Again, RoundOf
<1>. QED
  BY <1>1 DEF AllAsked

LEMMA RobotTermsNext ==
  /\ Shortened' <=> Short(answers')
  /\ Same(Round(2))' <=> Again(answers')
  /\ AllAsked' <=> (Len(answers') \div 5 = 2 /\ (Short(answers') => Again(answers'))) \/ Len(answers') \div 5 = 3
<1>1. /\ Shortened' <=> Short(answers')
      /\ Same(Round(2))' <=> Again(answers')
      /\ Rounds' = Len(answers') \div 5
  BY DEF Shortened, Rounds, Round, Short, Again, RoundOf
<1>. QED
  BY <1>1 DEF AllAsked

\* What a server answers in a round, by whether the messages are shortened
Answer(flow, m) == server.oracle[flow][m]

LEMMA AskedIs ==
  ASSUME NEW n \in Nat, n >= 1
  PROVE  /\ n <= 5 \/ ~Shortened => Asked(n) = Answer(FALSE, ((n - 1) % 5) + 1)
         /\ n > 5 /\ Shortened => Asked(n) = Answer(TRUE, ((n - 1) % 5) + 1)
<1>1. PICK flow : flow = (n > 5 /\ Shortened)
  OBVIOUS
<1>2. Asked(n) = Answer(flow, ((n - 1) % 5) + 1)
  BY <1>1 DEF Asked, Answer
<1>3. n <= 5 \/ ~Shortened => flow = FALSE
  <2>1. n <= 5 \/ ~Shortened => ~(n > 5 /\ Shortened)
    OBVIOUS
  <2>. QED
    BY <1>1, <2>1
<1>4. n > 5 /\ Shortened => flow = TRUE
  BY <1>1
<1>. QED
  BY <1>2, <1>3, <1>4

LEMMA AskedLater ==
  ASSUME server' = server, NEW n \in Nat, n >= 1
  PROVE  /\ n <= 5 \/ ~Shortened' => Asked(n)' = Answer(FALSE, ((n - 1) % 5) + 1)
         /\ n > 5 /\ Shortened' => Asked(n)' = Answer(TRUE, ((n - 1) % 5) + 1)
<1>1. PICK flow : flow = (n > 5 /\ Shortened')
  OBVIOUS
<1>2. Asked(n)' = Answer(flow, ((n - 1) % 5) + 1)
  BY <1>1 DEF Asked, Answer
<1>3. n <= 5 \/ ~Shortened' => flow = FALSE
  <2>1. n <= 5 \/ ~Shortened' => ~(n > 5 /\ Shortened')
    OBVIOUS
  <2>. QED
    BY <1>1, <2>1
<1>4. n > 5 /\ Shortened' => flow = TRUE
  BY <1>1
<1>. QED
  BY <1>2, <1>3, <1>4

LEMMA ReplyIs ==
  ASSUME IsList(answers)
  PROVE  Asked(Len(answers) + 1) = Reply
<1>1. Len(answers) \in Nat
  BY ListFacts
<1>2. PICK n : n = Len(answers) + 1
  OBVIOUS
<1>3. n \in Nat /\ n >= 1 /\ ((n - 1) % 5) + 1 = Message
  BY <1>1, <1>2 DEF Message
<1>4. Shortened => n > 5
  BY <1>1, <1>2, ShortIs, RobotTerms
<1>5. CASE Shortened
  <2>1. Asked(n) = Answer(TRUE, Message)
    BY <1>3, <1>4, <1>5, AskedIs
  <2>2. Reply = Answer(TRUE, Message)
    BY <1>5 DEF Reply, Answer
  <2>. QED
    BY <1>2, <2>1, <2>2
<1>6. CASE ~Shortened
  <2>1. Asked(n) = Answer(FALSE, Message)
    BY <1>3, <1>6, AskedIs
  <2>2. Reply = Answer(FALSE, Message)
    <3>1. Shortened = FALSE
      BY <1>6 DEF Shortened
    <3>. QED
      BY <3>1 DEF Reply, Answer
  <2>. QED
    BY <1>2, <2>1, <2>2
<1>. QED
  BY <1>5, <1>6

\* An answer more changes nothing about those there are.
LEMMA TruthKept ==
  ASSUME IsList(answers), server' = server, NEW text, answers' = Longer(answers, text)
  PROVE  /\ DOMAIN answers = 1..Len(answers) /\ DOMAIN answers' = 1..(Len(answers) + 1)
         /\ Len(answers) \in Nat /\ IsList(answers') /\ Len(answers') = Len(answers) + 1
         /\ \A n \in DOMAIN answers : Truthful(n)' <=> Truthful(n)
         /\ \A n \in DOMAIN answers' : n = Len(answers) + 1 => (Truthful(n)' <=> text = Reply)
<1>1. /\ IsList(answers') /\ Len(answers') = Len(answers) + 1 /\ Len(answers) \in Nat
      /\ answers'[Len(answers) + 1] = text
      /\ \A i \in 1..Len(answers) : answers'[i] = answers[i]
  BY Appended, ListFacts
<1>2. DOMAIN answers = 1..Len(answers) /\ DOMAIN answers' = 1..(Len(answers) + 1)
  BY <1>1, ListFacts
<1>3. Len(answers) >= 5 => (Shortened' <=> Shortened)
  BY <1>1, ShortKept, RobotTerms, RobotTermsNext
<1>4. ASSUME NEW n \in 1..(Len(answers) + 1) PROVE Asked(n)' = Asked(n)
  <2>1. n \in Nat /\ n >= 1 /\ (n > 5 => Len(answers) >= 5)
    BY <1>1
  <2>2. CASE n <= 5
    BY <2>1, <2>2, AskedIs, AskedLater
  <2>3. CASE n > 5 /\ Shortened
    BY <1>3, <2>1, <2>3, AskedIs, AskedLater
  <2>4. CASE n > 5 /\ ~Shortened
    BY <1>3, <2>1, <2>4, AskedIs, AskedLater
  <2>. QED
    BY <2>1, <2>2, <2>3, <2>4
<1>5. \A n \in DOMAIN answers : Truthful(n)' <=> Truthful(n)
  <2>1. ASSUME NEW n \in 1..Len(answers) PROVE Truthful(n)' <=> Truthful(n)
    <3>1. Asked(n)' = Asked(n) /\ answers'[n] = answers[n]
      BY <1>1, <1>4
    <3>. QED
      BY <3>1 DEF Truthful
  <2>. QED
    BY <1>2, <2>1
<1>6. ASSUME NEW n \in DOMAIN answers', n = Len(answers) + 1
      PROVE  Truthful(n)' <=> text = Reply
  <2>1. Asked(n)' = Asked(n)
    BY <1>1, <1>4, <1>6
  <2>2. Asked(n) = Reply
    BY <1>6, ReplyIs
  <2>3. answers'[n] = text
    BY <1>1, <1>6
  <2>. QED
    BY <2>1, <2>2, <2>3 DEF Truthful
<1>. QED
  BY <1>1, <1>2, <1>5, <1>6

\* The exchange that was going on has come to its answer: the server's, or
\* one that a fault has made or, while the loop span, had made.
LEMMA AnswerStep ==
  ASSUME IsList(answers), RobotInv, task = "tls_robot", ~AllAsked,
         UNCHANGED <<task, server>>, at' = "evaluate",
         NEW text, answers' = Longer(answers, text), faults \in Nat,
         \/ faults' = faults /\ text = Reply
         \/ faults' = faults /\ Spoiled
         \/ faults' = faults + 1
  PROVE  RobotInv'
<1>1. /\ DOMAIN answers = 1..Len(answers) /\ DOMAIN answers' = 1..(Len(answers) + 1)
      /\ Len(answers) \in Nat /\ IsList(answers') /\ Len(answers') = Len(answers) + 1
      /\ \A n \in DOMAIN answers : Truthful(n)' <=> Truthful(n)
      /\ \A n \in DOMAIN answers' : n = Len(answers) + 1 => (Truthful(n)' <=> text = Reply)
  BY TruthKept
<1>2. /\ Len(answers) <= 15
      /\ Len(answers) > 10 => Shortened /\ ~Same(Round(2))
      /\ faults = 0 => ~Spoiled /\ \A n \in DOMAIN answers : Truthful(n)
      /\ faults = 1 =>
           /\ Spoiled => \A n \in DOMAIN answers : Truthful(n)
           /\ \A m, n \in DOMAIN answers : ~Truthful(m) /\ ~Truthful(n) => m = n
  BY DEF RobotInv
<1>3. Len(answers) < 15
  <2>1. Len(answers) \div 5 # 3
    BY RobotTerms
  <2>. QED
    BY <1>1, <1>2, <2>1
<1>4. Len(answers) >= 10 => Short(answers) /\ ~Again(answers)
  <2>1. Len(answers) >= 10 => Len(answers) \div 5 = 2
    BY <1>1, <1>3
  <2>. QED
    BY <2>1, RobotTerms
<1>5. Len(answers') > 10 => Shortened' /\ ~Same(Round(2))'
  BY <1>1, <1>4, ShortKept, RobotTermsNext
<1>6. ~Spoiled'
  BY DEF Spoiled
<1>7. ASSUME faults' = 0, NEW n \in DOMAIN answers' PROVE Truthful(n)'
  <2>1. faults = 0 /\ ~Spoiled
    BY <1>2, <1>7
  <2>2. text = Reply
    BY <1>7, <2>1
  <2>3. CASE n = Len(answers) + 1
    BY <1>1, <2>2, <2>3
  <2>4. CASE n \in DOMAIN answers
    BY <1>1, <1>2, <2>1, <2>4
  <2>. QED
    BY <1>1, <2>3, <2>4
<1>8. ASSUME faults' = 1, NEW m \in DOMAIN answers', NEW n \in DOMAIN answers',
             ~Truthful(m)', ~Truthful(n)'
      PROVE  m = n
  <2>1. CASE \A k \in DOMAIN answers : Truthful(k)
    BY <1>1, <1>8, <2>1
  <2>2. CASE ~(\A k \in DOMAIN answers : Truthful(k))
    <3>1. faults = 1 /\ text = Reply
      BY <1>2, <1>8, <2>2
    <3>2. m # Len(answers) + 1 /\ n # Len(answers) + 1
      BY <1>1, <1>8, <3>1
    <3>3. m \in DOMAIN answers /\ n \in DOMAIN answers
      BY <1>1, <3>2
    <3>4. ~Truthful(m) /\ ~Truthful(n)
      BY <1>1, <1>8, <3>3
    <3>. QED
      BY <1>2, <3>1, <3>3, <3>4
  <2>. QED
    BY <2>1, <2>2
<1>9. Len(answers') <= 15
  BY <1>1, <1>3
<1>. QED
  BY <1>5, <1>6, <1>7, <1>8, <1>9 DEF RobotInv

\* Two rounds with the same messages
LEMMA TwoRounds ==
  ASSUME IsList(answers), RobotInv, task = "tls_robot", faults \in Nat,
         NEW k \in 1..2, Len(answers) >= 5 * k + 5, NEW flow,
         \A m \in 1..5 : Asked(5 * k - 5 + m) = Answer(flow, m) /\ Asked(5 * k + m) = Answer(flow, m)
  PROVE  /\ faults = 0 => \A m \in 1..5 : answers[5 * k - 5 + m] = answers[5 * k + m]
         /\ faults = 0 /\ Agree(answers, k) => Constant(flow)
         /\ /\ faults < 2 /\ ~Agree(answers, k)
            /\ \A m \in 1..5 : answers[5 * k - 5 + m] = answers[5 * k + m]
            => ~Constant(flow)
<1>1. DOMAIN answers = 1..Len(answers) /\ Len(answers) \in Nat
  BY ListFacts
<1>2. \A m \in 1..5 : 5 * k - 5 + m \in DOMAIN answers /\ 5 * k + m \in DOMAIN answers
  BY <1>1, SMTT(30)
<1>3. /\ faults = 0 => \A n \in DOMAIN answers : Truthful(n)
      /\ faults = 1 => \A i, n \in DOMAIN answers : ~Truthful(i) /\ ~Truthful(n) => i = n
  BY DEF RobotInv
<1>4. ASSUME faults = 0, NEW m \in 1..5
      PROVE  answers[5 * k - 5 + m] = Answer(flow, m) /\ answers[5 * k + m] = Answer(flow, m)
  BY <1>2, <1>3, <1>4 DEF Truthful
<1>5. ASSUME faults = 0, Agree(answers, k) PROVE Constant(flow)
  <2>1. ASSUME NEW m \in 1..5 PROVE Answer(flow, m) = Answer(flow, 1)
    <3>1. answers[5 * k - 5 + m] = answers[5 * k - 4]
      BY <1>5 DEF Agree
    <3>2. 5 * k - 5 + 1 = 5 * k - 4
      OBVIOUS
    <3>3. answers[5 * k - 5 + m] = Answer(flow, m)
      BY <1>4, <1>5
    <3>4. answers[5 * k - 5 + 1] = Answer(flow, 1)
      BY <1>4, <1>5
    <3>. QED
      BY <3>1, <3>2, <3>3, <3>4
  <2>. QED
    BY <2>1 DEF Constant, Answer, Messages
<1>6. ASSUME faults < 2, Constant(flow),
             \A m \in 1..5 : answers[5 * k - 5 + m] = answers[5 * k + m]
      PROVE  Agree(answers, k)
  <2>1. ASSUME NEW m \in 1..5 PROVE answers[5 * k - 5 + m] = Answer(flow, m)
    <3>1. PICK i, j : i = 5 * k - 5 + m /\ j = 5 * k + m
      OBVIOUS
    <3>2. /\ i \in DOMAIN answers /\ j \in DOMAIN answers /\ i # j
          /\ answers[i] = answers[j] /\ Asked(i) = Answer(flow, m) /\ Asked(j) = Answer(flow, m)
      <4>1. i \in DOMAIN answers /\ j \in DOMAIN answers
        BY <1>2, <3>1
      <4>2. i # j
        BY <3>1
      <4>3. answers[i] = answers[j]
        BY <1>6, <3>1
      <4>4. Asked(i) = Answer(flow, m) /\ Asked(j) = Answer(flow, m)
        BY <3>1
      <4>. QED
        BY <4>1, <4>2, <4>3, <4>4
    <3>3. faults = 0 \/ faults = 1
      BY <1>6
    <3>4. Truthful(i) \/ Truthful(j)
      BY <1>3, <3>2, <3>3
    <3>. QED
      BY <3>1, <3>2, <3>4 DEF Truthful
  <2>2. \A m \in 1..5 : Answer(flow, m) = Answer(flow, 1)
    BY <1>6 DEF Constant, Answer, Messages
  <2>3. 5 * k - 5 + 1 = 5 * k - 4
    OBVIOUS
  <2>4. answers[5 * k - 4] = Answer(flow, 1)
    <3>1. answers[5 * k - 5 + 1] = Answer(flow, 1)
      BY <2>1
    <3>. QED
      BY <2>3, <3>1
  <2>. QED
    BY <2>1, <2>2, <2>4 DEF Agree
<1>. QED
  BY <1>4, <1>5, <1>6

LEMMA RobotConcludes ==
  ASSUME IsList(answers), RobotInv, task = "tls_robot", AllAsked, faults \in Nat
  PROVE  /\ RobotVerdict \in {"True", "False", "None"}
         /\ RobotVerdict = "True" /\ faults < 2 => ~OracleFree
         /\ RobotVerdict = "False" /\ faults = 0 => OracleFree
         /\ RobotVerdict = "None" => faults > 0
<1>1. Len(answers) \in Nat /\ DOMAIN answers = 1..Len(answers) /\ Len(answers) <= 15
  BY ListFacts DEF RobotInv
<1>2. /\ Short(answers) <=> Len(answers) >= 5 /\ Agree(answers, 1)
      /\ Len(answers) >= 10 => (Again(answers) <=> Agree(answers, 2))
      /\ Shortened <=> Short(answers)
      /\ Same(Round(2)) <=> Again(answers)
      /\ Rounds = Len(answers) \div 5
  BY ShortIs, RobotTerms
<1>3. ASSUME NEW k \in 1..3, 5 * k <= Len(answers)
      PROVE  Round(k) = [m \in 1..5 |-> answers[5 * k - 5 + m]]
  <2>1. PICK five : five = RoundOf(answers, k)
    OBVIOUS
  <2>2. five = [m \in 1..5 |-> answers[5 * k - 5 + m]]
    BY <1>3, <2>1, Fives
  <2>3. Round(k) = five
    BY <2>1 DEF Round, RoundOf
  <2>. QED
    BY <2>2, <2>3
<1>4. ASSUME NEW k \in 1..2, 5 * k + 5 <= Len(answers)
      PROVE  Round(k + 1) = Round(k) <=> \A m \in 1..5 : answers[5 * k - 5 + m] = answers[5 * k + m]
  <2>1. PICK f : f = [m \in 1..5 |-> answers[5 * k - 5 + m]]
    OBVIOUS
  <2>2. PICK g : g = [m \in 1..5 |-> answers[5 * k + m]]
    OBVIOUS
  <2>3. Round(k) = f
    BY <1>1, <1>3, <1>4, <2>1
  <2>4. PICK l \in 1..3 : l = k + 1 /\ 5 * l <= Len(answers) /\ 5 * l - 5 = 5 * k
    BY <1>1, <1>4
  <2>5. Round(l) = g
    BY <1>3, <2>2, <2>4
  <2>6. g = f <=> \A m \in 1..5 : f[m] = g[m]
    BY <2>1, <2>2
  <2>. QED
    BY <2>1, <2>2, <2>3, <2>4, <2>5, <2>6
<1>5. ASSUME NEW m \in 1..5
      PROVE  /\ Asked(m) = Answer(FALSE, m)
             /\ ~Shortened => Asked(5 + m) = Answer(FALSE, m)
             /\ Shortened => Asked(5 + m) = Answer(TRUE, m) /\ Asked(10 + m) = Answer(TRUE, m)
  <2>1. ASSUME NEW n \in {m, 5 + m, 10 + m}
        PROVE  /\ n <= 5 \/ ~Shortened => Asked(n) = Answer(FALSE, m)
               /\ n > 5 /\ Shortened => Asked(n) = Answer(TRUE, m)
    <3>1. n \in Nat /\ n >= 1 /\ ((n - 1) % 5) + 1 = m
      OBVIOUS
    <3>. QED
      BY <3>1, AskedIs
  <2>2. m <= 5 /\ 5 + m > 5 /\ 10 + m > 5
    OBVIOUS
  <2>3. Asked(m) = Answer(FALSE, m)
    BY <2>1, <2>2
  <2>4. ~Shortened => Asked(5 + m) = Answer(FALSE, m)
    BY <2>1
  <2>5. Shortened => Asked(5 + m) = Answer(TRUE, m)
    BY <2>1, <2>2
  <2>6. Shortened => Asked(10 + m) = Answer(TRUE, m)
    BY <2>1, <2>2
  <2>. QED
    BY <2>3, <2>4, <2>5, <2>6
<1>6. CASE Rounds = 2 /\ Shortened /\ Same(Round(2))
  <2>1. RobotVerdict = "False"
    BY <1>6 DEF RobotVerdict
  <2>2. ASSUME faults = 0 PROVE OracleFree
    <3>1. Len(answers) >= 10 /\ Agree(answers, 1) /\ Agree(answers, 2)
      BY <1>1, <1>2, <1>6
    <3>2. \A n \in DOMAIN answers : Truthful(n)
      BY <2>2 DEF RobotInv
    <3>3. ASSUME NEW m \in 1..5
          PROVE  answers[m] = Answer(FALSE, m) /\ answers[5 + m] = Answer(TRUE, m)
      <4>1. m \in DOMAIN answers /\ 5 + m \in DOMAIN answers
        BY <1>1, <3>1
      <4>2. answers[m] = Asked(m) /\ answers[5 + m] = Asked(5 + m)
        BY <3>2, <4>1 DEF Truthful
      <4>. QED
        BY <1>5, <1>6, <4>2
    <3>4. \A m \in 1..5 : answers[m] = answers[1] /\ answers[5 + m] = answers[5 + 1]
      <4>1. ASSUME NEW m \in 1..5 PROVE answers[m] = answers[1] /\ answers[5 + m] = answers[5 + 1]
        <5>1. 5 * 1 - 5 + m = m /\ 5 * 1 - 4 = 1 /\ 5 * 2 - 5 + m = 5 + m /\ 5 * 2 - 4 = 5 + 1
          OBVIOUS
        <5>2. answers[5 * 1 - 5 + m] = answers[5 * 1 - 4] /\ answers[5 * 2 - 5 + m] = answers[5 * 2 - 4]
          BY <3>1 DEF Agree
        <5>. QED
          BY <5>1, <5>2
      <4>. QED
        BY <4>1
    <3>5. ASSUME NEW m \in 1..5
          PROVE  Answer(FALSE, m) = Answer(FALSE, 1) /\ Answer(TRUE, m) = Answer(TRUE, 1)
      <4>1. 1 \in 1..5
        OBVIOUS
      <4>. QED
        BY <3>3, <3>4, <4>1
    <3>. QED
      BY <3>5 DEF OracleFree, Constant, Answer, Messages
  <2>. QED
    BY <2>1, <2>2
<1>7. CASE ~(Rounds = 2 /\ Shortened /\ Same(Round(2)))
  <2>1. RobotVerdict = IF Round(Rounds) # Round(Rounds - 1) THEN "None" ELSE "True"
    BY <1>7 DEF RobotVerdict
  <2>2. \E k \in 1..2, flow \in BOOLEAN :
          /\ Rounds = k + 1 /\ Rounds - 1 = k /\ 5 * k + 5 <= Len(answers) /\ ~Agree(answers, k)
          /\ \A m \in 1..5 : Asked(5 * k - 5 + m) = Answer(flow, m) /\ Asked(5 * k + m) = Answer(flow, m)
    <3>1. CASE Rounds = 2
      <4>1. ~Shortened /\ Len(answers) >= 10 /\ ~Agree(answers, 1)
        BY <1>1, <1>2, <1>7, <3>1 DEF AllAsked
      <4>2. ASSUME NEW m \in 1..5
            PROVE  Asked(5 * 1 - 5 + m) = Answer(FALSE, m) /\ Asked(5 * 1 + m) = Answer(FALSE, m)
        <5>1. 5 * 1 - 5 + m = m /\ 5 * 1 + m = 5 + m
          OBVIOUS
        <5>. QED
          BY <1>5, <4>1, <5>1
      <4>3. Rounds = 1 + 1 /\ Rounds - 1 = 1 /\ 5 * 1 + 5 <= Len(answers) /\ 1 \in 1..2
        BY <1>1, <3>1, <4>1
      <4>. QED
        BY <4>1, <4>2, <4>3
    <3>2. CASE Rounds = 3
      <4>1. Len(answers) >= 15 /\ Len(answers) > 10
        BY <1>1, <1>2, <3>2
      <4>2. Shortened /\ ~Agree(answers, 2)
        BY <1>1, <1>2, <4>1 DEF RobotInv
      <4>3. ASSUME NEW m \in 1..5
            PROVE  Asked(5 * 2 - 5 + m) = Answer(TRUE, m) /\ Asked(5 * 2 + m) = Answer(TRUE, m)
        <5>1. 5 * 2 - 5 + m = 5 + m /\ 5 * 2 + m = 10 + m
          OBVIOUS
        <5>. QED
          BY <1>5, <4>2, <5>1
      <4>4. Rounds = 2 + 1 /\ Rounds - 1 = 2 /\ 5 * 2 + 5 <= Len(answers) /\ 2 \in 1..2
        BY <1>1, <3>2, <4>1
      <4>. QED
        BY <4>2, <4>3, <4>4
    <3>. QED
      BY <3>1, <3>2 DEF AllAsked
  <2>3. PICK k \in 1..2, flow \in BOOLEAN :
          /\ Rounds = k + 1 /\ Rounds - 1 = k /\ 5 * k + 5 <= Len(answers) /\ ~Agree(answers, k)
          /\ \A m \in 1..5 : Asked(5 * k - 5 + m) = Answer(flow, m) /\ Asked(5 * k + m) = Answer(flow, m)
    BY <2>2
  <2>4. Round(Rounds) = Round(Rounds - 1) <=> \A m \in 1..5 : answers[5 * k - 5 + m] = answers[5 * k + m]
    BY <1>4, <2>3
  <2>5. /\ faults = 0 => \A m \in 1..5 : answers[5 * k - 5 + m] = answers[5 * k + m]
        /\ /\ faults < 2
           /\ \A m \in 1..5 : answers[5 * k - 5 + m] = answers[5 * k + m]
           => ~Constant(flow)
    BY <1>1, <2>3, TwoRounds
  <2>6. OracleFree => Constant(flow)
    BY DEF OracleFree
  <2>7. RobotVerdict = "True" => Round(Rounds) = Round(Rounds - 1)
    BY <2>1
  <2>8. RobotVerdict = "None" => Round(Rounds) # Round(Rounds - 1)
    BY <2>1
  <2>9. RobotVerdict \in {"None", "True"}
    BY <2>1
  <2>. QED
    BY <2>4, <2>5, <2>6, <2>7, <2>8, <2>9
<1>. QED
  BY <1>6, <1>7

-----------------------------------------------------------------------------
(* What a step of a task keeps                                              *)

\* All that a task leaves alone
Fixed == UNCHANGED <<stage, chainVars, task, server, site, turn, asking, cache, http_states, read, decided>>
FaultsGrow == faults' = faults \/ faults' = faults + 1

LEMMA AnswersKept ==
  ASSUME UNCHANGED <<answers, server, task, http_states>>
  PROVE  /\ Shortened' <=> Shortened
         /\ Same(Round(2))' <=> Same(Round(2))
         /\ AllAsked' <=> AllAsked
         /\ \A n : Truthful(n)' <=> Truthful(n)
         /\ Reply' = Reply
         /\ Attempts' = Attempts
         /\ \A o : Outcome(o)' = Outcome(o)
<1>1. Shortened' <=> Shortened
  BY DEF Shortened, Rounds, Round
<1>2. Same(Round(2))' <=> Same(Round(2))
  BY DEF Round
<1>3. AllAsked' <=> AllAsked
  BY RobotTerms, RobotTermsNext
<1>4. ASSUME NEW n PROVE Truthful(n)' <=> Truthful(n)
  BY DEF Truthful, Asked, Shortened, Rounds, Round
<1>5. Reply' = Reply
  BY DEF Reply, Message, Shortened, Rounds, Round
<1>6. Attempts' = Attempts
  BY DEF Attempts
<1>7. ASSUME NEW o PROVE Outcome(o)' = Outcome(o)
  BY DEF Outcome, UpgradePage, LongHandshake, FakeVersion
<1>. QED
  BY <1>1, <1>2, <1>3, <1>4, <1>5, <1>6, <1>7

LEMMA RobotKept ==
  ASSUME RobotInv, UNCHANGED <<answers, server, task, http_states>>, faults \in Nat, FaultsGrow,
         at' \in {"oracle", "spinning"} => ~AllAsked,
         Spoiled' => faults' > 0 /\ (faults' = 1 => \A n \in DOMAIN answers : Truthful(n))
  PROVE  RobotInv'
<1>1. SUFFICES ASSUME task = "tls_robot" PROVE RobotInv'
  BY DEF RobotInv
<1>2. /\ Len(answers) <= 15
      /\ Len(answers) > 10 => Shortened /\ ~Same(Round(2))
      /\ faults = 0 => \A n \in DOMAIN answers : Truthful(n)
      /\ faults = 1 => \A m, n \in DOMAIN answers : ~Truthful(m) /\ ~Truthful(n) => m = n
  BY <1>1 DEF RobotInv
<1>3. /\ Shortened' <=> Shortened
      /\ Same(Round(2))' <=> Same(Round(2))
      /\ AllAsked' <=> AllAsked
      /\ \A n : Truthful(n)' <=> Truthful(n)
  BY AnswersKept
<1>4. ASSUME faults' = 0 PROVE ~Spoiled' /\ \A n \in DOMAIN answers' : Truthful(n)'
  <2>1. faults = 0
    BY <1>4 DEF FaultsGrow
  <2>. QED
    BY <1>2, <1>3, <1>4, <2>1
<1>5. ASSUME faults' = 1 PROVE Spoiled' => \A n \in DOMAIN answers' : Truthful(n)'
  BY <1>3, <1>5
<1>6. ASSUME faults' = 1, NEW m \in DOMAIN answers', NEW n \in DOMAIN answers',
             ~Truthful(m)', ~Truthful(n)'
      PROVE  m = n
  <2>1. ~Truthful(m) /\ ~Truthful(n)
    BY <1>3, <1>6
  <2>2. faults = 1
    BY <1>2, <1>6, <2>1 DEF FaultsGrow
  <2>. QED
    BY <1>2, <2>1, <2>2
<1>7. /\ Len(answers') <= 15
      /\ Len(answers') > 10 => Shortened' /\ ~Same(Round(2))'
      /\ at' \in {"oracle", "spinning"} => ~AllAsked'
  BY <1>2, <1>3
<1>. QED
  BY <1>4, <1>5, <1>6, <1>7 DEF RobotInv

LEMMA AttemptsKept ==
  ASSUME AttemptsInv, UNCHANGED <<answers, server, task, http_states>>, faults \in Nat, FaultsGrow
  PROVE  AttemptsInv'
<1>1. Attempts' = Attempts /\ \A o : Outcome(o)' = Outcome(o)
  BY AnswersKept
<1>2. faults > 0 => faults' > 0
  BY DEF FaultsGrow
<1>3. SUFFICES ASSUME task \in AttemptTasks PROVE AttemptsInv'
  BY DEF AttemptsInv
<1>4. Len(answers') <= Attempts'[task']
  BY <1>1, <1>3 DEF AttemptsInv
<1>5. ASSUME NEW n \in DOMAIN answers'
      PROVE  /\ answers'[n] \notin {"spinning", "blocked"}
             /\ \/ answers'[n] = Outcome(server.outcomes[n])'
                \/ faults' > 0 /\ \E o \in {"refused", "silent", "closes"} : answers'[n] = Outcome(o)'
  <2>1. /\ answers[n] \notin {"spinning", "blocked"}
        /\ \/ answers[n] = Outcome(server.outcomes[n])
           \/ faults > 0 /\ \E o \in {"refused", "silent", "closes"} : answers[n] = Outcome(o)
    BY <1>3, <1>5 DEF AttemptsInv
  <2>2. Outcome(server.outcomes[n])' = Outcome(server.outcomes[n])
    BY DEF Outcome, UpgradePage, LongHandshake, FakeVersion
  <2>. QED
    BY <1>1, <1>2, <2>1, <2>2
<1>6. IsFiniteSet(Bent') /\ Cardinality(Bent') <= faults'
  <2>1. ASSUME NEW n PROVE Outcome(server.outcomes[n])' = Outcome(server.outcomes[n])
    BY DEF Outcome, UpgradePage, LongHandshake, FakeVersion
  <2>2. Bent' = Bent
    BY <2>1 DEF Bent
  <2>3. IsFiniteSet(Bent) /\ Cardinality(Bent) <= faults
    BY <1>3 DEF AttemptsInv
  <2>4. Cardinality(Bent) \in Nat
    BY <2>3, FS_CardinalityType
  <2>. QED
    BY <2>2, <2>3, <2>4 DEF FaultsGrow
<1>. QED
  BY <1>4, <1>5, <1>6 DEF AttemptsInv

\* Every way a task ends keeps what is known of its answers.
LEMMA EndKeeps ==
  ASSUME TaskInv, stage = "tasks", Fixed, faults \in Nat, FaultsGrow, NEW v, End(v)
  PROVE  TaskInv'
<1>1. /\ at' = "ended" /\ alarm' = "off"
      /\ UNCHANGED <<answers, stage, task, server, http_states, asking>>
  BY DEF End, Exit, Fixed
<1>2. StageInv'
  BY <1>1 DEF TaskInv, StageInv
<1>3. PlaceInv'
  BY <1>1 DEF PlaceInv
<1>4. RobotInv'
  <2>1. ~Spoiled' /\ at' \notin {"oracle", "spinning"}
    BY <1>1 DEF Spoiled
  <2>. QED
    BY <1>1, <2>1, RobotKept DEF TaskInv
<1>5. CrimeInv'
  BY <1>1 DEF CrimeInv
<1>6. AttemptsInv'
  BY <1>1, AttemptsKept DEF TaskInv
<1>. QED
  BY <1>2, <1>3, <1>4, <1>5, <1>6 DEF TaskInv

LEMMA StillOpen ==
  ASSUME StageInv, at # "ended", verdict' = verdict
  PROVE  VerdictsEarned' /\ verdict' = "open"
BY DEF StageInv, VerdictsEarned

\* Only what concerns the task that runs has to be earned.
LEMMA EarnedFor ==
  /\ task' = "tls_robot" /\ RobotEarned' => VerdictsEarned'
  /\ task' = "crime_vuln" /\ CrimeEarned' => VerdictsEarned'
  /\ task' = "h2c" /\ UpgradeEarned' => VerdictsEarned'
  /\ task' = "long_handshake_intolerance" /\ LongHandshakeEarned' => VerdictsEarned'
  /\ task' = "version_intolerance" /\ VersionsEarned' => VerdictsEarned'
  /\ task' = "client_renegotiation" /\ RenegotiationEarned' => VerdictsEarned'
  /\ task' \in PageTasks /\ PagesEarned' => VerdictsEarned'
  /\ task' \in {"basic_constraints_path_length", "valid_certificate_chain"} => VerdictsEarned'
BY DEF VerdictsEarned, PageTasks, AllPages, AnyPage

-----------------------------------------------------------------------------
(* The steps of tls_robot and of the alarm                                  *)

LEMMA EnterRobotStep ==
  ASSUME TaskInv, stage = "tasks", Fixed, faults \in Nat, EnterRobot
  PROVE  TaskInv' /\ VerdictsEarned'
<1>1. task = "tls_robot" /\ at = "start" /\ faults' = faults /\ task' = "tls_robot" /\ FirstLeaf' = FirstLeaf
  BY DEF EnterRobot, Fixed, chainVars, FirstLeaf, Leaves
<1>2. ASSUME NEW v, End(v), v = "NotRelevant" \/ (v = "None" /\ FirstLeaf.type = "DSA")
      PROVE  TaskInv' /\ VerdictsEarned'
  <2>1. TaskInv'
    BY <1>1, <1>2, EndKeeps DEF FaultsGrow
  <2>2. verdict' = v
    BY <1>2 DEF End
  <2>3. RobotEarned'
    BY <1>1, <1>2, <2>2 DEF RobotEarned
  <2>. QED
    BY <1>1, <2>1, <2>3, EarnedFor
<1>3. ASSUME at' = "evaluate", Enter("evaluate"), UNCHANGED <<answers, pending, found, verdict>>
      PROVE  TaskInv' /\ VerdictsEarned'
  <2>1. UNCHANGED <<answers, stage, task, server, http_states, asking>>
    BY <1>3 DEF Fixed
  <2>2. StageInv' /\ VerdictsEarned'
    BY <1>1, <1>3, <2>1, StillOpen DEF TaskInv, StageInv
  <2>3. PlaceInv'
    BY <1>1, <1>3 DEF PlaceInv, AttemptTasks
  <2>4. RobotInv'
    BY <1>1, <1>3, <2>1, RobotKept DEF TaskInv, FaultsGrow, Spoiled
  <2>5. CrimeInv' /\ AttemptsInv'
    BY <1>1, <1>3 DEF CrimeInv, AttemptsInv, AttemptTasks
  <2>. QED
    BY <2>2, <2>3, <2>4, <2>5 DEF TaskInv
<1>4. \/ \E v : End(v) /\ (v = "NotRelevant" \/ (v = "None" /\ FirstLeaf.type = "DSA"))
      \/ at' = "evaluate" /\ Enter("evaluate") /\ UNCHANGED <<answers, pending, found, verdict>>
  <2>1. CASE Leaves = {} \/ FirstLeaf.type \notin {"RSA", "DSA"}
    BY <2>1 DEF EnterRobot
  <2>2. CASE Leaves # {} /\ FirstLeaf.type \in {"RSA", "DSA"} /\ FirstLeaf.type # "RSA"
    <3>1. End("None") /\ FirstLeaf.type = "DSA"
      BY <2>2 DEF EnterRobot
    <3>. QED
      BY <3>1
  <2>3. CASE Leaves # {} /\ FirstLeaf.type = "RSA"
    BY <2>3 DEF EnterRobot
  <2>. QED
    BY <2>1, <2>2, <2>3
<1>. QED
  BY <1>2, <1>3, <1>4

\* The loop of tls_robot goes on, nothing more than its place has changed.
LEMMA RobotMoves ==
  ASSUME TaskInv, stage = "tasks", Fixed, faults \in Nat, FaultsGrow, task = "tls_robot",
         at \in {"evaluate", "oracle"}, at' \in {"oracle", "spinning"}, ~AllAsked,
         Spoiled' => faults' = faults + 1, UNCHANGED <<answers, verdict>>
  PROVE  TaskInv' /\ VerdictsEarned'
<1>1. UNCHANGED <<answers, stage, task, server, http_states, asking>>
  BY DEF Fixed
<1>2. StageInv' /\ VerdictsEarned'
  BY <1>1, StillOpen DEF TaskInv, StageInv
<1>3. PlaceInv'
  BY <1>1 DEF PlaceInv, AttemptTasks
<1>4. RobotInv'
  <2>1. Spoiled' => faults' > 0 /\ (faults' = 1 => \A n \in DOMAIN answers : Truthful(n))
    BY DEF TaskInv, RobotInv
  <2>. QED
    BY <1>1, <2>1, RobotKept DEF TaskInv
<1>5. CrimeInv' /\ AttemptsInv'
  BY <1>1 DEF CrimeInv, AttemptsInv, AttemptTasks
<1>. QED
  BY <1>2, <1>3, <1>4, <1>5 DEF TaskInv

LEMMA RobotReturns ==
  ASSUME TaskInv, stage = "tasks", Fixed, faults \in Nat, task = "tls_robot",
         at \in {"oracle", "spinning"}, NEW text, Returned(text),
         \/ faults' = faults /\ text = Reply
         \/ faults' = faults /\ Spoiled
         \/ faults' = faults + 1
  PROVE  TaskInv' /\ VerdictsEarned'
<1>1. UNCHANGED <<stage, task, server, http_states, asking>>
  BY DEF Fixed
<1>2. answers' = Longer(answers, text) /\ at' = "evaluate" /\ verdict' = verdict
  BY DEF Returned, Longer
<1>3. ~AllAsked /\ IsList(answers)
  BY DEF TaskInv, RobotInv, StageInv
<1>4. IsList(answers')
  BY <1>2, <1>3, Appended
<1>5. StageInv' /\ VerdictsEarned'
  BY <1>1, <1>2, <1>4, StillOpen DEF TaskInv, StageInv
<1>6. PlaceInv'
  BY <1>1, <1>2 DEF PlaceInv, AttemptTasks
<1>7. RobotInv'
  BY <1>1, <1>2, <1>3, AnswerStep DEF TaskInv
<1>8. CrimeInv' /\ AttemptsInv'
  BY <1>1, <1>2 DEF CrimeInv, AttemptsInv, AttemptTasks
<1>. QED
  BY <1>5, <1>6, <1>7, <1>8 DEF TaskInv

LEMMA CallStep ==
  ASSUME TaskInv, stage = "tasks", Fixed, faults \in Nat, CallOracle
  PROVE  TaskInv' /\ VerdictsEarned'
<1>1. /\ task = "tls_robot" /\ at = "evaluate" /\ at' = "oracle" /\ ~AllAsked
      /\ UNCHANGED <<answers, verdict, faults>>
  BY DEF CallOracle
<1>2. ~Spoiled' /\ FaultsGrow
  BY <1>1 DEF Spoiled, FaultsGrow
<1>. QED
  BY <1>1, <1>2, RobotMoves

LEMMA RepliesStep ==
  ASSUME TaskInv, stage = "tasks", Fixed, faults \in Nat, OracleReplies
  PROVE  TaskInv' /\ VerdictsEarned'
<1>1. at = "oracle" /\ task = "tls_robot" /\ faults' = faults /\ ~AllAsked
  BY DEF OracleReplies, TaskInv, PlaceInv, RobotInv
<1>2. CASE Reply = "closes"
  <2>1. at' = "spinning" /\ UNCHANGED <<answers, verdict, server, task, http_states>>
    BY <1>2 DEF OracleReplies, Fixed
  <2>2. ~Spoiled' /\ FaultsGrow
    BY <1>1, <1>2, <2>1, AnswersKept DEF Spoiled, FaultsGrow
  <2>. QED
    BY <1>1, <2>1, <2>2, RobotMoves
<1>3. CASE Reply # "closes"
  <2>1. PICK text : text = Reply /\ Returned(text)
    BY <1>3 DEF OracleReplies
  <2>. QED
    BY <1>1, <2>1, RobotReturns
<1>. QED
  BY <1>2, <1>3

LEMMA FailsStep ==
  ASSUME TaskInv, stage = "tasks", Fixed, faults \in Nat, OracleFails
  PROVE  TaskInv' /\ VerdictsEarned'
<1>1. at = "oracle" /\ task = "tls_robot" /\ faults' = faults + 1 /\ ~AllAsked
  BY DEF OracleFails, Fault, TaskInv, PlaceInv, RobotInv
<1>2. CASE Returned("quiet")
  BY <1>1, <1>2, RobotReturns
<1>3. CASE at' = "spinning" /\ UNCHANGED <<alarm, answers, pending, found, verdict>>
  BY <1>1, <1>3, RobotMoves DEF FaultsGrow
<1>. QED
  BY <1>2, <1>3 DEF OracleFails

LEMMA AlarmStep ==
  ASSUME TaskInv, stage = "tasks", Fixed, faults \in Nat, AlarmRings
  PROVE  TaskInv' /\ VerdictsEarned'
<1>1. alarm # "off" /\ faults' = faults /\ task' = task /\ server' = server
  BY DEF AlarmRings, Fixed
<1>2. CASE at = "spinning" /\ Returned("closes")
  <2>1. task = "tls_robot"
    BY <1>1, <1>2 DEF TaskInv, PlaceInv
  <2>2. "closes" = Reply \/ Spoiled
    BY <1>2 DEF Spoiled
  <2>. QED
    BY <1>1, <1>2, <2>1, <2>2, RobotReturns
<1>3. CASE at = "search" /\ End("Timeout")
  <2>1. task = "crime_vuln" /\ server.ciphers # {}
    BY <1>3 DEF TaskInv, PlaceInv, CrimeInv
  <2>2. verdict' = "Timeout"
    BY <1>3 DEF End
  <2>3. CrimeEarned'
    BY <1>1, <2>1, <2>2 DEF CrimeEarned
  <2>4. TaskInv'
    BY <1>1, <1>3, EndKeeps DEF FaultsGrow
  <2>. QED
    BY <1>1, <2>1, <2>3, <2>4, EarnedFor
<1>. QED
  BY <1>2, <1>3 DEF AlarmRings

LEMMA EscapeStep ==
  ASSUME TaskInv, stage = "tasks", Fixed, faults \in Nat, AlarmEscapes
  PROVE  TaskInv' /\ VerdictsEarned'
<1>1. /\ at \in {"evaluate", "oracle"} /\ faults' = faults + 1 /\ End("Timeout")
      /\ task = "tls_robot" /\ task' = task
  BY DEF AlarmEscapes, Fault, Fixed, TaskInv, PlaceInv
<1>2. verdict' = "Timeout"
  BY <1>1 DEF End
<1>3. RobotEarned'
  BY <1>1, <1>2 DEF RobotEarned
<1>4. TaskInv'
  BY <1>1, EndKeeps DEF FaultsGrow
<1>. QED
  BY <1>1, <1>3, <1>4, EarnedFor

LEMMA ConcludeRobotStep ==
  ASSUME TaskInv, stage = "tasks", Fixed, faults \in Nat, ConcludeRobot
  PROVE  TaskInv' /\ VerdictsEarned'
<1>1. PICK v : v = RobotVerdict
  OBVIOUS
<1>2. /\ task = "tls_robot" /\ AllAsked /\ End(v) /\ faults' = faults
      /\ task' = task /\ server' = server
  BY <1>1 DEF ConcludeRobot, Fixed
<1>3. /\ v \in {"True", "False", "None"}
      /\ v = "True" /\ faults < 2 => ~OracleFree
      /\ v = "False" /\ faults = 0 => OracleFree
      /\ v = "None" => faults > 0
  BY <1>1, <1>2, RobotConcludes DEF TaskInv, StageInv
<1>4. verdict' = v /\ (OracleFree' <=> OracleFree)
  BY <1>2 DEF End, OracleFree, Constant
<1>5. RobotEarned'
  BY <1>2, <1>3, <1>4 DEF RobotEarned
<1>6. TaskInv'
  BY <1>2, EndKeeps DEF FaultsGrow
<1>. QED
  BY <1>2, <1>5, <1>6, EarnedFor

-----------------------------------------------------------------------------
(* The steps of crime_vuln                                                  *)

LEMMA Searching ==
  ASSUME TaskInv, stage = "tasks", Fixed, task = "crime_vuln", at # "ended", at' = "search",
         verdict' = verdict, IsList(answers'),
         server.ciphers # {}, pending' \in Nat, found' \in BOOLEAN, pending' > 0 \/ found'
  PROVE  TaskInv' /\ VerdictsEarned'
<1>1. UNCHANGED <<stage, task, server, http_states, asking>>
  BY DEF Fixed
<1>2. StageInv' /\ VerdictsEarned'
  BY <1>1, StillOpen DEF TaskInv, StageInv
<1>3. PlaceInv' /\ RobotInv' /\ AttemptsInv'
  BY <1>1 DEF PlaceInv, AttemptTasks, RobotInv, AttemptsInv
<1>4. CrimeInv'
  BY <1>1 DEF CrimeInv
<1>. QED
  BY <1>2, <1>3, <1>4 DEF TaskInv

LEMMA EnterCrimeStep ==
  ASSUME TaskInv, stage = "tasks", Fixed, faults \in Nat, EnterCrime
  PROVE  TaskInv' /\ VerdictsEarned'
<1>1. task = "crime_vuln" /\ at = "start" /\ faults' = faults /\ task' = task /\ server' = server
  BY DEF EnterCrime, Fixed
<1>2. CASE server.ciphers = {}
  <2>1. End("NotRelevant")
    BY <1>2 DEF EnterCrime
  <2>2. verdict' = "NotRelevant"
    BY <2>1 DEF End
  <2>3. CrimeEarned'
    BY <1>1, <1>2, <2>2 DEF CrimeEarned
  <2>4. TaskInv'
    BY <1>1, <2>1, EndKeeps DEF FaultsGrow
  <2>. QED
    BY <1>1, <2>3, <2>4, EarnedFor
<1>3. CASE server.ciphers # {}
  <2>1. at' = "search" /\ pending' = 1 /\ UNCHANGED <<answers, found, verdict>>
    BY <1>3 DEF EnterCrime
  <2>2. pending' \in Nat /\ pending' > 0 /\ found' \in BOOLEAN
    <3>1. found = FALSE
      BY <1>1 DEF TaskInv, StageInv
    <3>2. found' = FALSE
      BY <2>1, <3>1
    <3>3. found' \in BOOLEAN
      BY <3>2
    <3>4. pending' \in Nat /\ pending' > 0
      BY <2>1
    <3>. QED
      BY <3>3, <3>4
  <2>3. IsList(answers) /\ answers' = answers
    BY <2>1 DEF TaskInv, StageInv
  <2>. QED
    BY <1>1, <1>3, <2>1, <2>2, <2>3, Searching
<1>. QED
  BY <1>2, <1>3

LEMMA VisitStep ==
  ASSUME TaskInv, stage = "tasks", Fixed, Visit
  PROVE  TaskInv' /\ VerdictsEarned'
<1>1. at = "search" /\ pending > 0 /\ UNCHANGED <<at, answers, verdict>>
  BY DEF Visit
<1>2. task = "crime_vuln" /\ server.ciphers # {} /\ pending \in Nat /\ found \in BOOLEAN /\ IsList(answers')
  BY <1>1 DEF TaskInv, PlaceInv, CrimeInv, StageInv
<1>3. PICK children \in 0..(MaxPending + 1 - pending) :
             pending' = pending - 1 + children /\ found' = (found \/ children = 0)
  BY DEF Visit
<1>4. pending' \in Nat /\ found' \in BOOLEAN /\ (pending' > 0 \/ found')
  <2>1. MaxPending \in Nat
    BY ActiveTasksAssumption
  <2>2. children \in Nat /\ pending' \in Nat /\ (children # 0 => pending' > 0)
    BY <1>1, <1>2, <1>3, <2>1
  <2>3. children = 0 => found'
    BY <1>3
  <2>4. found' \in BOOLEAN
    BY <1>3
  <2>. QED
    BY <2>2, <2>3, <2>4
<1>. QED
  BY <1>1, <1>2, <1>4, Searching

LEMMA ConcludeCrimeStep ==
  ASSUME TaskInv, stage = "tasks", Fixed, faults \in Nat, ConcludeCrime
  PROVE  TaskInv' /\ VerdictsEarned'
<1>1. at = "search" /\ pending = 0 /\ faults' = faults
  BY DEF ConcludeCrime
<1>2. task = "crime_vuln" /\ server.ciphers # {} /\ found
  BY <1>1 DEF TaskInv, PlaceInv, CrimeInv
<1>3. End("True") /\ verdict' = "True" /\ task' = task /\ server' = server
  BY <1>2 DEF ConcludeCrime, End, Fixed
<1>4. CrimeEarned'
  BY <1>2, <1>3 DEF CrimeEarned
<1>5. TaskInv'
  BY <1>1, <1>3, EndKeeps DEF FaultsGrow
<1>. QED
  BY <1>2, <1>3, <1>4, <1>5, EarnedFor

-----------------------------------------------------------------------------
(* The steps of the tasks that make attempts                                *)

\* The task goes on or hangs, with the answers it has.
LEMMA Attempting ==
  ASSUME TaskInv, stage = "tasks", Fixed, faults \in Nat, FaultsGrow, task \in AttemptTasks,
         at # "ended", at' \in {"attempts", "spinning", "blocked"},
         UNCHANGED <<alarm, verdict>>, IsList(answers'), AttemptsInv'
  PROVE  TaskInv' /\ VerdictsEarned'
<1>1. UNCHANGED <<stage, task, server, http_states, asking>>
  BY DEF Fixed
<1>2. StageInv' /\ VerdictsEarned'
  BY <1>1, StillOpen DEF TaskInv, StageInv
<1>3. PlaceInv' /\ RobotInv' /\ CrimeInv'
  BY <1>1 DEF TaskInv, PlaceInv, AttemptTasks, RobotInv, CrimeInv
<1>. QED
  BY <1>2, <1>3 DEF TaskInv

LEMMA EnterAttemptsStep ==
  ASSUME TaskInv, stage = "tasks", Fixed, faults \in Nat, EnterAttempts
  PROVE  TaskInv' /\ VerdictsEarned'
<1>1. /\ task \in AttemptTasks /\ at = "start" /\ at' = "attempts"
      /\ UNCHANGED <<alarm, answers, verdict, faults>>
  BY DEF EnterAttempts, Attempts, AttemptTasks
<1>2. UNCHANGED <<server, task, http_states>> /\ FaultsGrow /\ IsList(answers')
  BY <1>1 DEF Fixed, FaultsGrow, TaskInv, StageInv
<1>3. AttemptsInv'
  BY <1>1, <1>2, AttemptsKept DEF TaskInv
<1>. QED
  BY <1>1, <1>2, <1>3, Attempting

LEMMA AttemptStep ==
  ASSUME TaskInv, stage = "tasks", Fixed, faults \in Nat, Attempt,
         Attempts[task] \in Nat
  PROVE  TaskInv' /\ VerdictsEarned'
<1>1. at = "attempts" /\ Len(answers) < Attempts[task] /\ task \in AttemptTasks /\ IsList(answers)
  BY DEF Attempt, TaskInv, PlaceInv, StageInv
<1>2. UNCHANGED <<server, task, http_states>>
  BY DEF Fixed
<1>3. PICK n : n = Len(answers) + 1
  OBVIOUS
<1>4. PICK result :
        /\ Attempted(result) /\ FaultsGrow
        /\ \/ result = Outcome(server.outcomes[n])
           \/ /\ faults' = faults + 1 /\ faults' > 0
              /\ \E o \in {"refused", "silent", "closes"} : result = Outcome(o)
  <2>1. CASE Attempted(Outcome(server.outcomes[n])) /\ UNCHANGED faults
    BY <2>1 DEF FaultsGrow
  <2>2. CASE Fault /\ \E o \in {"refused", "silent", "closes"} : Attempted(Outcome(o))
    <3>1. faults' = faults + 1 /\ faults' > 0
      BY <2>2 DEF Fault
    <3>. QED
      BY <2>2, <3>1 DEF FaultsGrow
  <2>. QED
    BY <1>3, <2>1, <2>2 DEF Attempt
<1>5. UNCHANGED <<alarm, verdict>>
  BY <1>4 DEF Attempted
<1>6. CASE result \in {"spinning", "blocked"}
  <2>1. at' \in {"spinning", "blocked"} /\ answers' = answers
    BY <1>4, <1>6 DEF Attempted
  <2>2. AttemptsInv'
    BY <1>2, <1>4, <2>1, AttemptsKept DEF TaskInv
  <2>. QED
    BY <1>1, <1>4, <1>5, <2>1, <2>2, Attempting
<1>7. CASE result \notin {"spinning", "blocked"}
  <2>1. at' = "attempts" /\ answers' = Longer(answers, result)
    BY <1>1, <1>4, <1>7 DEF Attempted, Longer
  <2>2. /\ IsList(answers') /\ Len(answers') = Len(answers) + 1 /\ answers'[Len(answers) + 1] = result
        /\ \A i \in 1..Len(answers) : answers'[i] = answers[i]
    BY <1>1, <2>1, Appended
  <2>3. Len(answers) \in Nat /\ DOMAIN answers = 1..Len(answers) /\ DOMAIN answers' = 1..(Len(answers) + 1)
    BY <1>1, <2>2, ListFacts
  <2>4. \A o : Outcome(o)' = Outcome(o)
    <3>1. ASSUME NEW o PROVE Outcome(o)' = Outcome(o)
      BY <1>2 DEF Outcome, UpgradePage, LongHandshake, FakeVersion
    <3>. QED
      BY <3>1
  <2>5. ASSUME NEW i \in DOMAIN answers'
        PROVE  /\ answers'[i] \notin {"spinning", "blocked"}
               /\ \/ answers'[i] = Outcome(server.outcomes[i])
                  \/ faults' > 0 /\ \E o \in {"refused", "silent", "closes"} : answers'[i] = Outcome(o)
    <3>1. CASE i = n
      BY <1>3, <1>4, <1>7, <2>2, <3>1
    <3>2. CASE i \in 1..Len(answers)
      <4>1. /\ answers[i] \notin {"spinning", "blocked"}
            /\ \/ answers[i] = Outcome(server.outcomes[i])
               \/ faults > 0 /\ \E o \in {"refused", "silent", "closes"} : answers[i] = Outcome(o)
        BY <1>1, <2>3, <3>2 DEF TaskInv, AttemptsInv
      <4>2. answers'[i] = answers[i] /\ (faults > 0 => faults' > 0)
        BY <1>4, <2>2, <3>2 DEF FaultsGrow
      <4>. QED
        BY <4>1, <4>2
    <3>. QED
      BY <1>3, <2>3, <3>1, <3>2
  <2>6. Attempts' = Attempts /\ Len(answers') <= Attempts[task]
    BY <1>1, <1>2, <2>2, <2>3 DEF Attempts
  <2>7. \A i : Outcome(server.outcomes[i])' = Outcome(server.outcomes[i])
    <3>1. ASSUME NEW i PROVE Outcome(server.outcomes[i])' = Outcome(server.outcomes[i])
      BY <1>2 DEF Outcome, UpgradePage, LongHandshake, FakeVersion
    <3>. QED
      BY <3>1
  <2>8. IsFiniteSet(Bent') /\ Cardinality(Bent') <= faults'
    <3>1. IsFiniteSet(Bent) /\ Cardinality(Bent) \in Nat /\ Cardinality(Bent) <= faults
      BY <1>1, FS_CardinalityType DEF TaskInv, AttemptsInv
    <3>2. ASSUME NEW i \in Bent', i # n PROVE i \in Bent
      <4>1. i \in 1..Len(answers) /\ answers'[i] = answers[i]
        BY <1>3, <2>2, <2>3, <3>2 DEF Bent
      <4>. QED
        BY <2>3, <2>7, <3>2, <4>1 DEF Bent
    <3>3. CASE result = Outcome(server.outcomes[n])
      <4>1. n \notin Bent'
        BY <1>3, <2>2, <2>7, <3>3 DEF Bent
      <4>2. Bent' \subseteq Bent
        BY <3>2, <4>1
      <4>3. IsFiniteSet(Bent') /\ Cardinality(Bent') <= Cardinality(Bent) /\ Cardinality(Bent') \in Nat
        BY <3>1, <4>2, FS_Subset, FS_CardinalityType
      <4>. QED
        BY <1>4, <3>1, <4>3 DEF FaultsGrow
    <3>4. CASE faults' = faults + 1
      <4>1. Bent' \subseteq Bent \cup {n}
        BY <3>2
      <4>2. IsFiniteSet(Bent \cup {n}) /\ Cardinality(Bent \cup {n}) <= Cardinality(Bent) + 1
            /\ Cardinality(Bent \cup {n}) \in Nat
        BY <3>1, FS_AddElement, FS_CardinalityType, SMTT(30)
      <4>3. IsFiniteSet(Bent') /\ Cardinality(Bent') <= Cardinality(Bent \cup {n}) /\ Cardinality(Bent') \in Nat
        BY <4>1, <4>2, FS_Subset, FS_CardinalityType
      <4>. QED
        BY <3>1, <3>4, <4>2, <4>3
    <3>. QED
      BY <1>4, <3>3, <3>4
  <2>9. AttemptsInv'
    BY <1>2, <2>4, <2>5, <2>6, <2>7, <2>8 DEF AttemptsInv
  <2>. QED
    BY <1>1, <1>4, <1>5, <2>1, <2>2, <2>9, Attempting
<1>. QED
  BY <1>6, <1>7

LEMMA HangStep ==
  ASSUME TaskInv, PagesInv, stage = "tasks", Fixed, Hang, VerdictsEarned
  PROVE  TaskInv' /\ VerdictsEarned'
<1>1. UNCHANGED <<at, alarm, answers, pending, found, verdict, faults, task, server, http_states,
                  stage, asking>>
  BY DEF Hang, Fixed
<1>2. at # "ended" /\ faults \in Nat
  BY DEF Hang, PagesInv, TurnInv
<1>3. StageInv' /\ VerdictsEarned'
  BY <1>1, <1>2, StillOpen DEF TaskInv, StageInv
<1>4. PlaceInv' /\ CrimeInv'
  BY <1>1 DEF TaskInv, PlaceInv, CrimeInv
<1>5. AttemptsInv'
  BY <1>1, <1>2, AttemptsKept DEF TaskInv, FaultsGrow
<1>6. RobotInv'
  <2>1. CASE task = "tls_robot"
    <3>1. Spoiled' <=> Spoiled
      BY <1>1, AnswersKept DEF Spoiled
    <3>2. at \in {"oracle", "spinning"} => ~AllAsked
      BY <2>1 DEF TaskInv, RobotInv
    <3>3. Spoiled => faults > 0 /\ (faults = 1 => \A n \in DOMAIN answers : Truthful(n))
      BY <1>2, <2>1 DEF TaskInv, RobotInv
    <3>. QED
      BY <1>1, <1>2, <3>1, <3>2, <3>3, RobotKept DEF TaskInv, FaultsGrow
  <2>2. CASE task # "tls_robot"
    BY <1>1, <2>2 DEF RobotInv
  <2>. QED
    BY <2>1, <2>2
<1>. QED
  BY <1>3, <1>4, <1>5, <1>6 DEF TaskInv

\* What h2c, long_handshake_intolerance and version_intolerance make of what
\* comes back.  A fault makes nothing look like an upgrade, nor the second look
\* like a negotiation.
LEMMA Outcomes3 ==
  /\ \A o : UpgradePage(o) = "True" <=> o = "upgrade"
  /\ "SSLv3" \notin server.build => \A o : LongHandshake(o) # "True"
  /\ "SSLv3" \in server.build =>
       /\ LongHandshake("negotiated") # "True"
       /\ \A o : LongHandshake(o) \notin {"True", "spinning", "blocked"} => o = "negotiated"
  /\ "fake versions" \notin server.build => \A o : FakeVersion(o) = "True"
  /\ \A o : o \notin {"negotiated", "closes"} => FakeVersion(o) = "True"
  /\ "fake versions" \in server.build => \A o : FakeVersion(o) = "True" => o \notin {"negotiated", "closes"}
<1>1. \A o : UpgradePage(o) = "True" <=> o = "upgrade"
  <2>1. ASSUME NEW o PROVE UpgradePage(o) = "True" <=> o = "upgrade"
    BY DEF UpgradePage
  <2>. QED
    BY <2>1
<1>2. "SSLv3" \notin server.build => \A o : LongHandshake(o) # "True"
  BY DEF LongHandshake
<1>3. "SSLv3" \in server.build => LongHandshake("negotiated") # "True"
  BY DEF LongHandshake
<1>4. ASSUME "SSLv3" \in server.build, NEW o, LongHandshake(o) \notin {"True", "spinning", "blocked"}
      PROVE  o = "negotiated"
  BY <1>4 DEF LongHandshake
<1>5. "fake versions" \notin server.build => \A o : FakeVersion(o) = "True"
  BY DEF FakeVersion
<1>6. \A o : o \notin {"negotiated", "closes"} => FakeVersion(o) = "True"
  BY DEF FakeVersion
<1>7. "fake versions" \in server.build => \A o : FakeVersion(o) = "True" => o \notin {"negotiated", "closes"}
  BY DEF FakeVersion
<1>. QED
  BY <1>1, <1>2, <1>3, <1>4, <1>5, <1>6, <1>7

LEMMA ConcludeAttemptsStep ==
  ASSUME TaskInv, stage = "tasks", Fixed, faults \in Nat, ConcludeAttempts, IsList(http_states)
  PROVE  TaskInv' /\ VerdictsEarned'
<1>1. PICK yes : yes = (\E n \in DOMAIN answers : answers[n] = "True")
  OBVIOUS
<1>2. PICK v : v = IF yes THEN "True" ELSE "False"
  OBVIOUS
<1>3. /\ at = "attempts" /\ Len(answers) = Attempts[task] /\ task \in AttemptTasks
      /\ faults' = faults /\ task' = task /\ server' = server /\ http_states' = http_states
  BY DEF ConcludeAttempts, Fixed, TaskInv, PlaceInv
<1>4. End(v)
  BY <1>1, <1>2 DEF ConcludeAttempts
<1>5. verdict' = v
  BY <1>4 DEF End
<1>6. TaskInv'
  BY <1>3, <1>4, EndKeeps DEF FaultsGrow
<1>7. DOMAIN answers = 1..Len(answers)
  BY ListFacts DEF TaskInv, StageInv
<1>8. \A n \in DOMAIN answers :
        /\ answers[n] \notin {"spinning", "blocked"}
        /\ \/ answers[n] = Outcome(server.outcomes[n])
           \/ faults > 0 /\ \E o \in {"refused", "silent", "closes"} : answers[n] = Outcome(o)
  BY <1>3 DEF TaskInv, AttemptsInv
<1>9. v = "True" <=> \E n \in DOMAIN answers : answers[n] = "True"
  BY <1>1, <1>2
<1>10. v \in {"True", "False"}
  BY <1>2
<1>11. CASE task = "h2c"
  <2>1. DOMAIN answers = DOMAIN http_states
    BY <1>3, <1>7, <1>11, ListFacts DEF Attempts
  <2>2. \A o : Outcome(o) = UpgradePage(o)
    BY <1>11 DEF Outcome
  <2>3. v = "True" => \E n \in DOMAIN http_states : server.outcomes[n] = "upgrade"
    BY <1>8, <1>9, <2>1, <2>2, Outcomes3
  <2>4. ASSUME faults = 0, NEW n \in DOMAIN http_states, server.outcomes[n] = "upgrade"
        PROVE  v = "True"
    <3>1. ~(faults > 0) /\ n \in DOMAIN answers
      BY <2>1, <2>4
    <3>2. answers[n] = UpgradePage(server.outcomes[n])
      BY <1>8, <2>2, <3>1
    <3>3. answers[n] = "True"
      BY <2>4, <3>2, Outcomes3
    <3>. QED
      BY <1>9, <3>1, <3>3
  <2>5. UpgradeEarned'
    BY <1>3, <1>5, <2>3, <2>4 DEF UpgradeEarned
  <2>. QED
    BY <1>3, <1>6, <1>11, <2>5, EarnedFor
<1>12. CASE task = "long_handshake_intolerance"
  <2>1. DOMAIN answers = 1..5
    BY <1>3, <1>7, <1>12 DEF Attempts
  <2>2. \A o : Outcome(o) = LongHandshake(o)
    BY <1>12 DEF Outcome
  <2>3. "SSLv3" \notin server.build => v = "False"
    BY <1>8, <1>9, <1>10, <2>2, Outcomes3
  <2>4. ASSUME "SSLv3" \in server.build, v = "False", NEW n \in 1..5
        PROVE  server.outcomes[n] = "negotiated"
    <3>1. answers[n] \notin {"True", "spinning", "blocked"}
      BY <1>8, <1>9, <2>1, <2>4
    <3>2. ~(\E o \in {"refused", "silent", "closes"} : answers[n] = LongHandshake(o))
      BY <2>4, <3>1, Outcomes3
    <3>3. answers[n] = LongHandshake(server.outcomes[n])
      BY <1>8, <2>1, <2>2, <3>2
    <3>. QED
      BY <2>4, <3>1, <3>3, Outcomes3
  <2>5. ASSUME v = "True", faults = 0, Outcomes = {"negotiated"} PROVE FALSE
    <3>1. PICK n \in 1..5 : answers[n] = "True" /\ answers[n] = LongHandshake(server.outcomes[n])
      BY <1>8, <1>9, <2>1, <2>2, <2>5
    <3>2. server.outcomes[n] = "negotiated"
      BY <2>5 DEF Outcomes
    <3>. QED
      BY <3>1, <3>2, Outcomes3
  <2>6. "SSLv3" \in server.build /\ v = "False" => Outcomes = {"negotiated"}
    <3>1. ASSUME "SSLv3" \in server.build, v = "False" PROVE Outcomes = {"negotiated"}
      <4>1. \A n \in 1..5 : server.outcomes[n] = "negotiated"
        BY <2>4, <3>1
      <4>2. 1 \in 1..5
        OBVIOUS
      <4>. QED
        BY <4>1, <4>2 DEF Outcomes
    <3>. QED
      BY <3>1
  <2>7. Outcomes' = Outcomes
    BY <1>3 DEF Outcomes
  <2>8. LongHandshakeEarned'
    <3>1. v = "True" => faults > 0 \/ Outcomes # {"negotiated"}
      BY <2>5
    <3>. QED
      BY <1>3, <1>5, <2>3, <2>6, <2>7, <3>1 DEF LongHandshakeEarned
  <2>. QED
    BY <1>3, <1>6, <1>12, <2>8, EarnedFor
<1>13. CASE task = "version_intolerance"
  <2>1. DOMAIN answers = 1..5
    BY <1>3, <1>7, <1>13 DEF Attempts
  <2>2. \A o : Outcome(o) = FakeVersion(o)
    BY <1>13 DEF Outcome
  <2>3. ASSUME "fake versions" \notin server.build PROVE v = "True"
    <3>1. \A o : Outcome(o) = "True"
      BY <2>2, <2>3, Outcomes3
    <3>2. 1 \in DOMAIN answers
      BY <2>1
    <3>3. answers[1] = "True"
      BY <1>8, <3>1, <3>2, Zenon
    <3>. QED
      BY <1>9, <3>2, <3>3, Zenon
  <2>4. v = "False" => Cardinality(Rejections) <= faults
    <3>1. IsFiniteSet(Bent) /\ Cardinality(Bent) \in Nat /\ Cardinality(Bent) <= faults
      BY <1>3, FS_CardinalityType DEF TaskInv, AttemptsInv
    <3>2. ASSUME v = "False", NEW n \in Rejections PROVE n \in Bent
      <4>1. n \in DOMAIN answers /\ answers[n] # "True"
        BY <1>9, <2>1, <3>2 DEF Rejections
      <4>2. Outcome(server.outcomes[n]) = "True"
        BY <2>2, <3>2, Outcomes3 DEF Rejections
      <4>. QED
        BY <4>1, <4>2 DEF Bent
    <3>3. v = "False" => Cardinality(Rejections) <= Cardinality(Bent) /\ Cardinality(Rejections) \in Nat
      BY <3>1, <3>2, FS_Subset, FS_CardinalityType
    <3>. QED
      BY <3>1, <3>3
  <2>5. ASSUME v = "True", faults = 0, "fake versions" \in server.build PROVE Rejections # {}
    <3>1. PICK n \in DOMAIN answers : answers[n] = "True"
      BY <1>9, <2>5
    <3>2. ~(faults > 0)
      <4>1. faults = 0
        BY <2>5, Zenon
      <4>. QED
        BY <4>1
    <3>3. FakeVersion(server.outcomes[n]) = "True"
      BY <1>8, <2>2, <3>1, <3>2, Zenon
    <3>4. n \in Rejections
      BY <2>1, <2>5, <3>3, Outcomes3 DEF Rejections
    <3>. QED
      BY <3>4
  <2>6. VersionsEarned'
    <3>1. Rejections' = Rejections
      BY <1>3 DEF Rejections
    <3>. QED
      BY <1>3, <1>5, <2>3, <2>4, <2>5, <3>1 DEF VersionsEarned
  <2>. QED
    BY <1>3, <1>6, <1>13, <2>6, EarnedFor
<1>. QED
  BY <1>3, <1>11, <1>12, <1>13 DEF AttemptTasks

LEMMA RenegotiateStep ==
  ASSUME TaskInv, stage = "tasks", Fixed, faults \in Nat, Renegotiate
  PROVE  TaskInv' /\ VerdictsEarned'
<1>1. PICK v : /\ End(v) /\ FaultsGrow
               /\ v = "True" => server.outcomes[1] \in Renegotiable
               /\ v = "False" /\ faults' = 0 => server.outcomes[1] \notin Renegotiable
               /\ v = "error" => faults' > 0
  <2>1. CASE UNCHANGED faults /\ End(IF server.outcomes[1] \in Renegotiable THEN "True" ELSE "False")
    <3>1. PICK v : v = IF server.outcomes[1] \in Renegotiable THEN "True" ELSE "False"
      OBVIOUS
    <3>2. /\ v = "True" => server.outcomes[1] \in Renegotiable
          /\ v = "False" => server.outcomes[1] \notin Renegotiable
          /\ v # "error"
      BY <3>1
    <3>. QED
      BY <2>1, <3>1, <3>2 DEF FaultsGrow
  <2>2. CASE Fault /\ (End("False") \/ End("error"))
    <3>1. faults' = faults + 1 /\ faults' > 0
      BY <2>2 DEF Fault
    <3>. QED
      BY <2>2, <3>1 DEF FaultsGrow
  <2>. QED
    BY <2>1, <2>2 DEF Renegotiate
<1>2. task = "client_renegotiation" /\ task' = task /\ server' = server /\ verdict' = v
  BY <1>1 DEF Renegotiate, Fixed, End
<1>3. RenegotiationEarned'
  BY <1>1, <1>2 DEF RenegotiationEarned
<1>4. TaskInv'
  BY <1>1, EndKeeps
<1>. QED
  BY <1>2, <1>3, <1>4, EarnedFor

-----------------------------------------------------------------------------
(* The evaluations of recorded pages                                        *)

\* A page is recorded only if the site answers with it, and as long as
\* nothing goes wrong every page that robots.txt does not name is recorded.
LEMMA Recorded ==
  ASSUME PagesInv, asking = "done"
  PROVE  /\ \A k \in DOMAIN http_states : \E i \in DOMAIN site.paths :
              http_states[k] = site.paths[i] /\ Status(PageRequest(site.paths[i])) = 200
         /\ faults = 0 => \A i \in DOMAIN site.paths :
              Status(PageRequest(site.paths[i])) = 200 /\ ~NamedByRobots(site.paths[i]) =>
                \E k \in DOMAIN http_states : http_states[k] = site.paths[i]
<1>1. DOMAIN decided = DOMAIN site.paths /\ DOMAIN decided = 1..Len(decided) /\ Len(decided) \in Nat
      /\ DOMAIN http_states = 1..Cardinality(Fetched)
  <2>1. Len(site.paths) \in Nat /\ DOMAIN site.paths = 1..Len(site.paths)
    BY ListFacts DEF PagesInv, SiteInv
  <2>2. IsList(decided) /\ Len(decided) = Len(site.paths)
    BY <2>1 DEF PagesInv, TurnInv
  <2>3. DOMAIN decided = 1..Len(decided)
    BY <2>2, ListFacts
  <2>4. IsList(http_states) /\ Len(http_states) = Cardinality(Fetched)
    BY DEF PagesInv, RecordedInv
  <2>5. DOMAIN http_states = 1..Len(http_states)
    BY <2>4, ListFacts
  <2>. QED
    BY <2>1, <2>2, <2>3, <2>4, <2>5
<1>2. ASSUME NEW k \in DOMAIN http_states
      PROVE  \E i \in DOMAIN site.paths :
               http_states[k] = site.paths[i] /\ Status(PageRequest(site.paths[i])) = 200
  <2>1. PICK i \in Fetched : http_states[k] = decided[i].path
    BY DEF PagesInv, RecordedInv
  <2>2. i \in DOMAIN decided /\ decided[i].how = "fetched"
    BY DEF Fetched
  <2>3. decided[i].path = site.paths[i] /\ Status(PageRequest(decided[i].path)) = 200
    BY <2>2 DEF PagesInv, DecidedInv
  <2>. QED
    BY <1>1, <2>1, <2>2, <2>3
<1>3. ASSUME faults = 0, NEW i \in DOMAIN site.paths,
             Status(PageRequest(site.paths[i])) = 200, ~NamedByRobots(site.paths[i])
      PROVE  \E k \in DOMAIN http_states : http_states[k] = site.paths[i]
  <2>1. i \in DOMAIN decided
    BY <1>1
  <2>2. /\ decided[i].path = site.paths[i]
        /\ decided[i].how \in {"refused", "fetched", "failed"}
        /\ decided[i].how = "refused" => NamedByRobots(decided[i].path)
        /\ decided[i].how = "failed" /\ faults = 0 => Status(PageRequest(decided[i].path)) # 200
    BY <2>1 DEF PagesInv, DecidedInv
  <2>3. decided[i].how = "fetched"
    BY <1>3, <2>2
  <2>4. i \in Fetched
    BY <2>1, <2>3 DEF Fetched
  <2>5. Fetched \in SUBSET (1..Len(decided))
    BY <1>1 DEF Fetched
  <2>6. Place(Fetched, i) \in DOMAIN http_states
    BY <1>1, <2>4, <2>5, Places
  <2>7. http_states[Place(Fetched, i)] = site.paths[i]
    BY <2>2, <2>4 DEF PagesInv, RecordedInv
  <2>. QED
    BY <2>6, <2>7
<1>. QED
  BY <1>2, <1>3

\* PagesEarned of a verdict
PagesMerit(v) ==
  LET all == {i \in DOMAIN site.paths : Status(PageRequest(site.paths[i])) = 200}
      seen == {i \in all : ~NamedByRobots(site.paths[i])}
  IN /\ task \notin AnyPage =>
          /\ v = "False" => \E i \in all : ~Says(task, Headers(site.paths[i]))
          /\ v = "True" /\ faults = 0 => \A i \in seen : Says(task, Headers(site.paths[i]))
     /\ task \in AnyPage =>
          /\ v = "True" => \E i \in all : Says(task, Headers(site.paths[i]))
          /\ v = "False" /\ faults = 0 => \A i \in seen : ~Says(task, Headers(site.paths[i]))

LEMMA PagesJudged ==
  ASSUME PagesInv, asking = "done", NEW v, v = PageVerdict(task)
  PROVE  PagesMerit(v)
<1> DEFINE all == {i \in DOMAIN site.paths : Status(PageRequest(site.paths[i])) = 200}
           seen == {i \in all : ~NamedByRobots(site.paths[i])}
<1>1. \A k \in DOMAIN http_states : \E i \in all : http_states[k] = site.paths[i]
  BY Recorded
<1>2. faults = 0 => \A i \in seen : \E k \in DOMAIN http_states : http_states[k] = site.paths[i]
  BY Recorded
<1>3. CASE task \notin AnyPage
  <2>1. v = "True" <=> \A k \in DOMAIN http_states : Says(task, Headers(http_states[k]))
    BY <1>3 DEF PageVerdict
  <2>2. v = "False" => ~(\A k \in DOMAIN http_states : Says(task, Headers(http_states[k])))
    BY <1>3 DEF PageVerdict
  <2>3. v = "False" => \E i \in all : ~Says(task, Headers(site.paths[i]))
    BY <1>1, <2>2
  <2>4. v = "True" /\ faults = 0 => \A i \in seen : Says(task, Headers(site.paths[i]))
    BY <1>2, <2>1
  <2>. QED
    BY <1>3, <2>3, <2>4 DEF PagesMerit
<1>4. CASE task \in AnyPage
  <2>1. v = "True" => \E k \in DOMAIN http_states : Says(task, Headers(http_states[k]))
    BY <1>4 DEF PageVerdict
  <2>2. v = "False" => ~(\E k \in DOMAIN http_states : Says(task, Headers(http_states[k])))
    BY <1>4 DEF PageVerdict
  <2>3. v = "True" => \E i \in all : Says(task, Headers(site.paths[i]))
    BY <1>1, <2>1
  <2>4. v = "False" /\ faults = 0 => \A i \in seen : ~Says(task, Headers(site.paths[i]))
    BY <1>2, <2>2
  <2>. QED
    BY <1>4, <2>3, <2>4 DEF PagesMerit
<1>. QED
  BY <1>3, <1>4

\* What the pages say of a verdict is still true while site and task stay.
LEMMA MeritStays ==
  ASSUME site' = site, task' = task, faults' = 0 => faults = 0, PagesMerit(verdict')
  PROVE  PagesEarned'
<1> DEFINE all == {i \in DOMAIN site.paths : Status(<<"GET", site.paths[i].name>>) = 200}
           seen == {i \in all : ~NamedByRobots(site.paths[i])}
           says(t, i) == Says(t, Headers(site.paths[i]))
           earned(t, v, f, A, S) ==
             /\ t \notin AnyPage =>
                  /\ v = "False" => \E i \in A : ~says(t, i)
                  /\ v = "True" /\ f = 0 => \A i \in S : says(t, i)
             /\ t \in AnyPage =>
                  /\ v = "True" => \E i \in A : says(t, i)
                  /\ v = "False" /\ f = 0 => \A i \in S : ~says(t, i)
<1>1. all' = all
  BY DEF Status
<1>2. seen' = seen
  BY <1>1 DEF NamedByRobots
<1>3. earned(task, verdict', faults, all, seen)
  BY DEF PagesMerit, PageRequest
<1>4. earned(task, verdict', faults', all, seen)
  BY <1>3
<1>5. PagesEarned' <=> earned(task, verdict, faults, all, seen)'
  BY DEF PagesEarned
<1>6. earned(task, verdict, faults, all, seen)' <=> earned(task', verdict', faults', all', seen')
  BY DEF Headers
<1>. QED
  <2> HIDE DEF earned, all, seen
  <2>. QED
    BY <1>1, <1>2, <1>4, <1>5, <1>6

LEMMA JudgeStep ==
  ASSUME PagesInv, TaskInv, stage = "tasks", Fixed, JudgeRecorded
  PROVE  TaskInv' /\ VerdictsEarned'
<1>1. faults' = faults /\ faults \in Nat /\ task' = task /\ site' = site /\ asking = "done"
  BY DEF JudgeRecorded, Fixed, PagesInv, TurnInv, TaskInv, StageInv
<1>2. ASSUME NEW v, End(v), task \in {"basic_constraints_path_length", "valid_certificate_chain"}
      PROVE  TaskInv' /\ VerdictsEarned'
  BY <1>1, <1>2, EndKeeps, EarnedFor DEF FaultsGrow
<1>3. ASSUME NEW v, v = PageVerdict(task), End(v), task \in PageTasks
      PROVE  TaskInv' /\ VerdictsEarned'
  <2>1. verdict' = v
    BY <1>3 DEF End
  <2>2. PagesMerit(v)
    BY <1>1, <1>3, PagesJudged
  <2>3. PagesMerit(v) => PagesEarned'
    BY <1>1, <2>1, MeritStays
  <2>4. TaskInv'
    BY <1>1, <1>3, EndKeeps DEF FaultsGrow
  <2>. QED
    BY <1>1, <1>3, <2>2, <2>3, <2>4, EarnedFor
<1>. QED
  BY <1>2, <1>3 DEF JudgeRecorded

-----------------------------------------------------------------------------
(* The invariant                                                            *)

LEMMA InvInit == Init => Inv
<1>1. SUFFICES ASSUME Init PROVE Inv
  OBVIOUS
<1>2. PagesInv
  BY <1>1, PagesInvInit
<1>3. /\ stage = "probe" /\ at = "start" /\ alarm = "off" /\ verdict = "open"
      /\ answers = << >> /\ found = FALSE
  BY <1>1 DEF Init, TasksInit
<1>4. StageInv
  BY <1>3, EmptyList DEF StageInv
<1>5. PlaceInv /\ CrimeInv /\ VerdictsEarned
  BY <1>3 DEF PlaceInv, CrimeInv, VerdictsEarned
<1>6. Len(answers) = 0 /\ DOMAIN answers = {}
  BY <1>3
<1>7. RobotInv
  BY <1>3, <1>6 DEF RobotInv, Spoiled
<1>8. AttemptsInv
  <2>1. Len(http_states) \in Nat
    BY <1>2, ListFacts DEF PagesInv, RecordedInv
  <2>2. task \in AttemptTasks => 0 <= Attempts[task]
    BY <2>1 DEF Attempts, AttemptTasks
  <2>3. Bent = {}
    BY <1>6 DEF Bent
  <2>4. IsFiniteSet(Bent) /\ Cardinality(Bent) = 0
    BY <2>3, FS_EmptySet
  <2>5. 0 <= faults
    BY <1>2 DEF PagesInv, TurnInv
  <2>. QED
    BY <1>6, <2>2, <2>4, <2>5 DEF AttemptsInv
<1>. QED
  BY <1>2, <1>4, <1>5, <1>7, <1>8 DEF Inv, TaskInv

LEMMA FaultStep == TasksNext => FaultsGrow
BY DEF TasksNext, FaultsGrow, EnterRobot, CallOracle, OracleReplies, OracleFails, AlarmRings, AlarmEscapes,
       ConcludeRobot, EnterCrime, Visit, ConcludeCrime, EnterAttempts, Attempt, ConcludeAttempts,
       Renegotiate, Hang, JudgeRecorded, Fault

LEMMA WorkStep == Inv /\ Work => Inv'
<1> SUFFICES ASSUME Inv, Work PROVE Inv'
  OBVIOUS
<1>1. PagesInv /\ TaskInv /\ VerdictsEarned /\ stage = "tasks" /\ Fixed /\ TasksNext
  BY DEF Inv, Work, Fixed
<1>2. faults \in Nat /\ IsList(http_states) /\ FaultsGrow
  BY <1>1, FaultStep DEF PagesInv, TurnInv, RecordedInv
<1>3. PagesInv'
  BY <1>1, <1>2, PagesInvKept DEF Fixed, FaultsGrow
<1>4. Attempts[task] \in Nat \/ task \notin AttemptTasks
  BY <1>2, ListFacts DEF Attempts, AttemptTasks
<1>5. TaskInv' /\ VerdictsEarned'
  <2>1. CASE EnterRobot
    BY <1>1, <1>2, <2>1, EnterRobotStep
  <2>2. CASE CallOracle
    BY <1>1, <1>2, <2>2, CallStep
  <2>3. CASE OracleReplies
    BY <1>1, <1>2, <2>3, RepliesStep
  <2>4. CASE OracleFails
    BY <1>1, <1>2, <2>4, FailsStep
  <2>5. CASE AlarmRings
    BY <1>1, <1>2, <2>5, AlarmStep
  <2>6. CASE AlarmEscapes
    BY <1>1, <1>2, <2>6, EscapeStep
  <2>7. CASE ConcludeRobot
    BY <1>1, <1>2, <2>7, ConcludeRobotStep
  <2>8. CASE EnterCrime
    BY <1>1, <1>2, <2>8, EnterCrimeStep
  <2>9. CASE Visit
    BY <1>1, <2>9, VisitStep
  <2>10. CASE ConcludeCrime
    BY <1>1, <1>2, <2>10, ConcludeCrimeStep
  <2>11. CASE EnterAttempts
    BY <1>1, <1>2, <2>11, EnterAttemptsStep
  <2>12. CASE Attempt
    <3>1. task \in AttemptTasks
      BY <1>1, <2>12 DEF Attempt, TaskInv, PlaceInv
    <3>. QED
      BY <1>1, <1>2, <1>4, <2>12, <3>1, AttemptStep
  <2>13. CASE ConcludeAttempts
    BY <1>1, <1>2, <2>13, ConcludeAttemptsStep
  <2>14. CASE Renegotiate
    BY <1>1, <1>2, <2>14, RenegotiateStep
  <2>15. CASE Hang
    BY <1>1, <2>15, HangStep
  <2>16. CASE JudgeRecorded
    BY <1>1, <2>16, JudgeStep
  <2>. QED
    BY <1>1, <2>1, <2>2, <2>3, <2>4, <2>5, <2>6, <2>7, <2>8, <2>9, <2>10, <2>11, <2>12, <2>13,
       <2>14, <2>15, <2>16 DEF TasksNext
<1>. QED
  BY <1>3, <1>5 DEF Inv

\* Before the tasks begin the page steps change nothing that concerns them.
LEMMA PagesPhase ==
  ASSUME TaskInv, stage # "tasks", UNCHANGED taskVars, stage' \in {"pages", "tasks"},
         stage' = "tasks" => asking' = "done", IsList(http_states'), faults' \in Nat
  PROVE  TaskInv' /\ VerdictsEarned'
<1>1. /\ at = "start" /\ answers = << >> /\ alarm = "off" /\ found = FALSE /\ verdict = "open"
      /\ IsList(answers) /\ UNCHANGED <<task, server, at, alarm, answers, pending, found, verdict>>
  BY DEF TaskInv, StageInv, taskVars
<1>2. StageInv' /\ VerdictsEarned'
  <2>1. IsList(answers')
    BY <1>1
  <2>. QED
    BY <1>1, <2>1 DEF StageInv, VerdictsEarned
<1>3. PlaceInv' /\ CrimeInv'
  BY <1>1 DEF PlaceInv, CrimeInv
<1>4. Len(answers') = 0 /\ DOMAIN answers' = {}
  BY <1>1
<1>5. RobotInv'
  BY <1>1, <1>4 DEF RobotInv, Spoiled
<1>6. AttemptsInv'
  <2>1. Len(http_states') \in Nat
    BY ListFacts
  <2>2. task' \in AttemptTasks => 0 <= Attempts'[task']
    BY <2>1 DEF Attempts, AttemptTasks
  <2>3. Bent' = {}
    BY <1>4 DEF Bent
  <2>4. IsFiniteSet(Bent') /\ Cardinality(Bent') = 0
    BY <2>3, FS_EmptySet
  <2>5. 0 <= faults'
    OBVIOUS
  <2>. QED
    BY <1>4, <2>2, <2>4, <2>5 DEF AttemptsInv
<1>. QED
  BY <1>2, <1>3, <1>5, <1>6 DEF TaskInv

LEMMA InvNext == Inv /\ [Next]_vars => Inv'
<1> SUFFICES ASSUME Inv, [Next]_vars PROVE Inv'
  OBVIOUS
<1>1. PagesInv /\ TaskInv /\ VerdictsEarned /\ faults \in Nat
  BY DEF Inv, PagesInv, TurnInv
<1>2. ASSUME UNCHANGED pagesVars PROVE PagesInv'
  <2>1. UNCHANGED <<site, turn, asking, cache, http_states, read, decided, faults>>
    BY <1>2 DEF pagesVars
  <2>. QED
    BY <1>1, <2>1, PagesInvKept
<1>3. PagesInv' => IsList(http_states') /\ faults' \in Nat
  BY DEF PagesInv, RecordedInv, TurnInv
<1>4. CASE Probe
  <2>1. stage = "probe" /\ stage' = "pages" /\ UNCHANGED pagesVars /\ UNCHANGED taskVars
    BY <1>4 DEF Probe
  <2>2. PagesInv'
    BY <1>2, <2>1
  <2>. QED
    BY <1>1, <1>3, <2>1, <2>2, PagesPhase DEF Inv
<1>5. CASE Pages
  <2>1. stage = "pages" /\ stage' = stage /\ UNCHANGED taskVars /\ PagesNext
    BY <1>5 DEF Pages
  <2>2. PagesInv'
    BY <1>1, <2>1, HeadStep, GetStep, PageStep, RaiseStep DEF PagesNext
  <2>. QED
    BY <1>1, <1>3, <2>1, <2>2, PagesPhase DEF Inv
<1>6. CASE Evaluate
  <2>1. stage = "pages" /\ stage' = "tasks" /\ asking = "done" /\ UNCHANGED pagesVars /\ UNCHANGED taskVars
    BY <1>6 DEF Evaluate
  <2>2. PagesInv' /\ asking' = "done"
    BY <1>2, <2>1 DEF pagesVars
  <2>. QED
    BY <1>1, <1>3, <2>1, <2>2, PagesPhase DEF Inv
<1>7. CASE Work
  BY <1>7, WorkStep
<1>8. CASE UNCHANGED vars
  <2>1. UNCHANGED pagesVars /\ UNCHANGED <<stage, task, server, at, alarm, answers, pending, found, verdict,
                                          site, asking, http_states, faults, certificates, presented>>
    BY <1>8 DEF vars, pagesVars, taskVars, chainVars
  <2>2. StageInv' /\ PlaceInv' /\ CrimeInv'
    BY <1>1, <2>1 DEF TaskInv, StageInv, PlaceInv, CrimeInv
  <2>3. AttemptsInv'
    BY <1>1, <2>1, AttemptsKept DEF TaskInv, FaultsGrow
  <2>4. RobotInv'
    <3>1. CASE task = "tls_robot"
      <4>1. Spoiled' <=> Spoiled
        BY <2>1, AnswersKept DEF Spoiled
      <4>2. at \in {"oracle", "spinning"} => ~AllAsked
        BY <1>1, <3>1 DEF TaskInv, RobotInv
      <4>3. Spoiled => faults > 0 /\ (faults = 1 => \A n \in DOMAIN answers : Truthful(n))
        BY <1>1, <3>1 DEF TaskInv, RobotInv
      <4>. QED
        BY <1>1, <2>1, <4>1, <4>2, <4>3, RobotKept DEF TaskInv, FaultsGrow
    <3>2. CASE task # "tls_robot"
      BY <2>1, <3>2 DEF RobotInv
    <3>. QED
      BY <3>1, <3>2
  <2>5. VerdictsEarned'
    <3>1. RobotEarned' <=> RobotEarned
      BY <2>1 DEF RobotEarned, OracleFree, Constant, FirstLeaf, Leaves
    <3>2. CrimeEarned' <=> CrimeEarned
      BY <2>1 DEF CrimeEarned
    <3>3. UpgradeEarned' <=> UpgradeEarned
      BY <2>1 DEF UpgradeEarned
    <3>4. LongHandshakeEarned' <=> LongHandshakeEarned
      BY <2>1 DEF LongHandshakeEarned, Outcomes
    <3>5. VersionsEarned' <=> VersionsEarned
      BY <2>1 DEF VersionsEarned, Rejections
    <3>6. RenegotiationEarned' <=> RenegotiationEarned
      BY <2>1 DEF RenegotiationEarned
    <3>7. PagesEarned => PagesEarned'
      BY <2>1, MeritStays DEF PagesMerit, PagesEarned, PageRequest
    <3>. QED
      BY <1>1, <2>1, <3>1, <3>2, <3>3, <3>4, <3>5, <3>6, <3>7 DEF VerdictsEarned
  <2>. QED
    BY <1>1, <1>2, <2>1, <2>2, <2>3, <2>4, <2>5 DEF Inv, TaskInv
<1>. QED
  BY <1>4, <1>5, <1>6, <1>7, <1>8 DEF Next

LEMMA InvAlways == Spec => []Inv
BY InvInit, InvNext, PTL DEF Spec

-----------------------------------------------------------------------------
(* do_request and _deny_robots, for any site, paths and number of faults:   *)
(* no path is refused that robots.txt does not name, none is requested that *)
(* it names once it has been read, and exactly the fetched pages are        *)
(* recorded, in the order of the paths.                                     *)
THEOREM KeepsRobots == Spec => []RobotsKept
<1>1. Inv => RobotsKept
  <2> SUFFICES ASSUME Inv PROVE RobotsKept
    OBVIOUS
  <2>1. \A i \in DOMAIN decided :
          /\ decided[i].path = site.paths[i]
          /\ decided[i].how = "refused" => NamedByRobots(decided[i].path)
          /\ NamedByRobots(decided[i].path) /\ decided[i].read => decided[i].how = "refused"
    BY DEF Inv, PagesInv, DecidedInv
  <2>2. asking = "done" => Len(decided) = Len(site.paths)
    BY ListFacts DEF Inv, PagesInv, TurnInv, SiteInv
  <2>3. /\ Len(http_states) = Cardinality(Fetched)
        /\ \A i \in Fetched : http_states[Place(Fetched, i)] = decided[i].path
    BY DEF Inv, PagesInv, RecordedInv
  <2>. QED
    BY <2>1, <2>2, <2>3 DEF RobotsKept, Fetched, Place
<1>. QED
  BY <1>1, InvAlways, PTL

(* The tasks with connections and those that read headers, for any server,  *)
(* any site and any number of faults: no verdict says more than the server  *)
(* did.  One spoiled exchange makes tls_robot see no oracle that is not     *)
(* there, since each difference has to come twice.                          *)
THEOREM EarnsVerdicts == Spec => []VerdictsEarned
<1>1. Inv => VerdictsEarned
  BY DEF Inv
<1>. QED
  BY <1>1, InvAlways, PTL
=============================================================================
