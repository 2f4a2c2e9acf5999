---------------------------- MODULE CrliteDb_proofs ----------------------------
(* Proofs that a successful update leaves one release on disk, and that a   *)
(* run that was alone answers from it, for any number of processes,         *)
(* certificates and releases.                                               *)
EXTENDS CrliteDb, TLAPS

(*---------------------------------- types ---------------------------------*)
LEMMA FirstReleaseType == FirstRelease \in Release
BY ReleaseAssumption DEF FirstRelease, Release, Generation

LEMMA StashesType == ASSUME NEW r \in Release PROVE StashesOf(r) \in SUBSET Stash
BY ReleaseAssumption DEF StashesOf, Stash, Release, Generation

LEMMA NothingType ==
  NothingLoaded \in [enrollment : Generation, coverage : Generation,
                     filter : Generation, stash : SUBSET Stash,
                     intermediates : Edition]
BY ReleaseAssumption DEF NothingLoaded, Generation, Edition

LEMMA NewRunType ==
  ASSUME NEW x \in Cert, NEW overlaps \in BOOLEAN
  PROVE  NewRun(x, overlaps) \in Run
BY FirstReleaseType, NothingType DEF NewRun, Run, Stage, Name

LEMMA FinishedType ==
  ASSUME NEW p \in Run, NEW status \in Status \cup {"none"},
         NEW result \in Status \cup {"None"}
  PROVE  Finished(p, status, result) \in Run
<1>1. PICK q \in Run : q = NewRun(p.cert, p.shared)
  BY NewRunType DEF Run
<1>2. p.rel \in Release
  BY DEF Run
<1>3. [q EXCEPT !.stage = "done", !.rel = p.rel, !.said = status,
                !.result = result] \in Run
  <2>1. [q EXCEPT !.stage = "done"] \in Run
    BY DEF Run, Stage
  <2>2. ASSUME NEW r \in Run PROVE [r EXCEPT !.rel = p.rel] \in Run
    BY <1>2 DEF Run
  <2>3. ASSUME NEW r \in Run PROVE [r EXCEPT !.said = status] \in Run
    BY DEF Run
  <2>4. ASSUME NEW r \in Run PROVE [r EXCEPT !.result = result] \in Run
    BY DEF Run
  <2>. QED
    BY <2>1, <2>2, <2>3, <2>4
<1>. QED
  BY <1>1, <1>3 DEF Finished

LEMMA ExitOneType ==
  ASSUME NEW c \in Client, NEW p \in Run, proc \in [Client -> Run],
         ExitOne(c, p)
  PROVE  proc' \in [Client -> Run]
<1>1. NewRun(p.cert, p.shared) \in Run
  BY NewRunType DEF Run
<1>2. [NewRun(p.cert, p.shared) EXCEPT !.exe = "linux"] \in Run
  BY <1>1 DEF Run
<1>3. Finished(p, p.said, "None") \in Run
  BY FinishedType DEF Run
<1>. QED
  BY <1>2, <1>3 DEF ExitOne

LEMMA GotoType ==
  ASSUME NEW c \in Client, NEW stage \in Stage, NEW n \in Name,
         proc \in [Client -> Run]
  PROVE  Goto(c, stage, n) \in [Client -> Run]
<1>1. [proc[c] EXCEPT !.stage = stage, !.file = n] \in Run
  <2>1. ASSUME NEW q \in Run PROVE [q EXCEPT !.stage = stage] \in Run
    BY DEF Run
  <2>2. ASSUME NEW q \in Run PROVE [q EXCEPT !.file = n] \in Run
    BY DEF Run
  <2>. QED
    BY <2>1, <2>2
<1>. QED
  BY <1>1 DEF Goto

LEMMA StatusType == ASSUME NEW d, NEW x PROVE StatusOf(d, x) \in Status
BY DEF StatusOf, Status

(* Releases, files and runs keep their types.                               *)
LEMMA TypeStep == TypeOK /\ [Next]_vars => TypeOK'
<1> SUFFICES ASSUME TypeOK, [Next]_vars PROVE TypeOK'
  OBVIOUS
<1>t. /\ now \in Release /\ proc \in [Client -> Run] /\ spoiled \in BOOLEAN
      /\ listed \in Edition
      /\ db \in [Name -> [state : {"missing", "torn", "whole"}, of : Release]]
  BY DEF TypeOK
<1>1. CASE Publish
  <2>1. now' \in Release
    <3>1. ASSUME now.stashes < MaxStash
          PROVE  [now EXCEPT !.stashes = @ + 1] \in Release
      BY <3>1, <1>t, ReleaseAssumption DEF Release
    <3>2. ASSUME now.filter < MaxFilter, NEW k \in 0..MaxStash
          PROVE  [filter |-> now.filter + 1, stashes |-> k] \in Release
      BY <3>2, <1>t, ReleaseAssumption DEF Release, Generation
    <3>. QED
      BY <1>1, <3>1, <3>2 DEF Publish
  <2>. QED
    BY <2>1, <1>1, <1>t DEF Publish, TypeOK
<1>2. ASSUME NEW c \in Client, Step(c) PROVE TypeOK'
  <2>p. proc[c] \in Run /\ proc[c].rel \in Release /\ proc[c].file \in Name
    BY <1>t DEF Run
  <2>n. /\ "filter" \in Name /\ "enrollment" \in Name /\ "stash" \in Name
        /\ "intermediates" \in Name /\ "coverage" \in Name
    BY DEF Name
  <2>g. /\ "open" \in Stage /\ "read" \in Stage /\ "write" \in Stage
        /\ "answer" \in Stage /\ "size" \in Stage /\ "hash" \in Stage
    BY DEF Stage
  <2>1. ASSUME NEW x \in Cert, Evaluate(c, x) PROVE TypeOK'
    <3>1. ASSUME NEW d \in Client PROVE [proc[d] EXCEPT !.shared = TRUE] \in Run
      <4>1. proc[d] \in Run
        BY <1>t
      <4>. QED
        BY <4>1 DEF Run
    <3>2. ASSUME NEW b \in BOOLEAN PROVE NewRun(x, b) \in Run
      BY NewRunType
    <3>3. proc' \in [Client -> Run]
      BY <2>1, <3>1, <3>2, <1>t DEF Evaluate
    <3>. QED
      BY <3>3, <2>1, <1>t DEF Evaluate, TypeOK
  <2>2. CASE Fetch(c)
    <3>1. [proc[c] EXCEPT !.rel = now, !.stage = "hash"] \in Run
      BY <2>p, <2>g, <1>t DEF Run
    <3>2. spoiled' \in BOOLEAN
      BY <2>2 DEF Fetch
    <3>. QED
      BY <3>1, <3>2, <2>2, <1>t DEF Fetch, TypeOK
  <2>3. CASE CheckFilter(c)
    <3>1. ASSUME NEW b \in BOOLEAN
          PROVE [proc[c] EXCEPT !.stage = "size", !.full = b] \in Run
      BY <2>p, <2>g DEF Run
    <3>. QED
      BY <3>1, <2>3, <1>t DEF CheckFilter, TypeOK
  <2>4. CASE CheckStash(c)
    BY <2>4, <2>n, <2>g, GotoType, <1>t DEF CheckStash, TypeOK
  <2>5. CASE Open(c)
    <3>1. proc' \in [Client -> Run]
      <4>1. PICK e \in Edition :
              proc' = [Goto(c, "write", proc[c].file) EXCEPT ![c].got.intermediates = e]
        BY <2>5, <2>p DEF Open, Run
      <4>2. Goto(c, "write", proc[c].file) \in [Client -> Run]
        BY <2>p, <2>g, GotoType, <1>t
      <4>3. ASSUME NEW q \in Run PROVE [q EXCEPT !.got.intermediates = e] \in Run
        BY DEF Run
      <4>. QED
        BY <4>1, <4>2, <4>3
    <3>2. ASSUME NEW k \in 0..proc[c].rel.stashes
          PROVE [proc[c].rel EXCEPT !.stashes = k] \in Release
      BY <2>p, ReleaseAssumption DEF Release
    <3>3. PICK r \in Release, state \in {"torn", "whole"} :
            db' = [db EXCEPT ![proc[c].file] = [state |-> state, of |-> r]]
      BY <2>5, <2>p, <3>2 DEF Open
    <3>4. db' \in [Name -> [state : {"missing", "torn", "whole"}, of : Release]]
      BY <3>3, <2>p, <1>t
    <3>. QED
      BY <3>1, <3>4, <2>5, <1>t DEF Open, TypeOK
  <2>6. CASE Write(c)
    <3>1. proc[c].file \notin {"stash", "intermediates"} =>
            WrittenAfter[proc[c].file] \in Name
      BY <2>p DEF WrittenAfter, Name
    <3>2. proc' \in [Client -> Run]
      BY <2>6, <3>1, <2>p, <2>n, <2>g, GotoType, <1>t DEF Write
    <3>3. db' \in [Name -> [state : {"missing", "torn", "whole"}, of : Release]]
      BY <2>6, <2>p, <1>t DEF Write
    <3>4. listed' \in Edition
      BY <2>6, <2>p, <1>t DEF Write, Run
    <3>. QED
      BY <3>2, <3>3, <3>4, <2>6, <1>t DEF Write, TypeOK
  <2>7. CASE Unavailable(c)
    BY <2>7, <2>p, ExitOneType, <1>t DEF Unavailable, TypeOK
  <2>8. CASE WriteFails(c)
    BY <2>8, <2>p, ExitOneType, <1>t DEF WriteFails, Ruins, TypeOK
  <2>9. CASE ReadFails(c)
    BY <2>9, <2>p, ExitOneType, <1>t DEF ReadFails, TypeOK
  <2>10. CASE Read(c)
    <3>1. ASSUME NEW n \in Table PROVE ReadAfter[n] \in Name
      BY DEF ReadAfter, Table, Name
    <3>2. PICK v : /\ proc' = [Goto(c, "read", ReadAfter[proc[c].file]) EXCEPT
                                 ![c].got[proc[c].file] = v]
                   /\ proc[c].file \in Table
                   /\ IF proc[c].file = "stash" THEN v \in SUBSET Stash
                                                ELSE v \in Generation
      <4>1. /\ StashesOf(db[proc[c].file].of) \in SUBSET Stash
            /\ db[proc[c].file].of.filter \in Generation
            /\ 0 \in Generation
        BY <2>p, <1>t, StashesType, ReleaseAssumption DEF Release, Generation
      <4>. QED
        BY <2>10, <4>1 DEF Read
    <3>3. Goto(c, "read", ReadAfter[proc[c].file]) \in [Client -> Run]
      BY <3>1, <3>2, <2>g, GotoType, <1>t
    <3>4. ASSUME NEW q \in Run PROVE [q EXCEPT !.got[proc[c].file] = v] \in Run
      BY <3>2 DEF Run, Table, Name
    <3>5. proc' \in [Client -> Run]
      BY <3>2, <3>3, <3>4
    <3>. QED
      BY <3>5, <2>10, <1>t DEF Read, TypeOK
  <2>11. CASE ReadIntermediates(c)
    <3>1. ASSUME NEW q \in Run PROVE [q EXCEPT !.got.intermediates = listed] \in Run
      BY <1>t DEF Run
    <3>2. /\ Goto(c, "answer", "intermediates") \in [Client -> Run]
          /\ Goto(c, "open", "intermediates") \in [Client -> Run]
      BY <2>n, <2>g, GotoType, <1>t
    <3>3. proc' \in [Client -> Run]
      BY <2>11, <3>1, <3>2 DEF ReadIntermediates
    <3>. QED
      BY <3>3, <2>11, <1>t DEF ReadIntermediates, TypeOK
  <2>12. CASE AskAgain(c)
    <3>1. Goto(c, "read", "filter") \in [Client -> Run]
      BY <2>n, <2>g, GotoType, <1>t
    <3>2. ASSUME NEW q \in Run
          PROVE [q EXCEPT !.command = "x509", !.got = NothingLoaded] \in Run
      BY NothingType DEF Run
    <3>. QED
      BY <3>1, <3>2, <2>12, <1>t DEF AskAgain, TypeOK
  <2>13. CASE Answer(c)
    <3> DEFINE status == StatusOf(proc[c].got, proc[c].cert)
    <3>1. status \in Status
      BY StatusType
    <3>2. [proc[c] EXCEPT !.said = status] \in Run
      BY <3>1, <2>p DEF Run
    <3>3. Finished(proc[c], status, status) \in Run
      BY <3>1, <2>p, FinishedType
    <3>4. proc' \in [Client -> Run]
      <4>1. CASE status = "Revoked"
        BY <4>1, <2>13, <3>2, ExitOneType, <1>t DEF Answer
      <4>2. CASE status # "Revoked"
        BY <4>2, <2>13, <3>3, <1>t DEF Answer
      <4>. QED
        BY <4>1, <4>2
    <3>. QED
      BY <3>4, <2>13, <1>t DEF Answer, TypeOK
  <2>14. CASE Kill(c)
    <3>1. [NewRun(proc[c].cert, FALSE) EXCEPT !.stage = "idle"] \in Run
      <4>1. NewRun(proc[c].cert, FALSE) \in Run
        BY <2>p, NewRunType DEF Run
      <4>. QED
        BY <4>1 DEF Run, Stage
    <3>. QED
      BY <3>1, <2>14, <1>t DEF Kill, Ruins, TypeOK
  <2>. QED
    BY <1>2, <2>1, <2>2, <2>3, <2>4, <2>5, <2>6, <2>7, <2>8, <2>9, <2>10, <2>11,
       <2>12, <2>13, <2>14 DEF Step
<1>3. CASE UNCHANGED vars
  BY <1>3 DEF vars, TypeOK
<1>. QED
  BY <1>1, <1>2, <1>3 DEF Next

LEMMA TypeInit == Init => TypeOK
<1> SUFFICES ASSUME Init PROVE TypeOK
  OBVIOUS
<1>1. PICK x \in Cert :
        proc = [c \in Client |-> [NewRun(x, FALSE) EXCEPT !.stage = "idle"]]
  BY DEF Init
<1>2. [NewRun(x, FALSE) EXCEPT !.stage = "idle"] \in Run
  <2>1. NewRun(x, FALSE) \in Run
    BY NewRunType
  <2>. QED
    BY <2>1 DEF Run, Stage
<1>3. listed \in Edition
  BY ReleaseAssumption DEF Init, Edition
<1>. QED
  BY <1>1, <1>2, <1>3, FirstReleaseType DEF Init, TypeOK

(* Releases, files and runs keep their types.                               *)
THEOREM TypeCorrect == Spec => []TypeOK
BY TypeInit, TypeStep, PTL DEF Spec

(*--------------------------- inductive invariant --------------------------*)
Older(r, s) == \/ r.filter < s.filter
               \/ r.filter = s.filter /\ r.stashes <= s.stashes

(* Whatever is on disk or in a run was published before.                    *)
Published == /\ Older(FirstRelease, now)
             /\ \A n \in Name : db[n].of.filter <= now.filter
             /\ \A c \in Client : Older(proc[c].rel, now)

(* Two runs that are busy at the same time know it.                         *)
Overlaps == \A c, d \in Client : c # d /\ Busy(c) /\ Busy(d) => proc[c].shared

(* The tables of the filter are only written together with it.              *)
Before(c, n) ==  \* file n comes before the one c is at
  \/ /\ n = "enrollment"
     /\ proc[c].file \in {"coverage", "filter", "stash"}
  \/ n = "coverage" /\ proc[c].file \in {"filter", "stash"}
  \/ n = "filter" /\ proc[c].file = "stash"

Replacing(c) ==  \* c is about to replace the filter
  \/ proc[c].stage = "size" /\ proc[c].full
  \/ proc[c].stage \in {"open", "write"}
     /\ proc[c].file \in {"enrollment", "coverage", "filter"}

(* The runs whose release counts: no other release may be written.          *)
Current(c) == Updating(c) \/ (Updated(c) /\ proc[c].rel = now)

OneRelease == \A c, d \in Client :
  Current(c) /\ Updating(d) => proc[c].rel = proc[d].rel

NotNewer == \A c \in Client :
  Updating(c) => db["filter"].of.filter <= proc[c].rel.filter

Good(n, r) == UpToDate(n, r) \/ \E d \in Client : Writing(d, n)

(* What a run has checked or written is good.                               *)
Passed(c, n) ==
  \/ proc[c].stage = "size" /\ ~proc[c].full /\ n # "stash"
  \/ proc[c].stage \in {"open", "write"} /\ Before(c, n)
  \/ Updated(c)

PassedGood == \A c \in Client, n \in Table :
  Current(c) /\ Passed(c, n) => Good(n, proc[c].rel)

(* A filter somebody takes for up to date comes with its tables.            *)
Fresh == /\ db["filter"].state = "whole"
         /\ \/ db["filter"].of.filter = now.filter
            \/ \E c \in Client : Updating(c) /\
                 db["filter"].of.filter = proc[c].rel.filter

FilterLast == Fresh =>
  \A n \in {"enrollment", "coverage"} : Good(n, db["filter"].of)

(* A run that is alone replaces an old or torn filter only, so that it may  *)
(* be killed at any point.                                                  *)
AloneStale == \A c \in Client : Replacing(c) /\ ~proc[c].shared =>
  ~UpToDate("filter", proc[c].rel)

Whole == spoiled \/ /\ OneRelease /\ NotNewer /\ PassedGood
                    /\ FilterLast /\ AloneStale

UpdateInv == TypeOK /\ Published /\ Overlaps /\ Whole

(* A run that is alone finds what it has updated, and loads it.             *)
LoadedBefore(c, n) ==
  LET f == proc[c].file
  IN \/ proc[c].stage = "read" /\ f = "intermediates"
     \/ proc[c].stage = "read" /\ f = "enrollment" /\ n # "enrollment"
     \/ proc[c].stage = "read" /\ f = "coverage" /\ n \in {"filter", "stash"}
     \/ proc[c].stage = "read" /\ f = "stash" /\ n = "filter"
     \/ proc[c].stage \in {"open", "write", "answer"}

Tables(r) == Loaded(r, 0)

AloneLoads == \A c \in Client : ~spoiled /\ ~proc[c].shared /\ Updated(c) =>
  \A n \in Table : /\ UpToDate(n, proc[c].rel)
                   /\ LoadedBefore(c, n) =>
                        proc[c].got[n] = Tables(proc[c].rel)[n]

SaidLast == \A c \in Client : proc[c].said # "none" => proc[c].stage = "done"

(* Once the intermediates are whole and nobody is fetching them any more,   *)
(* they stay as they are.  A run that was alone when it answered has seen   *)
(* them so.                                                                 *)
Intermediating(c) ==
  proc[c].stage \in {"open", "write"} /\ proc[c].file = "intermediates"

Settled == /\ db["intermediates"].state = "whole"
           /\ \A c \in Client : ~Intermediating(c)

AloneListed == \A c \in Client :
  ~proc[c].shared /\ proc[c].stage = "answer" =>
    /\ db["intermediates"].state = "whole"
    /\ proc[c].got.intermediates = listed

SaidSettled == \A c \in Client :
  ~proc[c].shared /\ proc[c].said # "none" => Settled

AnswerInv == /\ UpdateInv /\ AloneLoads /\ SaidLast
             /\ AloneListed /\ SaidSettled /\ AnswerRight

(*-------------------------- the invariant is inductive ---------------------*)
LEMMA Numbers ==
  ASSUME TypeOK
  PROVE  /\ now.filter \in Nat /\ now.stashes \in Nat
         /\ \A n \in Name : db[n].of.filter \in Nat /\ db[n].of \in Release
         /\ \A c \in Client : /\ proc[c].rel \in Release
                              /\ proc[c].rel.filter \in Nat
                              /\ proc[c].rel.stashes \in Nat
                              /\ proc[c].shared \in BOOLEAN
                              /\ proc[c].full \in BOOLEAN
                              /\ proc[c].stage \in Stage /\ proc[c].file \in Name
<1>1. ASSUME NEW r \in Release PROVE r.filter \in Nat /\ r.stashes \in Nat
  BY ReleaseAssumption DEF Release, Generation
<1>2. now \in Release
  BY DEF TypeOK
<1>3. ASSUME NEW n \in Name PROVE db[n].of \in Release
  BY DEF TypeOK
<1>4. ASSUME NEW c \in Client PROVE proc[c] \in Run
  BY DEF TypeOK
<1>. QED
  BY <1>1, <1>2, <1>3, <1>4 DEF Run

(* A run that stops or starts again, and ruins nothing.                     *)
LEMMA Inactive ==
  ASSUME NEW c \in Client, TypeOK, Published, Overlaps, Whole, Busy(c),
         \A d \in Client \ {c} : proc'[d] = proc[d],
         proc'[c].stage \in {"idle", "fetch", "done"},
         proc'[c].stage # "idle" => proc'[c].shared = proc[c].shared,
         Older(proc'[c].rel, now),
         now' = now, db' = db,
         ~spoiled' => ~spoiled /\ ~Ruins(c)
  PROVE  Published' /\ Overlaps' /\ Whole'
<1>1. Published'
  BY DEF Published
<1>2. Overlaps'
  BY DEF Overlaps, Busy
<1>3. ASSUME NEW d \in Client
      PROVE  /\ Updating(d)' => d # c /\ Updating(d)
             /\ Current(d)' => d # c /\ Current(d)
             /\ Replacing(d)' => d # c /\ Replacing(d)
  BY DEF Updating, Current, Updated, Replacing, Busy
<1>4. ASSUME NEW d \in Client, NEW n \in Name
      PROVE  d # c /\ Writing(d, n) => Writing(d, n)'
  BY DEF Writing
<1>5. ASSUME NEW d \in Client PROVE Updating(d) \/ Current(d) => Busy(d)
  BY DEF Updating, Current, Updated, Busy
<1>w. SUFFICES ASSUME ~spoiled' PROVE Whole'
  BY <1>1, <1>2 DEF Whole
<1>6. /\ OneRelease /\ NotNewer /\ PassedGood /\ FilterLast /\ AloneStale
      /\ ~Ruins(c)
  BY <1>w DEF Whole
<1>7. OneRelease' /\ NotNewer' /\ AloneStale'
  BY <1>3, <1>6 DEF OneRelease, NotNewer, AloneStale, UpToDate
<1>8. PassedGood'
  <2> SUFFICES ASSUME NEW d \in Client, NEW n \in Table,
                      Current(d)', Passed(d, n)'
               PROVE  Good(n, proc[d].rel)'
    BY DEF PassedGood
  <2>1. d # c /\ Current(d) /\ proc'[d] = proc[d]
    BY <1>3
  <2>2. Good(n, proc[d].rel)
    BY <2>1, <1>6 DEF PassedGood, Passed, Before, Updated, Busy, Updating
  <2>3. ~Writing(c, n)
    BY <2>1, <1>5, <1>6 DEF Overlaps, Ruins, Writing
  <2>. QED
    BY <2>1, <2>2, <2>3, <1>4 DEF Good, UpToDate, Table
<1>9. FilterLast'
  <2> SUFFICES ASSUME Fresh', NEW n \in {"enrollment", "coverage"}
               PROVE  Good(n, db["filter"].of)'
    BY DEF FilterLast
  <2>1. Fresh
    BY <1>3 DEF Fresh
  <2>2. Good(n, db["filter"].of)
    BY <2>1, <1>6 DEF FilterLast
  <2>3. ~Writing(c, n)
    <3> SUFFICES ASSUME Writing(c, n) PROVE FALSE
      OBVIOUS
    <3>1. ~proc[c].shared /\ Replacing(c) /\ Updating(c)
      BY <1>6 DEF Ruins, Writing, Replacing, Updating, Table, Name
    <3>2. db["filter"].state = "whole" => db["filter"].of.filter # proc[c].rel.filter
      BY <3>1, <1>6 DEF AloneStale, UpToDate
    <3>3. db["filter"].of.filter <= proc[c].rel.filter
      BY <3>1, <1>6 DEF NotNewer
    <3>4. proc[c].rel.filter <= now.filter
      BY Numbers DEF Published, Older
    <3>5. db["filter"].of.filter # now.filter \/ db["filter"].state # "whole"
      BY <3>2, <3>3, <3>4, Numbers DEF Name
    <3>6. PICK d \in Client : Updating(d)'
      BY <3>5 DEF Fresh
    <3>. QED
      BY <3>1, <3>6, <1>3, <1>5 DEF Overlaps
  <2>. QED
    BY <2>2, <2>3, <1>4 DEF Good, UpToDate, Name
<1>. QED
  BY <1>7, <1>8, <1>9 DEF Whole

(* A run that loads the database, and at most writes the intermediates.     *)
LEMMA Loading ==
  ASSUME NEW c \in Client, TypeOK, Published, Overlaps, Whole,
         Updated(c), Updated(c)',
         \A d \in Client \ {c} : proc'[d] = proc[d],
         proc'[c].rel = proc[c].rel, proc'[c].shared = proc[c].shared,
         \A n \in Table : db'[n] = db[n],
         db'["intermediates"].of.filter <= now.filter,
         now' = now, spoiled' = spoiled
  PROVE  Published' /\ Overlaps' /\ Whole'
<1>1. Published'
  BY DEF Published, Table
<1>2. Overlaps'
  BY DEF Overlaps, Busy, Updated
<1>3. ASSUME NEW d \in Client
      PROVE  /\ Updating(d)' <=> Updating(d)
             /\ Current(d)' <=> Current(d)
             /\ Replacing(d)' => d # c /\ Replacing(d)
  <2>1. CASE d = c
    BY <2>1, Numbers DEF Updating, Current, Updated, Replacing, Busy, Table, Name
  <2>2. CASE d # c
    BY <2>2 DEF Updating, Current, Updated, Replacing, Busy
  <2>. QED
    BY <2>1, <2>2
<1>4. ASSUME NEW d \in Client, NEW n \in Table
      PROVE  Writing(d, n) => Writing(d, n)'
  BY DEF Writing, Updated, Updating
<1>5. "filter" \in Table /\ "enrollment" \in Table /\ "coverage" \in Table
  BY DEF Table, Name
<1>w. SUFFICES ASSUME ~spoiled' PROVE Whole'
  BY <1>1, <1>2 DEF Whole
<1>7. OneRelease /\ NotNewer /\ PassedGood /\ FilterLast /\ AloneStale
  BY <1>w DEF Whole
<1>8. OneRelease' /\ NotNewer' /\ AloneStale'
  BY <1>3, <1>5, <1>7 DEF OneRelease, NotNewer, AloneStale, UpToDate
<1>9. PassedGood'
  <2> SUFFICES ASSUME NEW d \in Client, NEW n \in Table,
                      Current(d)', Passed(d, n)'
               PROVE  Good(n, proc[d].rel)'
    BY DEF PassedGood
  <2>1. Current(d) /\ proc'[d].rel = proc[d].rel
    BY <1>3
  <2>2. Passed(d, n)
    BY DEF Passed, Before, Updated, Updating, Busy
  <2>3. Good(n, proc[d].rel)
    BY <2>1, <2>2, <1>7 DEF PassedGood
  <2>. QED
    BY <2>1, <2>3, <1>4 DEF Good, UpToDate
<1>10. FilterLast'
  BY <1>3, <1>4, <1>5, <1>7 DEF FilterLast, Fresh, Good, UpToDate
<1>. QED
  BY <1>8, <1>9, <1>10 DEF Whole

LEMMA PublishStep ==
  ASSUME TypeOK, Published, Overlaps, Whole, Publish
  PROVE  Published' /\ Overlaps' /\ Whole'
<1>1. /\ now.filter <= now'.filter /\ now'.filter \in Nat /\ now'.stashes \in Nat
      /\ \/ now.filter < now'.filter
         \/ now.filter = now'.filter /\ now.stashes < now'.stashes
  <2>1. now \in Release
    BY DEF TypeOK
  <2>2. ASSUME NEW k \in 0..MaxStash PROVE k \in Nat
    BY ReleaseAssumption
  <2>. QED
    BY <2>1, <2>2, Numbers DEF Publish, Release
<1>2. ASSUME NEW r \in Release, Older(r, now) PROVE Older(r, now)' /\ r # now'
  <2>1. r.filter \in Nat /\ r.stashes \in Nat
    BY ReleaseAssumption DEF Release, Generation
  <2>. QED
    BY <2>1, <1>1, <1>2, Numbers DEF Older
<1>3. db' = db /\ proc' = proc /\ spoiled' = spoiled
  BY DEF Publish
<1>4. Published'
  BY <1>1, <1>2, <1>3, Numbers, FirstReleaseType DEF Published, FirstRelease
<1>5. ASSUME NEW d \in Client
      PROVE  /\ Current(d)' => Current(d)
             /\ Updating(d)' <=> Updating(d)
             /\ Replacing(d)' <=> Replacing(d)
  BY <1>2, <1>3, Numbers DEF Published, Current, Updating, Updated, Busy, Replacing
<1>w. SUFFICES ASSUME ~spoiled' PROVE Whole'
  BY <1>3, <1>4 DEF Overlaps, Busy, Whole
<1>6. OneRelease /\ NotNewer /\ PassedGood /\ FilterLast /\ AloneStale
  BY <1>3, <1>w DEF Whole
<1>7. OneRelease' /\ NotNewer' /\ AloneStale'
  BY <1>3, <1>5, <1>6 DEF OneRelease, NotNewer, AloneStale, UpToDate
<1>8. PassedGood'
  BY <1>3, <1>5, <1>6 DEF PassedGood, Passed, Before, Updated, Updating, Busy,
       Good, UpToDate, Writing
<1>9. FilterLast'
  <2>1. db["filter"].of.filter <= now.filter /\ db["filter"].of.filter \in Nat
    BY Numbers DEF Published, Name
  <2>2. Fresh' => Fresh
    BY <1>1, <1>3, <1>5, <2>1, Numbers DEF Fresh
  <2>. QED
    BY <2>2, <1>3, <1>6 DEF FilterLast, Good, UpToDate, Writing
<1>. QED
  BY <1>7, <1>8, <1>9 DEF Whole

LEMMA EvaluateStep ==
  ASSUME NEW c \in Client, NEW x \in Cert, TypeOK, Published, Overlaps, Whole,
         Evaluate(c, x)
  PROVE  Published' /\ Overlaps' /\ Whole'
<1>1. /\ now' = now /\ db' = db /\ spoiled' = spoiled
      /\ ~Busy(c)
      /\ proc'[c].stage = "fetch" /\ proc'[c].rel = FirstRelease
      /\ (\E d \in Client \ {c} : Busy(d)) => proc'[c].shared
  BY DEF Evaluate, NewRun, TypeOK
<1>2. ASSUME NEW d \in Client \ {c}
      PROVE  /\ proc'[d].stage = proc[d].stage /\ proc'[d].file = proc[d].file
             /\ proc'[d].rel = proc[d].rel /\ proc'[d].full = proc[d].full
             /\ Busy(d) => proc'[d].shared
             /\ ~proc'[d].shared => ~proc[d].shared
  <2>1. CASE Busy(d)
    <3>1. proc'[d] = [proc[d] EXCEPT !.shared = TRUE]
      BY <2>1 DEF Evaluate
    <3>2. proc[d] \in Run
      BY DEF TypeOK
    <3>. QED
      BY <3>1, <3>2 DEF Run
  <2>2. CASE ~Busy(d)
    BY <2>2 DEF Evaluate
  <2>. QED
    BY <2>1, <2>2
<1>3. Published'
  BY <1>1, <1>2 DEF Published, Older
<1>4. Overlaps'
  BY <1>1, <1>2 DEF Overlaps, Busy
<1>5. ASSUME NEW d \in Client
      PROVE  /\ Current(d)' => d # c /\ Current(d)
             /\ Updating(d)' => d # c /\ Updating(d)
             /\ Replacing(d)' => d # c /\ Replacing(d)
  BY <1>1, <1>2 DEF Current, Updating, Updated, Busy, Replacing
<1>6. ASSUME NEW d \in Client, NEW n
      PROVE  Writing(d, n) => Writing(d, n)'
  BY <1>1, <1>2 DEF Writing, Busy
<1>w. SUFFICES ASSUME ~spoiled' PROVE Whole'
  BY <1>3, <1>4 DEF Whole
<1>7. OneRelease /\ NotNewer /\ PassedGood /\ FilterLast /\ AloneStale
  BY <1>1, <1>w DEF Whole
<1>8. OneRelease' /\ NotNewer' /\ AloneStale'
  BY <1>1, <1>2, <1>5, <1>7 DEF OneRelease, NotNewer, AloneStale, UpToDate
<1>9. PassedGood'
  <2> SUFFICES ASSUME NEW d \in Client, NEW n \in Table,
                      Current(d)', Passed(d, n)'
               PROVE  Good(n, proc[d].rel)'
    BY DEF PassedGood
  <2>1. d \in Client \ {c} /\ Current(d)
    BY <1>5
  <2>2. Passed(d, n) /\ proc'[d].rel = proc[d].rel
    BY <1>2, <2>1 DEF Passed, Before, Updated, Updating, Busy
  <2>. QED
    BY <1>1, <1>6, <1>7, <2>1, <2>2 DEF PassedGood, Good, UpToDate
<1>10. FilterLast'
  <2>1. Fresh' => Fresh
    BY <1>1, <1>2, <1>5 DEF Fresh
  <2>. QED
    BY <2>1, <1>1, <1>6, <1>7 DEF FilterLast, Good, UpToDate
<1>. QED
  BY <1>8, <1>9, <1>10 DEF Whole

LEMMA FetchStep ==
  ASSUME NEW c \in Client, TypeOK, Published, Overlaps, Whole, Fetch(c)
  PROVE  Published' /\ Overlaps' /\ Whole'
<1>1. /\ now' = now /\ db' = db /\ proc[c].stage = "fetch"
      /\ \A d \in Client \ {c} : proc'[d] = proc[d]
      /\ ~spoiled' => ~spoiled /\ \A d \in Client \ {c} :
                                    Updating(d) => proc[d].rel = now
  BY DEF Fetch, TypeOK
<1>2. /\ proc'[c].stage = "hash" /\ proc'[c].rel = now
      /\ proc'[c].shared = proc[c].shared
  <2>1. proc[c] \in Run
    BY DEF TypeOK
  <2>. QED
    BY <2>1 DEF Fetch, TypeOK, Run
<1>3. Published'
  BY <1>1, <1>2, Numbers DEF Published, Older
<1>4. Overlaps'
  BY <1>1, <1>2 DEF Overlaps, Busy
<1>5. ASSUME NEW d \in Client \ {c}
      PROVE  /\ Current(d)' <=> Current(d)
             /\ Updating(d)' <=> Updating(d)
             /\ Replacing(d)' <=> Replacing(d)
  BY <1>1 DEF Current, Updating, Updated, Busy, Replacing
<1>6. ASSUME NEW d \in Client, NEW n
      PROVE  Writing(d, n) => Writing(d, n)'
  BY <1>1, <1>2 DEF Writing
<1>7. ~Replacing(c)'
  BY <1>2 DEF Replacing
<1>w. SUFFICES ASSUME ~spoiled' PROVE Whole'
  BY <1>3, <1>4 DEF Whole
<1>8. /\ OneRelease /\ NotNewer /\ PassedGood /\ FilterLast /\ AloneStale
      /\ \A d \in Client \ {c} : Updating(d) => proc[d].rel = now
  BY <1>1, <1>w DEF Whole
<1>9. OneRelease'
  <2>1. ASSUME NEW d \in Client, Updating(d)' PROVE proc'[d].rel = now
    BY <2>1, <1>1, <1>2, <1>5, <1>8
  <2>2. ASSUME NEW d \in Client, Current(d)', ~Updating(d)'
        PROVE  proc'[d].rel = now
    BY <2>2, <1>1 DEF Current
  <2>. QED
    BY <2>1, <2>2 DEF OneRelease
<1>10. NotNewer'
  BY <1>1, <1>2, <1>5, <1>8 DEF NotNewer, Published, Name
<1>11. AloneStale'
  BY <1>1, <1>5, <1>7, <1>8 DEF AloneStale, UpToDate
<1>12. PassedGood'
  <2> SUFFICES ASSUME NEW d \in Client, NEW n \in Table,
                      Current(d)', Passed(d, n)'
               PROVE  Good(n, proc[d].rel)'
    BY DEF PassedGood
  <2>1. d # c
    BY <1>2 DEF Passed, Updated, Updating
  <2>2. Current(d) /\ Passed(d, n) /\ proc'[d] = proc[d]
    BY <1>1, <1>5, <2>1 DEF Passed, Before, Updated, Updating, Busy
  <2>. QED
    BY <1>1, <1>6, <1>8, <2>2 DEF PassedGood, Good, UpToDate
<1>13. FilterLast'
  <2>1. Fresh' => Fresh
    BY <1>1, <1>2, <1>5 DEF Fresh
  <2>. QED
    BY <2>1, <1>1, <1>6, <1>8 DEF FilterLast, Good, UpToDate
<1>. QED
  BY <1>9, <1>10, <1>11, <1>12, <1>13 DEF Whole

LEMMA CheckFilterStep ==
  ASSUME NEW c \in Client, TypeOK, Published, Overlaps, Whole, CheckFilter(c)
  PROVE  Published' /\ Overlaps' /\ Whole'
<1>1. /\ now' = now /\ db' = db /\ spoiled' = spoiled
      /\ proc[c].stage = "hash"
      /\ \A d \in Client \ {c} : proc'[d] = proc[d]
  BY DEF CheckFilter, TypeOK
<1>2. /\ proc'[c].stage = "size" /\ proc'[c].rel = proc[c].rel
      /\ proc'[c].shared = proc[c].shared
      /\ proc'[c].full <=> ~UpToDate("filter", proc[c].rel)
  <2>1. proc[c] \in Run
    BY DEF TypeOK
  <2>. QED
    BY <2>1 DEF CheckFilter, TypeOK, Run, UpToDate
<1>3. Published' /\ Overlaps'
  BY <1>1, <1>2 DEF Published, Overlaps, Busy
<1>4. ASSUME NEW d \in Client
      PROVE  (Current(d)' <=> Current(d)) /\ (Updating(d)' <=> Updating(d))
  BY <1>1, <1>2 DEF Current, Updating, Updated, Busy
<1>5. ASSUME NEW d \in Client, NEW n
      PROVE  Writing(d, n) => Writing(d, n)'
  BY <1>1, <1>2 DEF Writing
<1>w. SUFFICES ASSUME ~spoiled' PROVE Whole'
  BY <1>3 DEF Whole
<1>6. OneRelease /\ NotNewer /\ PassedGood /\ FilterLast /\ AloneStale
  BY <1>1, <1>w DEF Whole
<1>7. proc[c].rel = proc'[c].rel /\ Current(c) /\ Updating(c)
  BY <1>1, <1>2 DEF Current, Updating
<1>8. \A d \in Client : proc'[d].rel = proc[d].rel
  BY <1>1, <1>2
<1>9. OneRelease' /\ NotNewer'
  BY <1>1, <1>4, <1>6, <1>8 DEF OneRelease, NotNewer
<1>10. AloneStale'
  BY <1>1, <1>2, <1>6 DEF AloneStale, Replacing, UpToDate
<1>11. Fresh' => Fresh
  BY <1>1, <1>4, <1>8 DEF Fresh
<1>12. FilterLast'
  BY <1>1, <1>5, <1>6, <1>11 DEF FilterLast, Good, UpToDate
<1>13. PassedGood'
  <2> SUFFICES ASSUME NEW d \in Client, NEW n \in Table,
                      Current(d)', Passed(d, n)'
               PROVE  Good(n, proc[d].rel)'
    BY DEF PassedGood
  <2>1. CASE d # c
    <3>1. Current(d) /\ Passed(d, n) /\ proc'[d] = proc[d]
      BY <1>1, <1>4, <2>1 DEF Passed, Before, Updated, Updating, Busy
    <3>. QED
      BY <1>1, <1>5, <1>6, <3>1 DEF PassedGood, Good, UpToDate
  <2>2. CASE d = c
    <3>1. UpToDate("filter", proc[c].rel) /\ n # "stash"
      BY <1>2, <2>2 DEF Passed, Updated, Updating
    <3>2. Fresh
      BY <3>1, <1>7 DEF Fresh, UpToDate
    <3>3. CASE n = "filter"
      BY <3>1, <3>3, <2>2, <1>1, <1>2 DEF Good, UpToDate
    <3>4. CASE n \in {"enrollment", "coverage"}
      <4>1. Good(n, db["filter"].of)
        BY <3>2, <3>4, <1>6 DEF FilterLast
      <4>. QED
        BY <4>1, <3>1, <2>2, <1>1, <1>2, <1>5 DEF Good, UpToDate
    <3>. QED
      BY <3>1, <3>3, <3>4 DEF Table, Name
  <2>. QED
    BY <2>1, <2>2
<1>. QED
  BY <1>9, <1>10, <1>12, <1>13 DEF Whole

LEMMA CheckStashStep ==
  ASSUME NEW c \in Client, TypeOK, Published, Overlaps, Whole, CheckStash(c)
  PROVE  Published' /\ Overlaps' /\ Whole'
<1>1. /\ now' = now /\ db' = db /\ spoiled' = spoiled
      /\ proc[c].stage = "size"
      /\ \A d \in Client \ {c} : proc'[d] = proc[d]
  BY DEF CheckStash, Goto, TypeOK
<1>2. /\ proc'[c].rel = proc[c].rel /\ proc'[c].shared = proc[c].shared
      /\ proc'[c].full = proc[c].full
      /\ \/ /\ proc[c].full
            /\ proc'[c].stage = "open" /\ proc'[c].file = "enrollment"
         \/ /\ ~proc[c].full /\ StashUpToDate(proc[c].rel)
            /\ proc'[c].stage = "read" /\ proc'[c].file = "filter"
         \/ /\ ~proc[c].full
            /\ proc'[c].stage = "open" /\ proc'[c].file = "stash"
  <2>1. proc[c] \in Run
    BY DEF TypeOK
  <2>. QED
    BY <2>1 DEF CheckStash, Goto, TypeOK, Run
<1>3. Published' /\ Overlaps'
  BY <1>1, <1>2 DEF Published, Overlaps, Busy
<1>4. ASSUME NEW d \in Client
      PROVE  (Current(d)' => Current(d)) /\ (Updating(d)' => Updating(d))
  BY <1>1, <1>2 DEF Current, Updating, Updated, Busy
<1>5. ASSUME NEW d \in Client, NEW n
      PROVE  Writing(d, n) => Writing(d, n)'
  BY <1>1, <1>2 DEF Writing
<1>w. SUFFICES ASSUME ~spoiled' PROVE Whole'
  BY <1>3 DEF Whole
<1>6. OneRelease /\ NotNewer /\ PassedGood /\ FilterLast /\ AloneStale
  BY <1>1, <1>w DEF Whole
<1>8. \A d \in Client : proc'[d].rel = proc[d].rel
  BY <1>1, <1>2
<1>9. OneRelease' /\ NotNewer'
  BY <1>1, <1>4, <1>6, <1>8 DEF OneRelease, NotNewer
<1>10. AloneStale'
  BY <1>1, <1>2, <1>6 DEF AloneStale, Replacing, UpToDate
<1>11. Fresh' => Fresh
  BY <1>1, <1>4, <1>8 DEF Fresh
<1>12. FilterLast'
  BY <1>1, <1>5, <1>6, <1>11 DEF FilterLast, Good, UpToDate
<1>13. PassedGood'
  <2> SUFFICES ASSUME NEW d \in Client, NEW n \in Table,
                      Current(d)', Passed(d, n)'
               PROVE  Good(n, proc[d].rel)'
    BY DEF PassedGood
  <2>1. CASE d # c
    <3>1. Current(d) /\ Passed(d, n) /\ proc'[d] = proc[d]
      BY <1>1, <1>4, <2>1 DEF Passed, Before, Updated, Updating, Busy
    <3>. QED
      BY <1>1, <1>5, <1>6, <3>1 DEF PassedGood, Good, UpToDate
  <2>2. CASE d = c /\ n # "stash"
    <3>1. Current(c) /\ Passed(c, n)
      BY <1>1, <1>2, <2>2 DEF Current, Passed, Before, Updated, Updating,
           Table, Name
    <3>. QED
      BY <1>1, <1>2, <1>5, <1>6, <2>2, <3>1 DEF PassedGood, Good, UpToDate
  <2>3. CASE d = c /\ n = "stash"
    <3>1. StashUpToDate(proc[c].rel)
      BY <1>2, <2>3 DEF Passed, Before, Updated, Updating, Table, Name
    <3>2. StashesOf(db["stash"].of) = StashesOf(proc[c].rel)
      BY <3>1, ReleaseAssumption, Numbers DEF StashUpToDate, Name
    <3>. QED
      BY <3>1, <3>2, <2>3, <1>1, <1>2 DEF StashUpToDate, Good, UpToDate, StashesOf
  <2>. QED
    BY <2>1, <2>2, <2>3
<1>. QED
  BY <1>9, <1>10, <1>12, <1>13 DEF Whole

LEMMA OpenStep ==
  ASSUME NEW c \in Client, TypeOK, Published, Overlaps, Whole, Open(c),
         proc[c].file \in Table
  PROVE  Published' /\ Overlaps' /\ Whole'
<1> DEFINE n == proc[c].file
<1>1. /\ now' = now /\ spoiled' = spoiled
      /\ proc[c].stage = "open"
      /\ \A d \in Client \ {c} : proc'[d] = proc[d]
      /\ \A m \in Name \ {n} : db'[m] = db[m]
  BY DEF Open, Goto, TypeOK
<1>2. /\ proc'[c].rel = proc[c].rel /\ proc'[c].shared = proc[c].shared
      /\ proc'[c].full = proc[c].full
      /\ proc'[c].stage = "write" /\ proc'[c].file = n
  <2>1. proc[c] \in Run
    BY DEF TypeOK
  <2>. QED
    BY <2>1 DEF Open, Goto, TypeOK, Run
<1>3. /\ db'[n].of.filter = proc[c].rel.filter
      /\ n # "stash" => db'[n].state = "torn"
  <2>1. proc[c].rel \in Release /\ n \in Name
    BY Numbers
  <2>2. ASSUME NEW k
        PROVE  [proc[c].rel EXCEPT !.stashes = k].filter = proc[c].rel.filter
    BY <2>1 DEF Release
  <2>3. CASE db' = [db EXCEPT ![n] = [state |-> "torn", of |-> proc[c].rel]]
    BY <2>1, <2>3 DEF TypeOK
  <2>4. ASSUME NEW k, n = "stash",
               db' = [db EXCEPT ![n] = [state |-> "whole",
                                of |-> [proc[c].rel EXCEPT !.stashes = k]]]
        PROVE  db'[n].of.filter = proc[c].rel.filter
    BY <2>1, <2>2, <2>4 DEF TypeOK
  <2>. QED
    BY <2>3, <2>4 DEF Open
<1>4. Published'
  <2>1. proc[c].rel.filter <= now.filter
    BY Numbers DEF Published, Older
  <2>2. ASSUME NEW m \in Name PROVE db'[m].of.filter <= now'.filter
    BY <1>1, <1>3, <2>1 DEF Published
  <2>. QED
    BY <1>1, <1>2, <2>2 DEF Published
<1>5. Overlaps'
  BY <1>1, <1>2 DEF Overlaps, Busy
<1>6. ASSUME NEW d \in Client
      PROVE  /\ (Current(d)' <=> Current(d)) /\ (Updating(d)' <=> Updating(d))
             /\ (Replacing(d)' <=> Replacing(d)) /\ proc'[d].rel = proc[d].rel
  BY <1>1, <1>2 DEF Current, Updating, Updated, Busy, Replacing
<1>7. ASSUME NEW d \in Client, NEW m
      PROVE  (Writing(d, m) => Writing(d, m)') /\ Writing(c, n)'
  BY <1>1, <1>2 DEF Writing
<1>w. SUFFICES ASSUME ~spoiled' PROVE Whole'
  BY <1>4, <1>5 DEF Whole
<1>8. OneRelease /\ NotNewer /\ PassedGood /\ FilterLast /\ AloneStale
  BY <1>1, <1>w DEF Whole
<1>g. ASSUME NEW m \in Table PROVE db'[m] = db[m] \/ Writing(c, m)'
  BY <1>1, <1>2 DEF Table, Writing
<1>9. Updating(c)
  BY <1>1 DEF Updating
<1>10. OneRelease'
  BY <1>6, <1>8 DEF OneRelease
<1>11. NotNewer'
  <2> SUFFICES ASSUME NEW d \in Client, Updating(d)
               PROVE  db'["filter"].of.filter <= proc[d].rel.filter
    BY <1>6 DEF NotNewer
  <2>1. proc[d].rel = proc[c].rel
    BY <1>8, <1>9 DEF OneRelease, Current
  <2>. QED
    BY <1>1, <1>3, <1>8, <2>1, Numbers DEF NotNewer, Name
<1>12. AloneStale'
  <2>1. db'["filter"].state = "torn" \/ db'["filter"] = db["filter"]
    BY <1>1, <1>3 DEF Name
  <2>. QED
    BY <2>1, <1>1, <1>2, <1>6, <1>8 DEF AloneStale, UpToDate
<1>13. PassedGood'
  <2> SUFFICES ASSUME NEW d \in Client, NEW m \in Table,
                      Current(d)', Passed(d, m)'
               PROVE  Good(m, proc[d].rel)'
    BY DEF PassedGood
  <2>1. Current(d) /\ Passed(d, m)
    BY <1>1, <1>2, <1>6 DEF Passed, Before, Updated, Updating, Busy
  <2>. QED
    <3>1. Good(m, proc[d].rel)
      BY <2>1, <1>8 DEF PassedGood
    <3>. QED
      BY <3>1, <1>6, <1>7, <1>g DEF Good, UpToDate
<1>14. FilterLast'
  <2> SUFFICES ASSUME Fresh', NEW m \in {"enrollment", "coverage"}
               PROVE  Good(m, db["filter"].of)'
    BY DEF FilterLast
  <2>1. n # "filter"
    BY <1>3 DEF Fresh
  <2>2. db'["filter"] = db["filter"]
    BY <2>1, <1>1 DEF Name
  <2>3. Fresh
    BY <2>2, <1>1, <1>6 DEF Fresh
  <2>. QED
    <3>1. Good(m, db["filter"].of) /\ m \in Table
      BY <2>3, <1>8 DEF FilterLast, Table, Name
    <3>. QED
      BY <3>1, <2>2, <1>7, <1>g DEF Good, UpToDate
<1>. QED
  BY <1>10, <1>11, <1>12, <1>13, <1>14 DEF Whole

LEMMA WriteStep ==
  ASSUME NEW c \in Client, TypeOK, Published, Overlaps, Whole, Write(c),
         proc[c].file \in Table
  PROVE  Published' /\ Overlaps' /\ Whole'
<1> DEFINE n == proc[c].file
<1>1. /\ now' = now /\ spoiled' = spoiled
      /\ proc[c].stage = "write"
      /\ \A d \in Client \ {c} : proc'[d] = proc[d]
      /\ \A m \in Name \ {n} : db'[m] = db[m]
      /\ db'[n] = [state |-> "whole", of |-> proc[c].rel]
  BY DEF Write, Goto, TypeOK, Table
<1>2. /\ proc'[c].rel = proc[c].rel /\ proc'[c].shared = proc[c].shared
      /\ proc'[c].full = proc[c].full
      /\ \/ /\ n = "enrollment"
            /\ proc'[c].stage = "open" /\ proc'[c].file = "coverage"
         \/ /\ n = "coverage"
            /\ proc'[c].stage = "open" /\ proc'[c].file = "filter"
         \/ /\ n = "filter"
            /\ proc'[c].stage = "open" /\ proc'[c].file = "stash"
         \/ /\ n = "stash"
            /\ proc'[c].stage = "read" /\ proc'[c].file = "filter"
  <2>1. proc[c] \in Run
    BY DEF TypeOK
  <2>2. n \in {"enrollment", "coverage", "filter", "stash"}
    BY DEF Table, Name
  <2>. QED
    BY <2>1, <2>2 DEF Write, WrittenAfter, Goto, TypeOK, Run
<1>3. Published'
  <2>1. proc[c].rel.filter <= now.filter
    BY Numbers DEF Published, Older
  <2>2. ASSUME NEW m \in Name PROVE db'[m].of.filter <= now'.filter
    BY <1>1, <2>1 DEF Published
  <2>. QED
    BY <1>1, <1>2, <2>2 DEF Published
<1>4. Overlaps'
  BY <1>1, <1>2 DEF Overlaps, Busy
<1>5. Updating(c) /\ Current(c) /\ Busy(c)
  BY <1>1 DEF Updating, Current, Busy
<1>6. ASSUME NEW d \in Client
      PROVE  /\ (Current(d)' => Current(d)) /\ (Updating(d)' => Updating(d))
             /\ (Current(d) => Busy(d)) /\ proc'[d].rel = proc[d].rel
  <2>1. CASE d = c
    BY <2>1, <1>2, <1>5
  <2>2. CASE d # c
    BY <2>2, <1>1 DEF Current, Updating, Updated, Busy
  <2>. QED
    BY <2>1, <2>2, <1>1, <1>2 DEF Current, Updating, Updated, Busy
<1>7. ASSUME NEW d \in Client, NEW m, m # n
      PROVE  Writing(d, m) => Writing(d, m)'
  BY <1>1, <1>7 DEF Writing
<1>w. SUFFICES ASSUME ~spoiled' PROVE Whole'
  BY <1>3, <1>4 DEF Whole
<1>8. OneRelease /\ NotNewer /\ PassedGood /\ FilterLast /\ AloneStale
  BY <1>1, <1>w DEF Whole
<1>9. ASSUME NEW d \in Client, Current(d) PROVE proc[d].rel = proc[c].rel
  BY <1>5, <1>8, <1>9 DEF OneRelease
<1>10. OneRelease'
  BY <1>6, <1>8 DEF OneRelease
<1>11. NotNewer'
  <2> SUFFICES ASSUME NEW d \in Client, Updating(d)
               PROVE  db'["filter"].of.filter <= proc[d].rel.filter
    BY <1>6 DEF NotNewer
  <2>1. proc[d].rel = proc[c].rel
    BY <1>9 DEF Current
  <2>. QED
    BY <1>1, <1>8, <2>1, Numbers DEF NotNewer, Name
<1>12. AloneStale'
  <2> SUFFICES ASSUME NEW d \in Client, Replacing(d)', ~proc'[d].shared
               PROVE  ~UpToDate("filter", proc[d].rel)'
    BY DEF AloneStale
  <2>1. CASE d = c
    <3>1. Replacing(c) /\ n # "filter"
      BY <1>1, <1>2, <2>1 DEF Replacing
    <3>. QED
      BY <1>1, <1>2, <1>8, <2>1, <3>1 DEF AloneStale, UpToDate, Name
  <2>2. CASE d # c
    <3>1. Busy(d)
      BY <1>1, <2>2 DEF Replacing, Busy
    <3>. QED
      BY <1>1, <1>5, <2>2, <3>1 DEF Overlaps
  <2>. QED
    BY <2>1, <2>2
<1>13. PassedGood'
  <2> SUFFICES ASSUME NEW d \in Client, NEW m \in Table,
                      Current(d)', Passed(d, m)'
               PROVE  Good(m, proc[d].rel)'
    BY DEF PassedGood
  <2>1. Current(d) /\ proc'[d].rel = proc[d].rel /\ proc[d].rel = proc[c].rel
    BY <1>6, <1>9
  <2>2. CASE m = n
    BY <2>1, <2>2, <1>1 DEF Good, UpToDate
  <2>3. CASE m # n
    <3>1. Passed(d, m)
      <4>1. CASE d = c
        BY <1>1, <1>2, <2>3, <4>1 DEF Passed, Before, Updated, Updating, Table, Name
      <4>2. CASE d # c
        BY <1>1, <4>2 DEF Passed, Before, Updated, Updating, Busy
      <4>. QED
        BY <4>1, <4>2
    <3>2. Good(m, proc[d].rel) /\ db'[m] = db[m]
      BY <1>1, <1>8, <2>1, <2>3, <3>1 DEF PassedGood, Table
    <3>. QED
      BY <1>7, <2>1, <2>3, <3>2 DEF Good, UpToDate
  <2>. QED
    BY <2>2, <2>3
<1>14. FilterLast'
  <2> SUFFICES ASSUME Fresh', NEW m \in {"enrollment", "coverage"}
               PROVE  Good(m, db["filter"].of)'
    BY DEF FilterLast
  <2>1. CASE n = "filter"
    <3>1. Passed(c, m)
      BY <1>1, <2>1 DEF Passed, Before
    <3>2. Good(m, proc[c].rel) /\ db'[m] = db[m] /\ m # n
      BY <1>1, <1>5, <1>8, <2>1, <3>1 DEF PassedGood, Table, Name
    <3>3. db'["filter"].of = proc[c].rel
      BY <1>1, <2>1
    <3>. QED
      BY <1>7, <3>2, <3>3 DEF Good, UpToDate
  <2>2. CASE n # "filter"
    <3>1. db'["filter"] = db["filter"]
      BY <1>1, <2>2 DEF Name
    <3>2. Fresh
      BY <1>1, <1>6, <3>1 DEF Fresh
    <3>3. Good(m, db["filter"].of)
      BY <1>8, <3>2 DEF FilterLast
    <3>4. db["filter"].of.filter = proc[c].rel.filter
      <4>1. CASE db["filter"].of.filter = now.filter
        BY <4>1, <1>5, <1>8, Numbers DEF NotNewer, Published, Older, Name
      <4>2. CASE \E d \in Client : Updating(d) /\
                   db["filter"].of.filter = proc[d].rel.filter
        BY <4>2, <1>9 DEF Current
      <4>. QED
        BY <4>1, <4>2, <3>2 DEF Fresh
    <3>5. CASE m = n
      BY <1>1, <3>1, <3>4, <3>5 DEF Good, UpToDate
    <3>6. CASE m # n
      <4>1. db'[m] = db[m]
        BY <1>1, <3>6 DEF Name
      <4>. QED
        BY <1>7, <3>1, <3>3, <3>6, <4>1 DEF Good, UpToDate
    <3>. QED
      BY <3>5, <3>6
  <2>. QED
    BY <2>1, <2>2
<1>. QED
  BY <1>10, <1>11, <1>12, <1>13, <1>14 DEF Whole

LEMMA UpdateInit == Init => UpdateInv
<1> SUFFICES ASSUME Init PROVE UpdateInv
  OBVIOUS
<1>1. \A c \in Client : /\ proc[c].stage = "idle" /\ proc[c].rel = FirstRelease
                        /\ ~proc[c].shared
  <2>1. PICK x \in Cert :
          proc = [c \in Client |-> [NewRun(x, FALSE) EXCEPT !.stage = "idle"]]
    BY DEF Init
  <2>2. [NewRun(x, FALSE) EXCEPT !.stage = "idle"].stage = "idle"
    BY DEF NewRun
  <2>. QED
    BY <2>1, <2>2 DEF NewRun
<1>2. now = FirstRelease /\ \A n \in Name : db[n].of = FirstRelease
                                            /\ db[n].state = "missing"
  BY DEF Init
<1>3. Published
  BY <1>1, <1>2 DEF Published, Older, FirstRelease
<1>4. Overlaps
  BY <1>1 DEF Overlaps, Busy
<1>5. \A c \in Client : ~Updating(c) /\ ~Updated(c) /\ ~Current(c) /\ ~Replacing(c)
  BY <1>1 DEF Updating, Updated, Current, Replacing, Busy
<1>6. ~Fresh
  BY <1>2 DEF Fresh, Name
<1>. QED
  BY <1>3, <1>4, <1>5, <1>6, TypeInit DEF UpdateInv, Whole, OneRelease, NotNewer,
     PassedGood, FilterLast, AloneStale

(* What a failing tool does to its run.                                     *)
LEMMA ExitOneShape ==
  ASSUME NEW c \in Client, NEW p \in Run, proc \in [Client -> Run],
         ExitOne(c, p)
  PROVE  /\ \A d \in Client \ {c} : proc'[d] = proc[d]
         /\ proc'[c].stage \in {"fetch", "done"}
         /\ proc'[c].shared = p.shared
         /\ proc'[c].cert = p.cert
         /\ proc'[c].rel \in {FirstRelease, p.rel}
         /\ proc'[c].stage = "fetch" => proc'[c].said = "none"
         /\ proc'[c].stage = "done" => /\ proc'[c].said = p.said
                                       /\ proc'[c].rel = p.rel
BY DEF ExitOne, NewRun, Finished

(* The steps of a run fall into those of update_db, those that only load,   *)
(* and those that end it.                                                   *)
LEMMA EndingShape ==
  ASSUME NEW c \in Client, TypeOK, Published,
         Unavailable(c) \/ WriteFails(c) \/ ReadFails(c) \/ Answer(c) \/ Kill(c)
  PROVE  /\ Busy(c)
         /\ \A d \in Client \ {c} : proc'[d] = proc[d]
         /\ proc'[c].stage \in {"idle", "fetch", "done"}
         /\ proc'[c].stage # "idle" => proc'[c].shared = proc[c].shared
         /\ Older(proc'[c].rel, now)
         /\ now' = now /\ db' = db
         /\ ~spoiled' => ~spoiled /\ ~Ruins(c)
<1>1. proc \in [Client -> Run] /\ proc[c] \in Run /\ spoiled \in BOOLEAN
  BY DEF TypeOK
<1>2. Older(FirstRelease, now) /\ Older(proc[c].rel, now)
  BY DEF Published
<1>3. CASE Unavailable(c) \/ WriteFails(c) \/ ReadFails(c)
  <2>1. ExitOne(c, proc[c]) /\ now' = now /\ db' = db /\ Busy(c)
    BY <1>3 DEF Unavailable, WriteFails, ReadFails, Busy
  <2>2. ~spoiled' => ~spoiled /\ ~Ruins(c)
    BY <1>3, <1>1 DEF Unavailable, WriteFails, ReadFails, Ruins
  <2>. QED
    BY <2>1, <2>2, <1>1, <1>2, ExitOneShape
<1>4. CASE Answer(c)
  <2> DEFINE status == StatusOf(proc[c].got, proc[c].cert)
  <2>1. now' = now /\ db' = db /\ Busy(c) /\ spoiled' = spoiled /\ ~Ruins(c)
    BY <1>4 DEF Answer, Busy, Ruins
  <2>2. CASE status = "Revoked"
    <3>1. [proc[c] EXCEPT !.said = status] \in Run
      BY <1>1, StatusType DEF Run
    <3>2. ExitOne(c, [proc[c] EXCEPT !.said = status])
      BY <1>4, <2>2 DEF Answer
    <3>3. /\ [proc[c] EXCEPT !.said = status].shared = proc[c].shared
          /\ [proc[c] EXCEPT !.said = status].rel = proc[c].rel
      BY <1>1 DEF Run
    <3>. QED
      BY <3>1, <3>2, <3>3, <2>1, <1>1, <1>2, ExitOneShape
  <2>3. CASE status # "Revoked"
    <3>1. proc' = [proc EXCEPT ![c] = Finished(proc[c], status, status)]
      BY <1>4, <2>3 DEF Answer
    <3>2. /\ Finished(proc[c], status, status).stage = "done"
          /\ Finished(proc[c], status, status).rel = proc[c].rel
          /\ Finished(proc[c], status, status).shared = proc[c].shared
      BY DEF Finished, NewRun
    <3>. QED
      BY <3>1, <3>2, <2>1, <1>1, <1>2
  <2>. QED
    BY <2>2, <2>3
<1>5. CASE Kill(c)
  <2>1. /\ now' = now /\ db' = db /\ Busy(c)
        /\ spoiled' = (spoiled \/ Ruins(c))
        /\ \A d \in Client \ {c} : proc'[d] = proc[d]
        /\ proc'[c] = [NewRun(proc[c].cert, FALSE) EXCEPT !.stage = "idle"]
    BY <1>5, <1>1 DEF Kill
  <2>2. proc'[c].stage = "idle" /\ proc'[c].rel = FirstRelease
    BY <2>1 DEF NewRun
  <2>. QED
    BY <2>1, <2>2, <1>1, <1>2
<1>. QED
  BY <1>3, <1>4, <1>5

LEMMA LoadingShape ==
  ASSUME NEW c \in Client, TypeOK, Published,
         \/ Read(c) \/ ReadIntermediates(c) \/ AskAgain(c)
         \/ (Open(c) \/ Write(c)) /\ proc[c].file = "intermediates"
  PROVE  /\ Updated(c) /\ Updated(c)'
         /\ \A d \in Client \ {c} : proc'[d] = proc[d]
         /\ proc'[c].rel = proc[c].rel /\ proc'[c].shared = proc[c].shared
         /\ proc'[c].said = proc[c].said
         /\ \A n \in Table : db'[n] = db[n]
         /\ db'["intermediates"].of.filter <= now.filter
         /\ now' = now /\ spoiled' = spoiled
<1>1. proc \in [Client -> Run] /\ proc[c] \in Run
  BY DEF TypeOK
<1>2. /\ proc[c].rel.filter <= now.filter
      /\ db["intermediates"].of.filter <= now.filter
  BY Numbers DEF Published, Older, Name
<1>3. CASE Read(c)
  <2>1. PICK v, m : proc' = [Goto(c, "read", m) EXCEPT ![c].got[proc[c].file] = v]
    BY <1>3 DEF Read
  <2>2. /\ \A d \in Client \ {c} : proc'[d] = proc[d]
        /\ proc'[c].stage = "read" /\ proc'[c].rel = proc[c].rel
        /\ proc'[c].shared = proc[c].shared /\ proc'[c].said = proc[c].said
    BY <1>1, <2>1 DEF Goto, Run
  <2>. QED
    BY <1>2, <1>3, <2>2 DEF Read, Updated, Updating, Busy
<1>4. CASE ReadIntermediates(c)
  <2>1. /\ \A d \in Client \ {c} : proc'[d] = proc[d]
        /\ proc'[c].stage \in {"answer", "open"}
        /\ proc'[c].file = "intermediates" /\ proc'[c].rel = proc[c].rel
        /\ proc'[c].shared = proc[c].shared /\ proc'[c].said = proc[c].said
    BY <1>1, <1>4 DEF ReadIntermediates, Goto, Run
  <2>. QED
    BY <1>2, <1>4, <2>1 DEF ReadIntermediates, Updated, Updating, Busy, Table
<1>5. CASE AskAgain(c)
  <2>1. /\ \A d \in Client \ {c} : proc'[d] = proc[d]
        /\ proc'[c].stage = "read" /\ proc'[c].rel = proc[c].rel
        /\ proc'[c].shared = proc[c].shared /\ proc'[c].said = proc[c].said
    BY <1>1, <1>5 DEF AskAgain, Goto, Run
  <2>. QED
    BY <1>2, <1>5, <2>1 DEF AskAgain, Updated, Updating, Busy
<1>6. CASE Open(c) /\ proc[c].file = "intermediates"
  <2>1. PICK e :
          /\ db' = [db EXCEPT !["intermediates"] =
                      [state |-> "torn", of |-> proc[c].rel]]
          /\ proc' = [Goto(c, "write", "intermediates") EXCEPT
                        ![c].got.intermediates = e]
    BY <1>6 DEF Open
  <2>2. /\ \A d \in Client \ {c} : proc'[d] = proc[d]
        /\ proc'[c].stage = "write" /\ proc'[c].file = "intermediates"
        /\ proc'[c].rel = proc[c].rel
        /\ proc'[c].shared = proc[c].shared /\ proc'[c].said = proc[c].said
    BY <1>1, <2>1 DEF Goto, Run
  <2>3. /\ \A n \in Table : db'[n] = db[n]
        /\ db'["intermediates"].of.filter <= now.filter
    BY <2>1, <1>2 DEF TypeOK, Table, Name
  <2>. QED
    BY <1>6, <2>2, <2>3 DEF Open, Updated, Updating, Busy, Table
<1>7. CASE Write(c) /\ proc[c].file = "intermediates"
  <2>1. /\ db' = [db EXCEPT !["intermediates"] =
                    [state |-> "whole", of |-> proc[c].rel]]
        /\ proc' = Goto(c, "read", "intermediates")
    BY <1>7 DEF Write
  <2>2. /\ \A d \in Client \ {c} : proc'[d] = proc[d]
        /\ proc'[c].stage = "read" /\ proc'[c].file = "intermediates"
        /\ proc'[c].rel = proc[c].rel
        /\ proc'[c].shared = proc[c].shared /\ proc'[c].said = proc[c].said
    BY <1>1, <2>1 DEF Goto, Run
  <2>3. /\ \A n \in Table : db'[n] = db[n]
        /\ db'["intermediates"].of.filter <= now.filter
    BY <2>1, <1>2 DEF TypeOK, Table, Name
  <2>. QED
    BY <1>7, <2>2, <2>3 DEF Write, Updated, Updating, Busy, Table
<1>. QED
  BY <1>3, <1>4, <1>5, <1>6, <1>7

LEMMA UpdateStep == UpdateInv /\ [Next]_vars => UpdateInv'
<1> SUFFICES ASSUME UpdateInv, [Next]_vars PROVE UpdateInv'
  OBVIOUS
<1>1. TypeOK /\ Published /\ Overlaps /\ Whole /\ TypeOK'
  BY TypeStep DEF UpdateInv
<1>2. CASE Publish
  BY <1>1, <1>2, PublishStep DEF UpdateInv
<1>3. ASSUME NEW c \in Client, Step(c) PROVE UpdateInv'
  <2>1. ASSUME NEW x \in Cert, Evaluate(c, x) PROVE UpdateInv'
    BY <1>1, <2>1, EvaluateStep DEF UpdateInv
  <2>2. CASE Fetch(c)
    BY <1>1, <2>2, FetchStep DEF UpdateInv
  <2>3. CASE CheckFilter(c)
    BY <1>1, <2>3, CheckFilterStep DEF UpdateInv
  <2>4. CASE CheckStash(c)
    BY <1>1, <2>4, CheckStashStep DEF UpdateInv
  <2>5. CASE Open(c) /\ proc[c].file \in Table
    BY <1>1, <2>5, OpenStep DEF UpdateInv
  <2>6. CASE Write(c) /\ proc[c].file \in Table
    BY <1>1, <2>6, WriteStep DEF UpdateInv
  <2>7. CASE \/ Read(c) \/ ReadIntermediates(c) \/ AskAgain(c)
             \/ (Open(c) \/ Write(c)) /\ proc[c].file = "intermediates"
    BY <1>1, <2>7, LoadingShape, Loading DEF UpdateInv
  <2>8. CASE Unavailable(c) \/ WriteFails(c) \/ ReadFails(c) \/ Answer(c) \/ Kill(c)
    BY <1>1, <2>8, EndingShape, Inactive DEF UpdateInv
  <2>9. proc[c].file \in Table \/ proc[c].file = "intermediates"
    BY <1>1, Numbers DEF Table
  <2>. QED
    BY <1>3, <2>1, <2>2, <2>3, <2>4, <2>5, <2>6, <2>7, <2>8, <2>9 DEF Step
<1>4. CASE UNCHANGED vars
  <2>. USE <1>4 DEF vars
  <2>1. Published' /\ Overlaps'
    BY <1>1 DEF Published, Overlaps, Busy
  <2>2. ASSUME NEW c \in Client
        PROVE  /\ Updating(c)' = Updating(c) /\ Current(c)' = Current(c)
               /\ Replacing(c)' = Replacing(c)
    BY DEF Current, Updating, Updated, Busy, Replacing
  <2>3. ASSUME NEW c \in Client, NEW n \in Name
        PROVE  Passed(c, n)' = Passed(c, n)
    BY DEF Passed, Before, Updated, Updating, Busy
  <2>4. ASSUME OneRelease, NotNewer, AloneStale
        PROVE  OneRelease' /\ NotNewer' /\ AloneStale'
    BY <2>2, <2>4 DEF OneRelease, NotNewer, AloneStale, UpToDate
  <2>5. ASSUME PassedGood PROVE PassedGood'
    BY <2>2, <2>3, <2>5 DEF PassedGood, Good, UpToDate, Writing, Table
  <2>6. ASSUME FilterLast PROVE FilterLast'
    BY <2>2, <2>6 DEF FilterLast, Fresh, Good, UpToDate, Writing
  <2>7. Whole'
    BY <1>1, <2>4, <2>5, <2>6 DEF Whole
  <2>. QED
    BY <1>1, <2>1, <2>7 DEF UpdateInv
<1>. QED
  BY <1>2, <1>3, <1>4 DEF Next

(* update_db skips what it takes for up to date; nevertheless a successful  *)
(* update leaves the files of one release, unless two runs updated to       *)
(* different releases at the same time or a write was cut short while       *)
(* others ran.                                                              *)
THEOREM UpdatesWhole == Spec => []UpdatedIsWhole
<1>1. UpdateInv => UpdatedIsWhole
  <2> SUFFICES ASSUME UpdateInv, NEW c \in Client, ~spoiled, Updated(c),
                      proc[c].rel = now, NEW n \in Table
               PROVE  UpToDate(n, now) \/ \E d \in Client : Writing(d, n)
    BY DEF UpdatedIsWhole
  <2>. QED
    BY DEF UpdateInv, Whole, PassedGood, Current, Passed, Good
<1>. QED
  BY <1>1, UpdateInit, UpdateStep, PTL DEF Spec

(*------------------------------- the answers ------------------------------*)
LEMMA AnswerInit == Init => AnswerInv
<1> SUFFICES ASSUME Init PROVE AnswerInv
  OBVIOUS
<1>1. PICK x \in Cert :
        proc = [c \in Client |-> [NewRun(x, FALSE) EXCEPT !.stage = "idle"]]
  BY DEF Init
<1>2. \A c \in Client : proc[c].stage = "idle" /\ proc[c].said = "none"
  <2>1. /\ [NewRun(x, FALSE) EXCEPT !.stage = "idle"].stage = "idle"
        /\ [NewRun(x, FALSE) EXCEPT !.stage = "idle"].said = "none"
    BY DEF NewRun
  <2>. QED
    BY <1>1, <2>1
<1>. QED
  BY <1>2, UpdateInit DEF AnswerInv, AloneLoads, SaidLast, AloneListed,
     SaidSettled, AnswerRight, Updated, Busy

(* While a run is alone nobody else takes a step that matters to it.        *)
LEMMA OthersStep ==
  ASSUME NEW c \in Client, NEW d \in Client \ {c}, UpdateInv, Step(d)
  PROVE  /\ proc'[c] = proc[c] \/ (Busy(c) /\ proc'[c].shared
                                   /\ proc'[c].said = proc[c].said
                                   /\ proc'[c].stage = proc[c].stage)
         /\ Busy(c) => proc'[c].shared
<1>1. TypeOK /\ Published /\ Overlaps /\ proc[c] \in Run
  BY DEF UpdateInv, TypeOK
<1>2. ASSUME NEW x \in Cert, Evaluate(d, x)
      PROVE  \/ ~Busy(c) /\ proc'[c] = proc[c]
             \/ Busy(c) /\ proc'[c] = [proc[c] EXCEPT !.shared = TRUE]
  BY <1>2 DEF Evaluate
<1>3. CASE ~\E x \in Cert : Evaluate(d, x)
  <2>1. Busy(d)
    BY <1>3 DEF Step, Busy, Fetch, CheckFilter, CheckStash, Open, Write,
         Unavailable, WriteFails, ReadFails, Read, ReadIntermediates, AskAgain,
         Answer, Kill
  <2>2. Busy(c) => proc[c].shared
    BY <2>1, <1>1 DEF Overlaps
  <2>3. proc'[c] = proc[c]
    <3>1. CASE \/ Fetch(d) \/ CheckFilter(d) \/ CheckStash(d)
      BY <3>1, <1>1 DEF Fetch, CheckFilter, CheckStash, Goto, TypeOK
    <3>2. CASE Open(d) \/ Write(d)
      BY <3>2, <1>1 DEF Open, Write, Goto, TypeOK
    <3>3. CASE Read(d) \/ ReadIntermediates(d) \/ AskAgain(d)
      BY <3>3, <1>1, LoadingShape
    <3>4. CASE \/ Unavailable(d) \/ WriteFails(d) \/ ReadFails(d) \/ Answer(d)
               \/ Kill(d)
      BY <3>4, <1>1, EndingShape
    <3>. QED
      BY <1>3, <3>1, <3>2, <3>3, <3>4 DEF Step
  <2>. QED
    BY <2>2, <2>3
<1>. QED
  BY <1>1, <1>2, <1>3 DEF Run

(* A run that is alone and through with update_db finds its own release.    *)
LEMMA AloneUpToDate ==
  ASSUME NEW c \in Client, NEW n \in Table, UpdateInv, ~spoiled,
         ~proc[c].shared, Current(c), Passed(c, n), ~Writing(c, n)
  PROVE  UpToDate(n, proc[c].rel)
<1>1. Good(n, proc[c].rel)
  BY DEF UpdateInv, Whole, PassedGood
<1>2. ASSUME NEW d \in Client, Writing(d, n) PROVE FALSE
  <2>1. d # c /\ Busy(d) /\ Busy(c)
    BY <1>2 DEF Writing, Busy, Current, Updating, Updated
  <2>. QED
    BY <2>1 DEF UpdateInv, Overlaps
<1>. QED
  BY <1>1, <1>2 DEF Good

LEMMA AloneLoadsStep ==
  ASSUME AnswerInv, TypeOK', NEW c \in Client, Step(c), ~spoiled',
         ~proc'[c].shared, Updated(c)'
  PROVE  \A n \in Table : /\ UpToDate(n, proc[c].rel)'
                          /\ LoadedBefore(c, n)' =>
                               proc'[c].got[n] = Tables(proc[c].rel)'[n]
<1>1. /\ TypeOK /\ Published /\ UpdateInv /\ AloneLoads
      /\ proc \in [Client -> Run] /\ proc[c] \in Run
  BY DEF AnswerInv, UpdateInv, TypeOK
<1>2. CASE CheckStash(c) \/ (Write(c) /\ proc[c].file \in Table)
  <2>1. CASE CheckStash(c)
    <3>1. /\ proc[c].stage = "size" /\ ~proc[c].full
          /\ StashUpToDate(proc[c].rel)
          /\ proc' = Goto(c, "read", "filter") /\ db' = db /\ spoiled' = spoiled
      BY <2>1, <1>1 DEF CheckStash, Updated, Updating, Busy, Goto, Run, Table, Name
    <3>2. /\ proc'[c].rel = proc[c].rel /\ proc'[c].shared = proc[c].shared
          /\ proc'[c].stage = "read" /\ proc'[c].file = "filter"
      BY <3>1, <1>1 DEF Goto, Run
    <3>3. ASSUME NEW n \in Table PROVE UpToDate(n, proc[c].rel)
      <4>1. CASE n = "stash"
        BY <3>1, <4>1, ReleaseAssumption, Numbers, <1>1
           DEF StashUpToDate, UpToDate, Name
      <4>2. CASE n # "stash"
        <5>1. Current(c) /\ Passed(c, n) /\ ~Writing(c, n)
          BY <3>1, <4>2 DEF Current, Updating, Passed, Writing
        <5>. QED
          BY <5>1, <3>1, <3>2, <1>1, AloneUpToDate
      <4>. QED
        BY <4>1, <4>2
    <3>. QED
      BY <3>1, <3>2, <3>3 DEF LoadedBefore, UpToDate
  <2>2. CASE Write(c) /\ proc[c].file \in Table
    <3>1. /\ proc[c].stage = "write" /\ proc[c].file = "stash"
          /\ proc' = Goto(c, "read", "filter") /\ spoiled' = spoiled
          /\ db'["stash"] = [state |-> "whole", of |-> proc[c].rel]
          /\ \A n \in Table \ {"stash"} : db'[n] = db[n]
      <4>1. proc[c].file = "stash"
        <5>1. ASSUME proc[c].file # "stash" PROVE FALSE
          <6>1. proc' = Goto(c, "open", WrittenAfter[proc[c].file])
            BY <5>1, <2>2 DEF Write, Table
          <6>2. WrittenAfter[proc[c].file] \in Table
            BY <5>1, <2>2 DEF WrittenAfter, Table, Name
          <6>. QED
            BY <6>1, <6>2, <1>1 DEF Goto, Updated, Updating, Run
        <5>. QED
          BY <5>1
      <4>. QED
        BY <4>1, <2>2, <1>1 DEF Write, TypeOK, Table, Name
    <3>2. /\ proc'[c].rel = proc[c].rel /\ proc'[c].shared = proc[c].shared
          /\ proc'[c].stage = "read" /\ proc'[c].file = "filter"
      BY <3>1, <1>1 DEF Goto, Run
    <3>3. ASSUME NEW n \in Table, n # "stash" PROVE UpToDate(n, proc[c].rel)
      <4>1. Current(c) /\ Passed(c, n) /\ ~Writing(c, n)
        BY <3>1, <3>3 DEF Current, Updating, Passed, Before, Writing, Table, Name
      <4>. QED
        BY <4>1, <3>1, <3>2, <1>1, AloneUpToDate
    <3>. QED
      BY <3>1, <3>2, <3>3 DEF LoadedBefore, UpToDate
  <2>. QED
    BY <1>2, <2>1, <2>2
<1>3. CASE \/ Read(c) \/ ReadIntermediates(c) \/ AskAgain(c)
           \/ (Open(c) \/ Write(c)) /\ proc[c].file = "intermediates"
  <2>1. /\ Updated(c) /\ spoiled' = spoiled
        /\ proc'[c].rel = proc[c].rel /\ proc'[c].shared = proc[c].shared
        /\ \A n \in Table : db'[n] = db[n]
    BY <1>1, <1>3, LoadingShape
  <2>2. ASSUME NEW n \in Table
        PROVE  /\ UpToDate(n, proc[c].rel)
               /\ LoadedBefore(c, n) => proc[c].got[n] = Tables(proc[c].rel)[n]
    BY <2>1, <1>1 DEF AloneLoads
  <2>3. ASSUME NEW n \in Table PROVE UpToDate(n, proc[c].rel)'
    BY <2>1, <2>2 DEF UpToDate
  <2>4. ASSUME NEW n \in Table, LoadedBefore(c, n)'
        PROVE  proc'[c].got[n] = Tables(proc[c].rel)[n]
    <3>1. CASE Read(c)
      <4> DEFINE f == proc[c].file
      <4>1. /\ db[f].state = "whole" /\ f \in Table
            /\ IF f = "stash" THEN StashesOf(db[f].of) = StashesOf(proc[c].rel)
                              ELSE db[f].of.filter = proc[c].rel.filter
        BY <3>1, <2>2 DEF Read, UpToDate
      <4>2. proc' = [Goto(c, "read", ReadAfter[f]) EXCEPT ![c].got[f] =
                       IF f = "stash" THEN StashesOf(db[f].of) ELSE db[f].of.filter]
        BY <3>1, <4>1 DEF Read
      <4>3. proc[c].stage = "read" /\ proc'[c].stage = "read"
            /\ proc'[c].file = ReadAfter[f]
        BY <3>1, <4>2, <1>1 DEF Read, Goto, Run
      <4>4. proc'[c].got = [proc[c].got EXCEPT ![f] =
                       IF f = "stash" THEN StashesOf(db[f].of) ELSE db[f].of.filter]
        BY <4>2, <1>1 DEF Goto, Run
      <4>5. CASE n = f
        BY <4>1, <4>4, <4>5, <1>1 DEF Tables, Loaded, Run, Table, Name
      <4>6. CASE n # f
        <5>1. LoadedBefore(c, n)
          BY <2>4, <4>1, <4>3, <4>6 DEF LoadedBefore, ReadAfter, Table, Name
        <5>. QED
          BY <5>1, <4>4, <4>6, <2>2, <1>1 DEF Run
      <4>. QED
        BY <4>5, <4>6
    <3>2. CASE AskAgain(c)
      <4>1. proc'[c].stage = "read" /\ proc'[c].file = "filter"
        BY <3>2, <1>1 DEF AskAgain, Goto, Run
      <4>. QED
        BY <4>1, <2>4 DEF LoadedBefore
    <3>3. CASE \/ ReadIntermediates(c)
               \/ (Open(c) \/ Write(c)) /\ proc[c].file = "intermediates"
      <4>1. proc'[c].got[n] = proc[c].got[n]
        BY <3>3, <1>1 DEF ReadIntermediates, Open, Write, Goto, Run, Table, Name
      <4>2. LoadedBefore(c, n)
        BY <3>3 DEF ReadIntermediates, Open, Write, LoadedBefore
      <4>. QED
        BY <4>1, <4>2, <2>2
    <3>. QED
      BY <1>3, <3>1, <3>2, <3>3
  <2>. QED
    BY <2>1, <2>3, <2>4
<1>4. CASE \/ (\E x \in Cert : Evaluate(c, x)) \/ Fetch(c) \/ CheckFilter(c)
           \/ (Open(c) /\ proc[c].file \in Table)
           \/ Unavailable(c) \/ WriteFails(c) \/ ReadFails(c) \/ Answer(c)
           \/ Kill(c)
  <2>1. CASE \E x \in Cert : Evaluate(c, x)
    BY <2>1, <1>1 DEF Evaluate, NewRun, Updated
  <2>2. CASE Fetch(c) \/ CheckFilter(c)
    BY <2>2, <1>1 DEF Fetch, CheckFilter, Updated, Updating, Run
  <2>3. CASE Open(c) /\ proc[c].file \in Table
    BY <2>3, <1>1 DEF Open, Goto, Updated, Updating, Run
  <2>4. CASE \/ Unavailable(c) \/ WriteFails(c) \/ ReadFails(c) \/ Answer(c)
             \/ Kill(c)
    BY <2>4, <1>1, EndingShape DEF Updated, Busy
  <2>. QED
    BY <1>4, <2>1, <2>2, <2>3, <2>4
<1>5. proc[c].file \in Table \/ proc[c].file = "intermediates"
  BY <1>1, Numbers DEF Table
<1>. QED
  BY <1>2, <1>3, <1>4, <1>5 DEF Step

(* Only the tool's answer sets what it said.                                *)
LEMMA OwnSaid ==
  ASSUME NEW c \in Client, AnswerInv, Step(c), proc'[c].said # "none"
  PROVE  /\ Answer(c) /\ proc'[c].stage = "done" /\ spoiled' = spoiled
         /\ proc'[c].said = StatusOf(proc[c].got, proc[c].cert)
         /\ proc'[c].rel = proc[c].rel /\ proc'[c].cert = proc[c].cert
         /\ proc'[c].shared = proc[c].shared
<1>1. /\ TypeOK /\ Published /\ UpdateInv /\ SaidLast
      /\ proc \in [Client -> Run] /\ proc[c] \in Run
  BY DEF AnswerInv, UpdateInv, TypeOK
<1>2. ~(Busy(c) /\ proc'[c].said = proc[c].said)
  BY <1>1 DEF SaidLast, Busy
<1>3. ASSUME NEW x \in Cert, Evaluate(c, x) PROVE FALSE
  BY <1>3 DEF Evaluate, NewRun
<1>4. CASE Fetch(c) \/ CheckFilter(c)
  BY <1>4, <1>1, <1>2 DEF Fetch, CheckFilter, Busy, Run
<1>5. CASE CheckStash(c) \/ Open(c) \/ Write(c)
  BY <1>5, <1>1, <1>2 DEF CheckStash, Open, Write, Goto, Busy, Run
<1>6. CASE Read(c) \/ ReadIntermediates(c) \/ AskAgain(c)
  BY <1>6, <1>1, <1>2, LoadingShape DEF Updated
<1>7. CASE Unavailable(c) \/ WriteFails(c) \/ ReadFails(c)
  <2>1. Busy(c) /\ ExitOne(c, proc[c]) /\ proc[c].said = "none"
    BY <1>7, <1>1 DEF Unavailable, WriteFails, ReadFails, Busy, SaidLast
  <2>. QED
    BY <2>1, <1>1 DEF ExitOne, Finished, NewRun
<1>8. CASE Kill(c)
  BY <1>8, <1>1 DEF Kill, NewRun
<1>9. CASE Answer(c)
  <2> DEFINE status == StatusOf(proc[c].got, proc[c].cert)
             p == [proc[c] EXCEPT !.said = status]
  <2>1. CASE status = "Revoked"
    <3>1. /\ p.said = status /\ p.rel = proc[c].rel /\ p.cert = proc[c].cert
          /\ p.shared = proc[c].shared /\ p.exe = proc[c].exe
      BY <1>1 DEF Run
    <3>2. ExitOne(c, p) /\ spoiled' = spoiled
      BY <1>9, <2>1 DEF Answer
    <3> HIDE DEF p, status
    <3>3. p.exe # "musl"
      BY <3>2, <1>1 DEF ExitOne, NewRun
    <3>4. proc'[c] = Finished(p, p.said, "None")
      BY <3>2, <3>3, <1>1 DEF ExitOne
    <3>. QED
      BY <1>9, <3>1, <3>2, <3>4 DEF Finished, NewRun, status
  <2>2. CASE status # "Revoked"
    <3>1. proc'[c] = Finished(proc[c], status, status) /\ spoiled' = spoiled
      BY <1>9, <2>2, <1>1 DEF Answer
    <3>. QED
      BY <1>9, <3>1 DEF Finished, NewRun
  <2>. QED
    BY <2>1, <2>2
<1>. QED
  BY <1>3, <1>4, <1>5, <1>6, <1>7, <1>8, <1>9 DEF Step

LEMMA SpoiledStays ==
  ASSUME NEW d \in Client, Step(d), spoiled PROVE spoiled'
BY DEF Step, Evaluate, Fetch, CheckFilter, CheckStash, Open, Write, Unavailable,
   WriteFails, ReadFails, Read, ReadIntermediates, AskAgain, Answer, Kill

(* Settled intermediates stay.                                              *)
LEMMA SettledStays ==
  ASSUME NEW d \in Client, UpdateInv, Settled, Step(d)
  PROVE  Settled' /\ listed' = listed
<1>1. TypeOK /\ Published /\ proc \in [Client -> Run] /\ proc[d] \in Run
  BY DEF UpdateInv, TypeOK
<1>2. SUFFICES /\ db'["intermediates"] = db["intermediates"]
               /\ listed' = listed
               /\ \A e \in Client : Intermediating(e)' => Intermediating(e)
  BY DEF Settled
<1>3. ASSUME NEW x \in Cert, Evaluate(d, x)
      PROVE  /\ db'["intermediates"] = db["intermediates"]
             /\ listed' = listed
             /\ \A e \in Client : Intermediating(e)' => Intermediating(e)
  <2>1. ASSUME NEW e \in Client
        PROVE  \/ proc'[e].stage = "fetch"
               \/ proc'[e] = proc[e]
               \/ proc'[e] = [proc[e] EXCEPT !.shared = TRUE]
    BY <1>3 DEF Evaluate, NewRun
  <2>2. ASSUME NEW e \in Client, Intermediating(e)' PROVE Intermediating(e)
    <3>1. proc[e] \in Run
      BY <1>1
    <3>2. proc'[e] = proc[e] \/ proc'[e] = [proc[e] EXCEPT !.shared = TRUE]
      BY <2>1, <2>2 DEF Intermediating
    <3>3. proc'[e].stage = proc[e].stage /\ proc'[e].file = proc[e].file
      BY <3>1, <3>2 DEF Run
    <3>. QED
      BY <3>3, <2>2 DEF Intermediating
  <2>. QED
    BY <1>3, <2>2 DEF Evaluate
<1>4. CASE Fetch(d) \/ CheckFilter(d) \/ CheckStash(d)
  <2>1. ASSUME NEW e \in Client, Intermediating(e)' PROVE Intermediating(e)
    BY <1>4, <2>1, <1>1 DEF Fetch, CheckFilter, CheckStash, Goto, Intermediating,
       Run
  <2>. QED
    BY <1>4, <2>1 DEF Fetch, CheckFilter, CheckStash
<1>5. CASE Open(d) \/ Write(d)
  <2>1. proc[d].file \in Table
    BY <1>5, <1>1, Numbers DEF Open, Write, Settled, Intermediating, Table
  <2>2. /\ db'["intermediates"] = db["intermediates"] /\ listed' = listed
        /\ \A e \in Client \ {d} : proc'[e] = proc[e]
    BY <1>5, <2>1, <1>1 DEF Open, Write, Goto, Table, Name, TypeOK
  <2>3. ~Intermediating(d)'
    <3>1. CASE Open(d)
      BY <3>1, <2>1, <1>1 DEF Open, Goto, Intermediating, Table, Run
    <3>2. CASE Write(d)
      BY <3>2, <2>1, <1>1 DEF Write, Goto, WrittenAfter, Intermediating, Table,
         Name, Run
    <3>. QED
      BY <1>5, <3>1, <3>2
  <2>. QED
    BY <2>2, <2>3 DEF Intermediating
<1>6. CASE Read(d) \/ ReadIntermediates(d) \/ AskAgain(d)
  <2>1. ~Intermediating(d)'
    BY <1>6, <1>1 DEF Read, ReadIntermediates, AskAgain, Goto, Settled,
       Intermediating, Run
  <2>2. \A e \in Client \ {d} : proc'[e] = proc[e]
    BY <1>6, <1>1, LoadingShape
  <2>3. db' = db /\ listed' = listed
    BY <1>6 DEF Read, ReadIntermediates, AskAgain
  <2>. QED
    BY <2>1, <2>2, <2>3 DEF Intermediating
<1>7. CASE \/ Unavailable(d) \/ WriteFails(d) \/ ReadFails(d) \/ Answer(d)
           \/ Kill(d)
  <2>1. listed' = listed
    BY <1>7 DEF Unavailable, WriteFails, ReadFails, Answer, Kill
  <2>. QED
    BY <1>7, <2>1, <1>1, EndingShape DEF Intermediating
<1>. QED
  BY <1>3, <1>4, <1>5, <1>6, <1>7 DEF Step

(* A run that answers alone has the directory's intermediates loaded, and   *)
(* nobody is about to replace them.                                         *)
LEMMA AloneSettled ==
  ASSUME NEW c \in Client, AnswerInv, proc[c].stage = "answer", ~proc[c].shared
  PROVE  Settled /\ proc[c].got.intermediates = listed
<1>1. /\ db["intermediates"].state = "whole"
      /\ proc[c].got.intermediates = listed
  BY DEF AnswerInv, AloneListed
<1>2. ASSUME NEW d \in Client, Intermediating(d) PROVE FALSE
  BY <1>2 DEF Intermediating, AnswerInv, UpdateInv, Overlaps, Busy
<1>. QED
  BY <1>1, <1>2 DEF Settled

LEMMA OwnAnswer ==
  ASSUME NEW c \in Client, AnswerInv, Step(c), ~spoiled', ~proc'[c].shared,
         proc'[c].said # "none"
  PROVE  proc'[c].said = StatusOf(Loaded(proc'[c].rel, listed'), proc'[c].cert)
<1>1. /\ Answer(c) /\ ~spoiled /\ ~proc[c].shared
      /\ proc'[c].said = StatusOf(proc[c].got, proc[c].cert)
      /\ proc'[c].rel = proc[c].rel /\ proc'[c].cert = proc[c].cert
  BY OwnSaid
<1>2. Updated(c) /\ \A n \in Table : LoadedBefore(c, n)
  BY <1>1 DEF Answer, Updated, Updating, Busy, LoadedBefore
<1>3. \A n \in Table : proc[c].got[n] = Tables(proc[c].rel)[n]
  BY <1>1, <1>2 DEF AnswerInv, AloneLoads
<1>4. /\ proc[c].got.enrollment = Loaded(proc[c].rel, listed).enrollment
      /\ proc[c].got.coverage = Loaded(proc[c].rel, listed).coverage
      /\ proc[c].got.filter = Loaded(proc[c].rel, listed).filter
      /\ proc[c].got.stash = Loaded(proc[c].rel, listed).stash
  BY <1>3 DEF Table, Name, Tables, Loaded
<1>5. proc[c].got.intermediates = Loaded(proc[c].rel, listed).intermediates
  BY <1>1, AloneSettled DEF Answer, Loaded
<1>6. listed' = listed
  BY <1>1 DEF Answer
<1>. QED
  BY <1>1, <1>4, <1>5, <1>6 DEF StatusOf, HasIssuer

(* The only step to an answer is from the intermediates, as they are then.  *)
LEMMA OwnListed ==
  ASSUME NEW c \in Client, UpdateInv, Step(c), proc'[c].stage = "answer"
  PROVE  /\ db'["intermediates"].state = "whole"
         /\ proc'[c].got.intermediates = listed'
<1>1. TypeOK /\ Published /\ proc \in [Client -> Run] /\ proc[c] \in Run
  BY DEF UpdateInv, TypeOK
<1>2. ASSUME NEW x \in Cert PROVE ~Evaluate(c, x)
  BY DEF Evaluate, NewRun
<1>3. ~(Fetch(c) \/ CheckFilter(c) \/ CheckStash(c))
  BY <1>1 DEF Fetch, CheckFilter, CheckStash, Goto, Run
<1>4. ~(Open(c) \/ Write(c) \/ Read(c) \/ AskAgain(c))
  BY <1>1 DEF Open, Write, Read, AskAgain, Goto, Run
<1>5. ~(Unavailable(c) \/ WriteFails(c) \/ ReadFails(c) \/ Answer(c) \/ Kill(c))
  BY <1>1, EndingShape
<1>6. ReadIntermediates(c)
  BY <1>2, <1>3, <1>4, <1>5 DEF Step
<1>. QED
  BY <1>6, <1>1 DEF ReadIntermediates, Goto, Run

LEMMA AnswerStep == AnswerInv /\ [Next]_vars => AnswerInv'
<1> SUFFICES ASSUME AnswerInv, [Next]_vars PROVE AnswerInv'
  OBVIOUS
<1>1. UpdateInv /\ UpdateInv' /\ TypeOK' /\ AloneLoads /\ SaidLast /\ AnswerRight
  BY UpdateStep DEF AnswerInv, UpdateInv
<1>2. CASE Publish \/ UNCHANGED vars
  <2>1. proc' = proc /\ db' = db /\ listed' = listed /\ spoiled' = spoiled
    BY <1>2 DEF Publish, vars
  <2>2. AloneLoads' /\ SaidLast' /\ AnswerRight'
    BY <1>1, <2>1 DEF AloneLoads, SaidLast, AnswerRight, Updated, Updating, Busy,
       UpToDate, LoadedBefore
  <2>3. AloneListed' /\ SaidSettled'
    BY <2>1 DEF AnswerInv, AloneListed, SaidSettled, Settled, Intermediating
  <2>. QED
    BY <1>1, <2>2, <2>3 DEF AnswerInv
<1>3. ASSUME NEW d \in Client, Step(d) PROVE AnswerInv'
  <2>1. spoiled => spoiled'
    BY <1>1, <1>3, SpoiledStays
  <2>2. ASSUME NEW c \in Client, c # d
        PROVE  /\ proc'[c] = proc[c] \/ (proc'[c].shared
                     /\ proc'[c].said = proc[c].said
                     /\ proc'[c].stage = proc[c].stage)
               /\ Busy(c) => proc'[c].shared
    BY <1>1, <1>3, <2>2, OthersStep
  <2>3. AloneLoads'
    <3> SUFFICES ASSUME NEW c \in Client, ~spoiled', ~proc'[c].shared,
                        Updated(c)', NEW n \in Table
                 PROVE  /\ UpToDate(n, proc[c].rel)'
                        /\ LoadedBefore(c, n)' =>
                             proc'[c].got[n] = Tables(proc[c].rel)'[n]
      BY DEF AloneLoads
    <3>1. c = d
      <4>1. c # d => Busy(c)
        BY <2>2 DEF Updated, Busy
      <4>. QED
        BY <4>1, <2>2
    <3>2. Step(c)
      BY <3>1, <1>3
    <3>. QED
      BY <3>2, <1>1, AloneLoadsStep
  <2>4. SaidLast'
    <3> SUFFICES ASSUME NEW c \in Client, proc'[c].said # "none"
                 PROVE  proc'[c].stage = "done"
      BY DEF SaidLast
    <3>1. CASE c = d
      BY <3>1, <1>3, OwnSaid
    <3>2. CASE c # d
      BY <3>2, <2>2, <1>1 DEF SaidLast
    <3>. QED
      BY <3>1, <3>2
  <2>5. AnswerRight'
    <3> SUFFICES ASSUME NEW c \in Client, ~spoiled', ~proc'[c].shared,
                        proc'[c].said # "none"
                 PROVE  proc'[c].said
                          = StatusOf(Loaded(proc'[c].rel, listed'), proc'[c].cert)
      BY DEF AnswerRight
    <3>1. CASE c = d
      BY <3>1, <1>3, OwnAnswer
    <3>2. CASE c # d
      <4>1. proc'[c] = proc[c]
        BY <3>2, <2>2
      <4>2. listed' = listed
        BY <4>1, <1>1, <1>3, SettledStays DEF AnswerInv, SaidSettled
      <4>. QED
        BY <4>1, <4>2, <2>1, <1>1 DEF AnswerRight
    <3>. QED
      BY <3>1, <3>2
  <2>6. AloneListed'
    <3> SUFFICES ASSUME NEW c \in Client, ~proc'[c].shared,
                        proc'[c].stage = "answer"
                 PROVE  /\ db'["intermediates"].state = "whole"
                        /\ proc'[c].got.intermediates = listed'
      BY DEF AloneListed
    <3>1. c = d
      <4>1. c # d => Busy(c)
        BY <2>2 DEF Busy
      <4>. QED
        BY <4>1, <2>2
    <3>. QED
      BY <3>1, <1>1, <1>3, OwnListed
  <2>7. SaidSettled'
    <3> SUFFICES ASSUME NEW c \in Client, ~proc'[c].shared,
                        proc'[c].said # "none"
                 PROVE  Settled'
      BY DEF SaidSettled
    <3>1. Settled
      <4>1. CASE c = d
        <5>1. proc[c].stage = "answer" /\ ~proc[c].shared
          BY <4>1, <1>3, OwnSaid DEF Answer
        <5>. QED
          BY <5>1, AloneSettled
      <4>2. CASE c # d
        BY <4>2, <2>2 DEF AnswerInv, SaidSettled
      <4>. QED
        BY <4>1, <4>2
    <3>. QED
      BY <3>1, <1>1, <1>3, SettledStays
  <2>. QED
    BY <1>1, <2>3, <2>4, <2>5, <2>6, <2>7 DEF AnswerInv
<1>. QED
  BY <1>2, <1>3 DEF Next

(* A run that had the directory to itself answers from the one release it   *)
(* fetched, and from nothing older that update_db skipped or load found.    *)
THEOREM AnswersRight == Spec => []AnswerRight
<1>1. AnswerInv => AnswerRight
  BY DEF AnswerInv
<1>. QED
  BY <1>1, AnswerInit, AnswerStep, PTL DEF Spec
=============================================================================
