------------------------------- MODULE CrliteDb -------------------------------
(***************************************************************************)
(* The CRLite database on disk, the tool that updates and queries it       *)
(* (rust-query-crlite: update_db, CRLiteDB::load, CRLiteDB::query) and the *)
(* evaluation task that runs the tool for every intermediate certificate   *)
(* (evaluations/certificate/revocation_crlite.py).  All workers of a scan, *)
(* and all scans of a machine, share the directory.                        *)
(*                                                                         *)
(* The publisher (Firefox Remote Settings) issues releases: a full filter  *)
(* of some generation with its enrollment and coverage tables, and a       *)
(* growing list of stashes.  A file is missing, torn (it ends where it     *)
(* should not) or whole, and remembers the release it was written from.    *)
(* The CA database (CCADB) publishes a report of the intermediate          *)
(* certificates, in editions of its own: crlite.intermediates is made from *)
(* the edition of the day it is first needed.                              *)
(***************************************************************************)
EXTENDS Integers

CONSTANTS
  Client,       \* processes that evaluate certificates
  Cert,         \* intermediate certificates
  Enrolled, Covered, Filtered,  \* [generation -> certificates]
  Stashed,      \* [<<generation, position>> -> certificates]
  Reported,     \* [edition -> certificates whose issuer the CCADB lists]
  Expired,      \* certificates past their validity
  Size,         \* [list of stashes -> bytes]
  MaxFilter,    \* bound: generations the publisher issues
  MaxStash,     \* bound: stashes per generation
  MaxReport     \* bound: editions of the CCADB report

Generation == 0..MaxFilter    \* 0: tables and filters without entries
Edition == 0..MaxReport       \* 0: no report
Stash == Generation \X (1..MaxStash)
Release == [filter : Generation, stashes : 0..MaxStash]
StashesOf(r) == {<<r.filter, i>> : i \in 1..r.stashes}

(* Size is injective: the code recognises a list of stashes by its size.    *)
ASSUME ReleaseAssumption ==
  /\ MaxFilter \in Nat \ {0} /\ MaxStash \in Nat
  /\ {Enrolled, Covered, Filtered} \subseteq [Generation -> SUBSET Cert]
  /\ Enrolled[0] = {} /\ Covered[0] = {}
  /\ MaxReport \in Nat \ {0} /\ Reported \in [Edition -> SUBSET Cert]
  /\ Stashed \in [Stash -> SUBSET Cert]
  /\ Expired \subseteq Cert
  /\ \A r, s \in Release :
       Size[StashesOf(r)] = Size[StashesOf(s)] => StashesOf(r) = StashesOf(s)

Name == {"enrollment", "coverage", "filter", "stash", "intermediates"}
Table == Name \ {"intermediates"}
Status == {"NotEnrolled", "NotCovered", "Revoked", "Expired", "Good"}
Stage == {"idle", "fetch", "hash", "size", "open", "write", "read", "answer",
          "done"}

VARIABLES
  now,      \* the publisher's current release
  db,       \* the files of the directory
  listed,   \* the edition crlite.intermediates was made from
  proc,     \* what each client is doing
  spoiled   \* (history) the directory has seen a use that may ruin it
vars == <<now, db, listed, proc, spoiled>>

(* One run of the task.  stage and file: the next operation of the tool;    *)
(* exe and command: which tool the task runs, and what for; rel and full:   *)
(* update_db's records and filter_needs_update; got: the loaded database    *)
(* (intermediates: also the report that has been downloaded);               *)
(* said and result: the answer of the tool and of the task; shared          *)
(* (history): another run overlapped.                                       *)
Run == [stage : Stage, file : Name, exe : {"musl", "linux"},
        command : {"update", "x509"}, rel : Release, full : BOOLEAN,
        got : [enrollment : Generation, coverage : Generation,
               filter : Generation, stash : SUBSET Stash,
               intermediates : Edition],
        cert : Cert, said : Status \cup {"none"},
        result : Status \cup {"none", "None"}, shared : BOOLEAN]

NothingLoaded == [enrollment |-> 0, coverage |-> 0, filter |-> 0, stash |-> {},
                  intermediates |-> 0]
FirstRelease == [filter |-> 1, stashes |-> 0]

NewRun(x, overlaps) ==
  [stage |-> "fetch", file |-> "filter", exe |-> "musl", command |-> "update",
   rel |-> FirstRelease, full |-> TRUE, got |-> NothingLoaded, cert |-> x,
   said |-> "none", result |-> "none", shared |-> overlaps]

Init ==
  /\ now = FirstRelease
  /\ listed = 0
  /\ db = [n \in Name |-> [state |-> "missing", of |-> FirstRelease]]
  /\ \E x \in Cert :
       proc = [c \in Client |-> [NewRun(x, FALSE) EXCEPT !.stage = "idle"]]
  /\ spoiled = FALSE

Busy(c) == proc[c].stage \notin {"idle", "done"}
Updating(c) == \/ proc[c].stage \in {"hash", "size"}
               \/ proc[c].stage \in {"open", "write"} /\ proc[c].file \in Table
Writing(c, n) == proc[c].stage = "write" /\ proc[c].file = n

Goto(c, stage, n) == [proc EXCEPT ![c].stage = stage, ![c].file = n]

(* query_crlite returns the first word of the tool's output.                *)
FinishedFirstWord(p, status, result) ==
  [NewRun(p.cert, p.shared) EXCEPT !.stage = "done", !.rel = p.rel,
     !.said = status, !.result = IF result = "None" THEN result ELSE "INFO"]

(* The task ends.                                                           *)
Finished(p, status, result) ==
  [NewRun(p.cert, p.shared) EXCEPT !.stage = "done", !.rel = p.rel,
                                   !.said = status, !.result = result]

(* The tool exits with code 1: check_output raises, and query_crlite tries  *)
(* the other executable or gives up.                                        *)
ExitOne(c, p) ==
  proc' = IF p.exe = "musl"
          THEN [proc EXCEPT ![c] = [NewRun(p.cert, p.shared) EXCEPT
                                      !.exe = "linux"]]
          ELSE [proc EXCEPT ![c] = Finished(p, p.said, "None")]

(* The publisher adds a stash, or replaces the filter.                      *)
Publish ==
  /\ \/ /\ now.stashes < MaxStash
        /\ now' = [now EXCEPT !.stashes = @ + 1]
     \/ /\ now.filter < MaxFilter
        /\ \E k \in 0..MaxStash : now' = [filter |-> now.filter + 1, stashes |-> k]
  /\ UNCHANGED <<db, listed, proc, spoiled>>

(* The task starts on the next certificate.                                 *)
Evaluate(c, x) ==
  /\ ~Busy(c)
  /\ LET others == {d \in Client \ {c} : Busy(d)}
     IN proc' = [d \in Client |->
                   IF d = c THEN NewRun(x, others # {})
                   ELSE IF d \in others THEN [proc[d] EXCEPT !.shared = TRUE]
                   ELSE proc[d]]
  /\ UNCHANGED <<now, db, listed, spoiled>>

(*------------------------------ update_db --------------------------------*)
(* The records of the collection.  Two runs that update to different        *)
(* releases at the same time may ruin the directory.                        *)
Fetch(c) ==
  /\ proc[c].stage = "fetch"
  /\ proc' = [proc EXCEPT ![c].rel = now, ![c].stage = "hash"]
  /\ spoiled' = (spoiled \/ \E d \in Client \ {c} :
                               Updating(d) /\ proc[d].rel # now)
  /\ UNCHANGED <<now, db, listed>>

(* "Skip filter update if existing filter has expected sha256 hash."        *)
CheckFilter(c) ==
  /\ proc[c].stage = "hash"
  /\ proc' = [proc EXCEPT ![c].stage = "size",
                ![c].full = ~ /\ db["filter"].state = "whole"
                              /\ db["filter"].of.filter = proc[c].rel.filter]
  /\ UNCHANGED <<now, db, listed, spoiled>>

(* The stash is kept whenever it exists.                                    *)
StashExists(r) == db["stash"].state # "missing"

(* "Skip stash update if the filter is fresh and the stash on disk has the  *)
(* expected size."                                                          *)
StashUpToDate(r) ==
  /\ db["stash"].state = "whole"
  /\ Size[StashesOf(db["stash"].of)] = Size[StashesOf(r)]

CheckStash(c) ==
  /\ proc[c].stage = "size"
  /\ proc' = IF proc[c].full THEN Goto(c, "open", "enrollment")
             ELSE IF StashUpToDate(proc[c].rel) THEN Goto(c, "read", "filter")
             ELSE Goto(c, "open", "stash")
  /\ UNCHANGED <<now, db, listed, spoiled>>

(* Once its content is downloaded (of the intermediates: from whatever      *)
(* edition the CCADB serves at the moment) std::fs::write truncates the     *)
(* file.  Until it is written to its end it ends anywhere; a stash file     *)
(* that ends between two stashes reads as one with fewer of them.           *)
Open(c) ==
  /\ proc[c].stage = "open"
  /\ LET n == proc[c].file
         r == proc[c].rel
     IN /\ \/ db' = [db EXCEPT ![n] = [state |-> "torn", of |-> r]]
           \/ /\ n = "stash"
              /\ \E k \in 0..r.stashes :
                   db' = [db EXCEPT ![n] = [state |-> "whole",
                                            of |-> [r EXCEPT !.stashes = k]]]
        /\ \E e \in IF n = "intermediates" THEN Edition \ {0}
                                           ELSE {proc[c].got.intermediates} :
             proc' = [Goto(c, "write", n) EXCEPT ![c].got.intermediates = e]
  /\ UNCHANGED <<now, listed, spoiled>>

(* The filter is written before the coverage table.                         *)
WrittenAfterFilterEarly == [enrollment |-> "filter", filter |-> "coverage",
                            coverage |-> "stash"]

WrittenAfter == [enrollment |-> "coverage", coverage |-> "filter",
                 filter |-> "stash"]

Write(c) ==
  /\ proc[c].stage = "write"
  /\ LET n == proc[c].file
     IN /\ db' = [db EXCEPT ![n] = [state |-> "whole", of |-> proc[c].rel]]
        /\ listed' = IF n = "intermediates" THEN proc[c].got.intermediates
                                            ELSE listed
        /\ proc' = CASE n = "stash"         -> Goto(c, "read", "filter")
                     [] n = "intermediates" -> Goto(c, "read", n)
                     [] OTHER               -> Goto(c, "open", WrittenAfter[n])
  /\ UNCHANGED <<now, spoiled>>

(* A download fails, or is not what its digest says.  The filter is fetched *)
(* before its tables are written, the stashes after it.                     *)
Unavailable(c) ==
  /\ \/ proc[c].stage = "fetch"
     \/ /\ proc[c].stage = "open"
        /\ proc[c].file \in {"enrollment", "stash", "intermediates"}
  /\ ExitOne(c, proc[c])
  /\ UNCHANGED <<now, db, listed, spoiled>>

(* What a write that stops half way may ruin: nobody repairs torn           *)
(* intermediates, and other runs may have skipped the file as up to date.   *)
Ruins(c) == /\ proc[c].stage = "write"
            /\ proc[c].shared \/ proc[c].file = "intermediates"

WriteFails(c) ==
  /\ proc[c].stage = "write"
  /\ ExitOne(c, proc[c])
  /\ spoiled' = (spoiled \/ Ruins(c))
  /\ UNCHANGED <<now, db, listed>>

(*---------------------------- CRLiteDB::load ------------------------------*)
ReadAfter == [filter |-> "stash", stash |-> "coverage",
              coverage |-> "enrollment", enrollment |-> "intermediates"]

(* A missing file, or one from_bytes rejects.                               *)
ReadFails(c) ==
  LET n == proc[c].file
  IN /\ proc[c].stage = "read"
     /\ \/ db[n].state = "missing" /\ n # "intermediates"
        \/ db[n].state = "torn"
     /\ ExitOne(c, proc[c])
     /\ UNCHANGED <<now, db, listed, spoiled>>

(* A table that is cut between two entries is read with fewer of them.      *)
Read(c) ==
  LET n == proc[c].file
  IN /\ proc[c].stage = "read"
     /\ n \in Table
     /\ \/ /\ db[n].state = "whole"
           /\ proc' = [Goto(c, "read", ReadAfter[n]) EXCEPT ![c].got[n] =
                         IF n = "stash" THEN StashesOf(db[n].of)
                                        ELSE db[n].of.filter]
        \/ /\ db[n].state = "torn" /\ n \in {"enrollment", "coverage"}
           /\ proc' = [Goto(c, "read", ReadAfter[n]) EXCEPT ![c].got[n] = 0]
     /\ UNCHANGED <<now, db, listed, spoiled>>

(* The intermediates are fetched only if there is no such file: whatever    *)
(* edition it was made from, it stays.                                      *)
ReadIntermediates(c) ==
  /\ proc[c].stage = "read"
  /\ proc[c].file = "intermediates"
  /\ \/ /\ db["intermediates"].state = "whole"
        /\ proc' = [Goto(c, "answer", "intermediates") EXCEPT
                      ![c].got.intermediates = listed]
     \/ /\ db["intermediates"].state = "missing"
        /\ proc' = Goto(c, "open", "intermediates")
  /\ UNCHANGED <<now, db, listed, spoiled>>

(*---------------------------- CRLiteDB::query -----------------------------*)
(* The issuer, whose key all tables go by, is looked up in intermediates.   *)
HasIssuer(d, x) == x \in Reported[d.intermediates]

StatusOf(d, x) ==
  CASE ~HasIssuer(d, x) \/ x \notin Enrolled[d.enrollment] -> "NotEnrolled"
    [] /\ HasIssuer(d, x) /\ x \in Enrolled[d.enrollment]
       /\ x \notin Covered[d.coverage]                     -> "NotCovered"
    [] OTHER -> IF \E s \in d.stash : x \in Stashed[s] THEN "Revoked"
                ELSE IF x \in Expired THEN "Expired"
                ELSE IF x \in Filtered[d.filter] THEN "Revoked" ELSE "Good"

(* The update was asked about no file and exits with code 0; the task runs  *)
(* the tool again, without --update, on the certificate.  Code 1 stands for *)
(* a revoked certificate as well as for an error.                           *)
AskAgain(c) ==
  /\ proc[c].stage = "answer" /\ proc[c].command = "update"
  /\ proc' = [Goto(c, "read", "filter") EXCEPT ![c].command = "x509",
                                               ![c].got = NothingLoaded]
  /\ UNCHANGED <<now, db, listed, spoiled>>

Answer(c) ==
  /\ proc[c].stage = "answer" /\ proc[c].command = "x509"
  /\ LET status == StatusOf(proc[c].got, proc[c].cert)
     IN IF status = "Revoked"
        THEN ExitOne(c, [proc[c] EXCEPT !.said = status])
        ELSE proc' = [proc EXCEPT ![c] = Finished(@, status, status)]
  /\ UNCHANGED <<now, db, listed, spoiled>>

(* The process is killed, the tool with it.                                 *)
Kill(c) ==
  /\ Busy(c)
  /\ proc' = [proc EXCEPT ![c] = [NewRun(@.cert, FALSE) EXCEPT !.stage = "idle"]]
  /\ spoiled' = (spoiled \/ Ruins(c))
  /\ UNCHANGED <<now, db, listed>>

Step(c) ==
  \/ \E x \in Cert : Evaluate(c, x)
  \/ Fetch(c) \/ CheckFilter(c) \/ CheckStash(c) \/ Open(c) \/ Write(c)
  \/ Unavailable(c) \/ WriteFails(c)
  \/ ReadFails(c) \/ Read(c) \/ ReadIntermediates(c)
  \/ AskAgain(c) \/ Answer(c) \/ Kill(c)

Next == Publish \/ \E c \in Client : Step(c)
Spec == Init /\ [][Next]_vars

(*------------------------------ properties --------------------------------*)
(* Releases, files and runs have their types.                               *)
TypeOK ==
  /\ now \in Release
  /\ listed \in Edition
  /\ db \in [Name -> [state : {"missing", "torn", "whole"}, of : Release]]
  /\ proc \in [Client -> Run]
  /\ spoiled \in BOOLEAN

UpToDate(n, r) ==
  /\ db[n].state = "whole"
  /\ IF n = "stash" THEN StashesOf(db[n].of) = StashesOf(r)
                    ELSE db[n].of.filter = r.filter

(* update_db skips what it takes for up to date.  Still, after it has       *)
(* succeeded with the current release every file belongs to that release,   *)
(* unless some run is rewriting it at this moment: whatever earlier runs,   *)
(* killed between any two writes, left behind, and whoever updates to the   *)
(* same release at the same time.                                           *)
Updated(c) == Busy(c) /\ proc[c].stage # "fetch" /\ ~Updating(c)

UpdatedIsWhole ==
  \A c \in Client : ~spoiled /\ Updated(c) /\ proc[c].rel = now =>
    \A n \in Table : UpToDate(n, now) \/ \E d \in Client : Writing(d, n)

(* A run that had the directory to itself answers from one release, the     *)
(* current one when it asked, never from tables of one and a filter or a    *)
(* stash of another; and from the directory's intermediates, those of the   *)
(* one report that was ever fetched for it.  Only these can be behind: a    *)
(* certificate of an issuer that has been listed since is "NotEnrolled".    *)
Loaded(r, e) == [enrollment |-> r.filter, coverage |-> r.filter,
                 filter |-> r.filter, stash |-> StashesOf(r),
                 intermediates |-> e]

AnswerRight ==
  \A c \in Client : LET p == proc[c] IN
    ~spoiled /\ ~p.shared /\ p.said # "none" =>
      p.said = StatusOf(Loaded(p.rel, listed), p.cert)

(* "result_value: Revoked" is one of the results revocation_crlite.yaml     *)
(* annotates: what the tool last said of the certificate is reported.       *)
RevokedReported ==
  \A c \in Client : proc[c].stage = "done" /\ proc[c].said = "Revoked" =>
    proc[c].result = "Revoked"
=============================================================================
