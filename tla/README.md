# A TLA+ project for trivialscan

trivialscan is a command line scanner: for every configured target (host name
and port) it probes which TLS versions the server speaks, fetches its
certificates and some pages, runs some hundred evaluation tasks over what it
found and writes a report. This directory holds TLA+ modules of its control
logic, TLC configurations that check them on small instances, and theorems
about them that TLAPS proves for every value of the constants. Paths below are
relative to `src/trivialscan/` of the repository unless they start with `src/`
or `.`.

1. [Inventory](#1-inventory) – the system's parts
2. [Plan](#2-plan) – modules written and to be written
3. [Modules](#3-modules-and-the-code) – how state and actions correspond to the code
4. [Runs](#4-runs) – what is checked, with which bounds and fairness
5. [Proofs](#5-proofs) – what holds for every instance, and why
6. [Findings](#6-where-code-and-text-disagree)
7. [What is left out](#7-what-is-not-modelled)

## 1. Inventory

### Scan session and checkpoints (`__init__.py`, `outputs/checkpoint.py`)

*State*: per scan a `Trivialscan` object with its transport and the list
`store.evaluations`; per process the class attribute `_checkpoints`, a set of
names that is never emptied; per machine the files `/tmp/<sha1>.pkl`, one per
phase and target.
*Operations*: `execute_evaluations` runs four phases (certificates, transport,
tls_negotiation, compliance). Each one asks `unfinished`, then either `resume`s
(the file replaces the whole list) or runs its tasks and `mark`s the file; at
the end every collected name is `clear`ed.
*Interaction*: called by both runners; several worker processes and several
command lines share `/tmp`.
*Hard*: a kill between any two file operations, torn writes (`write_bytes`
truncates first), test-then-use windows, lists that do not pickle, restarts
with other options, checkpoints of different runs side by side, two processes
that scan the same target.
*Correct when*: a report holds each phase of its own target once, in order and
derived from what precedes it; a process neither loses nor leaves behind
checkpoints it should not.

### Evaluation loops (`__init__.py`, `evaluations/__init__.py`)

*State*: the loop position and the local variable `result`.
*Operations*: `_evaluatation_module` (skip, import), `task.evaluate`,
`_result_data`, and five exception handlers.
*Hard*: `result` outlives its turn; handlers that record it; certificates times
tasks; the order the compliance tasks rely on.
*Correct when*: each due task has exactly one record per certificate, in order,
with its own value.

### Runners (`cli/scan.py`)

*State*: sequential: the loop and `queries`; parallel: `queue_in`, `queue_out`
with a feeder thread per worker, the pool, the parent's `queries`.
*Operations*: put targets, take, scan, save partial results, put a record or an
error record, collect `num_targets` records, terminate; Ctrl+C in parent and
workers.
*Hard*: interleavings of parent, workers and feeder threads; a worker that
dies takes its target with it, and keeps the locks of the queues it held; records
that cannot be pickled or rebuilt; Ctrl+C at any point.
*Correct when*: at most one entry per target, none vanishes unnoticed, the
command ends.

### TLS probe (`transport/insecure.py`, `transport/__init__.py`, `util.py`)

*State*: `store.tls_state` (negotiated and preferred protocol, offered versions,
certificates) and the server certificate.
*Operations*: `connect_insecure` loops `connect` from SSL 3 upwards until a
certificate was seen, then `specify_tls_version` without a maximum for the
preferred version and once per version for the offered ones.
*Hard*: a dozen attributes assigned one by one inside one big `try`; every
handshake may be refused, closed or spoiled on its own; `do_handshake`
swallows closed connections, and OpenSSL then names a version nobody agreed on.
*Correct when*: what is recorded belongs together, and without network trouble
the probe finds the lowest, the highest and all common versions.

### Evaluation tasks with connections of their own (`evaluations/tls_negotiation`, `evaluations/transport`)

*State*: within one `evaluate` only, and the one SIGALRM alarm of the process.
*Operations*: `tls_robot` sends five messages in up to three rounds and compares
the answers; `long_handshake_intolerance` and `version_intolerance` try five
versions each; `h2c` asks every recorded page for an upgrade;
`client_renegotiation` renegotiates; `crime_vuln` searches without a connection.
*Hard*: an exchange that fails looks like an answer, and a connection that is closed
like a negotiated version; a decorated method called
from a decorated one takes over its alarm; loops that read after the end of a
connection; handshakes on blocking sockets; exceptions that count as a verdict.
*Correct when*: a task ends, and reports nothing the server did not do.

`version_interference` and `fallback_scsv` read the state of the probe and are
modelled with it.

### HTTP transport and the tasks over pages (`HTTPTransport`, `evaluations/transport/header_*.py`)

*State*: `http_states` (the recorded pages), a cached session.
*Operations*: for every request path HEAD and GET of robots.txt, then the page;
fourteen tasks look for texts in the headers of the recorded pages.
*Hard*: robots.txt is asked for again for every path, and each request may fail.
*Correct when*: what robots.txt forbids is not requested once it was read, and
the verdicts speak of the pages that were.

### OCSP and client authentication (`transport/__init__.py`)

`get_ocsp_response` tries five hash algorithms until one response has the
expected serial number; a callback stores stapled responses per connection.
*Hard*: what is returned when no response matches.

### Certificates and chain assembly (`certificate.py`, `util.py`)

*State*: the list of classed certificates of a target.
*Operations*: `get_certificates` looks up the trusted roots of what was presented
and walks down from them; `basic_constraints_path_length` and
`valid_certificate_chain` judge the result. `LeafCertificate` also has lazy
attributes, which are data here.
*Hard*: chains that are incomplete, unordered, doubled or cyclic; a depth counter
shared by siblings; one dictionary that decides both place and class.
*Correct when*: every certificate that belongs to the target is listed once, with
the right class.

### Certificate and compliance tasks (`evaluations/*`)

Mostly one predicate each over an X.509 object or over earlier results; the
on-disk filter of `revocation_crlite` is a component of its own.

### Configuration (`config/__init__.py`, `cli/__main__.py`, `cli/generate.py`)

*State*: the user's file and those in the working directory.
*Operations*: `generate` asks for targets and writes a file; `scan` merges
built-in, user and custom configuration by key, type or host name, validates, and
applies its options.
*Hard*: repeated hosts, entries without the key, empty lists, files read while they
are rewritten, defaults that are copied and removed.
*Correct when*: each target is what the uppermost layer that speaks of it says.

### Outputs and change tracking (`outputs/*.py`)

*State*: the report (`data` of `save_final`) and the JSON files of this and earlier
scans.
*Operations*: `save_final` writes every configured file; `save_to` first reads the
previous report with `--track-changes`, whose differences `track_delta` finds and
`merge_lists_by_value` adds to the queries.
*Interaction*: called by `scan` after the runner; the files may be the very
ones the next output, or the next scan, compares with.
*Hard*: pairing of hosts, ports and certificates; predecessors that are torn,
missing or of other targets; several outputs; repeated merging.
*Correct when*: a report holds what its own scan found, of each target.

### Cloud upload (`util.py`: `update_cloud`, `_send_files`, `upload_cloud`)

*State*: the server's documents, the reports accepted so far.
*Operations*: one request per report and per list of evaluations, then one per
certificate; `scan` prints SAVED or that the servers cannot be reached.
*Hard*: each request may be refused, time out after it was served, be
interrupted or raise, with others before and after it.
*Correct when*: documents that refer to each other are stored in that order, never
before the files on disk, and the message is true.

### Credentials and registration (`cli/credentials.py`, `register.py`, `auth.py`, `info.py`)

*State*: the keyring, the credentials file, the server's tokens.
*Operations*: `register` and `auth` obtain or check a token and save it to the
keyring, or else the file; `scan` and `info` look it up again.
*Hard*: a keyring that fails at either call, a file emptied and rewritten in place,
commands that overlap (two of them may write into the file on top of each other) or are
stopped, a key that joins two names.
*Correct when*: what was saved last is found, and no token passes for another
account's.

### DNSSEC and helper algorithms (`util.py`)

`get_dnssec_answer`, the `timeout` decorator (modelled with the tasks that use it).

### CRLite tool and task (`src/rust-query-crlite/src/main.rs`, `evaluations/certificate/revocation_crlite.py`)

*State*: a directory, shared by all workers and all scans, with the files
`crlite.enrollment`, `crlite.coverage`, `crlite.filter`, `crlite.stash` and the
intermediates; nothing else survives a run.
*Operations*: the task runs the tool with `--update`, then again on the
certificate, each time with a second executable if the first one fails.
`update_db` compares hash (filter) and size (stash) with the publisher's records
and rewrites what differs; `CRLiteDB::load` reads the files, `query` answers
from enrollment, coverage, stashes and filter. Further commands (`https`,
`signoff`) query other sources.
*Hard*: four files written one after the other without a lock or a rename;
skipping what looks up to date; intermediates that are fetched once and never again; torn
files that still load; the exit code that stands for "revoked" and for errors.
*Correct when*: a successful update leaves the files of one release, and an
answer is that of one release, for the issuers the directory knows.

## 2. Plan

| order | module | subject | state |
|---|---|---|---|
| 1 | `ScanSession` | checkpoints, phases, crashes, resume | written, checked, proved |
| 2 | `ScanReport` | abstract promise of a runner | written, implemented |
| 3 | `WorkerPool`, `SequentialRun` | the two runners | written, checked, proved |
| 4 | `Runner` | the choice between them; implements `ScanReport` | written, checked, proved |
| 5 | `EvaluationLoop` | loops inside the phases | written, checked, proved |
| 6 | `TlsProbe` | version negotiation and its interpretation | written, checked, proved |
| 7 | `CrliteDb` | shared filter directory, its updates and queries | written, checked, proved |
| 8 | `ReportDelivery` | saving, comparison and upload of reports | written, checked, proved |
| 9 | `CommandLine` | generated and layered configuration, options | written, checked, proved |
| 10 | `Credentials` | tokens in keyring, file and server | written, checked, proved |
| 11 | `CertChain` | assembly and judgement of certificates | written, checked |
| 12 | `HttpPages` | robots.txt, pages, tasks over headers | written, checked, proved |
| 13 | `ActiveTasks` | tasks with alarms and connections | written, checked, proved |
| 14 | `TaskRun` | `CertChain`, `HttpPages` and `ActiveTasks` composed | written, checked, proved but for the chain |
| 15 | `ScanSystem` | `Runner` composed with `ScanSession` and `ReportDelivery` | open |

One safety property is checked and not proved: `ChainSound`, of `CertChain` and the tasks about
chains (section 5 says why).

## 3. Modules and the code

### ScanSession

`files` is the directory, `proc[p]` what lives with a process (options, assigned
targets, `_checkpoints`), `scan[p]` what lives with one scan, `pc[p]` the place
between two file operations. The results of a phase are one *batch* that
remembers where they came from: target, phase, the scan that computed them, and
the scans whose results were in the list at that moment. That is all the
properties tell apart. A file holds nothing, a torn pickle or a list.

| action | code |
|---|---|
| `Launch`, `Crash` | start of a process; kill or end at any point |
| `StartTarget` | `trivialscan(...)`: new object, new list |
| `Unfinished` | `self._resume_cp and checkpoint.unfinished(name)` |
| `Resume` | `checkpoint.resume`, which replaces the list; torn or vanished files raise, or yield `None` |
| `Evaluate` | the phase's tasks; any of them may raise |
| `Mark`, `Write` | `checkpoint.mark`: open (truncate), then write; or `TypeError` and no write |
| `Clear`, `Unlink` | the clearing loop: `is_file`, then `unlink` |
| `Report` | the caller turns the store into data |

Assumptions: distinct targets have distinct names (host names that validate do
not end in a digit, so host + port splits uniquely); every phase has a task
that yields a record, so that a list that is `None` fails in `append`.

### ScanReport, WorkerPool, SequentialRun

`ScanReport` says what a runner promises: at most one entry per target; an end
that is complete, cancelled or failed; and nothing missing from a complete
report unless the runner is lossy. `SequentialRun` is lossy (a turn that is cut
short before `queries.append` leaves no entry), `WorkerPool` is not.

In `WorkerPool`, `worker[w]` is where a process is and its variable `target`;
`outbox[w]` is the buffer of its feeder thread, `queue_out` the pipe, `queries`
the parent's list. Both queues are shared by all workers: `get` waits for a target while it
holds the reader lock of `queue_in`, a feeder sends under the writer lock of `queue_out`.
`abandoned` are the locks a worker held when it was killed (`Die`): nobody releases them, so
that no other worker, nor the one the pool starts in its place, can take a target (`Take`) or
send a record (`Feed`) any more. An exception, and so an interrupt, gives a lock back.
`pool.terminate` is taken to return.
Records carry what pickling will do to them: survive, be
dropped in the feeder (before it asks for the lock), or raise in the parent's `get`. `signalled` holds the
processes that have not yet acted on a SIGINT. The history variable `lost`
names targets whose only record is gone. `WorkerInterrupted` follows the
handler of `wrap_trivialscan`: a record for the variable `target` (the current
or the last target), an `UnboundLocalError` before the first one; or
`do_handshake` swallows the interrupt.

`Runner` has both in instances of their own: `mode` says which one `scan` has
chosen, and only that one takes steps. `SequentialRun` and `WorkerPool` share the
list `queries`.

### EvaluationLoop

`phase`, `cert`, `next` are the loops' positions; `result` is the local variable
with its provenance; `Evaluate` covers a value and the five ways to raise.
A configuration of groups, the number of certificates and the possible outcomes
per group are constants; which tasks are skipped is chosen initially.

### TlsProbe

Versions are 1 (SSL 2) to 6 (TLS 1.3). `Handshake(max, how)` is OpenSSL, which
agrees on the highest common version up to `max`; a server without one sends an
alert or closes; `failures` handshakes may be spoiled by server or network.
`Connect` is one turn of the first loop, `Prefer` the handshake without a
maximum, `Offer` a turn of the last loop, `SpecifyRaises` a connection failure
outside any `try`, `Judge` the two tasks. `rejected` is a history variable. The
specification is `ProbeSpec`.

### CrliteDb

A *release* is what the publisher offers: the generation of a full filter, which
comes with its enrollment and coverage tables, and a number of stashes. A file
is missing, torn or whole and remembers the release it was written from. The intermediates
are no part of a release: they are made from the CCADB's report, which has editions of its
own (`Reported`), `listed` being the one `crlite.intermediates` was made from. The file is
fetched when it is missing and never again, and an issuer that it lacks is answered with
`NotEnrolled` before anything of the release is asked (`HasIssuer`, `StatusOf`).
`proc[c]` is one run of the task: the next operation of the tool (`stage`, on
`file`), which executable it uses and what for, `update_db`'s records (`rel`) and
`filter_needs_update` (`full`), the loaded database (`got`) and the answers.

| action | code |
|---|---|
| `Publish` | the publisher adds a stash or a filter (external) |
| `Evaluate` | the task starts on a certificate |
| `Fetch`, `CheckFilter`, `CheckStash` | `update_db`: records, the hash test, the size test |
| `Open`, `Write` | `std::fs::write`: truncate, then write to the end |
| `Unavailable`, `WriteFails`, `ReadFails` | the error returns; the process exits with code 1 |
| `Read`, `ReadIntermediates` | `CRLiteDB::load`, which fetches the intermediates if there are none |
| `AskAgain`, `Answer` | the end of the run with `--update`; `query` and its exit code |
| `Kill` | the scan is killed, its tool with it |

`ExitOne` is `query_crlite`'s `except`: the next executable, or `None`. A torn
enrollment or coverage table may load with fewer entries (`Read`); a stash that ends
between two stashes cannot be told from a shorter one (`Open`).

Two history variables delimit what can be claimed. `shared` says that another run
overlapped with this one. `spoiled` says that two runs were updating to different
releases at once, or that a write was cut short while others ran or while it
wrote the intermediates: the code has no lock, so the directory may then be
left in a mixed state (a run that skipped a file relies on another that never finishes
it). `ReleaseAssumption` says that two different lists of stashes have
different sizes, by which the code recognises them, and that generation 0, a
table without entries, enrolls and covers nothing.

### ReportDelivery

A value in a report is represented by its *origin*, the target and scan that
found it. An entry has the fields `transport`, `tls`, `error` and `evaluations`
(`None` where the dictionary lacks the key); its evaluations are a number per
key, since tracking pairs and multiplies them. Reports are bags of entries:
nothing depends on their order. `disk` and `content` are the JSON files, `server`
the stored documents, `run` is one pass through the end of `scan` (`stage`, the
place in the outputs or queries `next`, the reports accepted so far) and `data`
the queries of `save_final`, which tracking changes while `queries` stays as it is.
`seen` (history) collects the outcomes of all scans.

| action | code |
|---|---|
| `Scan` | a runner returns: each target answered, has an error entry, or none |
| `Open` | `save_to` up to the opening of the file: reads the previous report, tracks, truncates |
| `Write` | the rest of `write_text`; the next output, or the upload |
| `SkipReport`, `SendReport`, `SendEvaluations`, `EndReports`, `SendCertificate` | the loops of `_send_files` |
| `Finish` | `results_urls` and the message of `scan` |
| `Stop` | the process is killed, or an exception nobody handles |

`Post` is a request: it is answered as it should (`"yes"`), refused or its answer
lost (`"no"`), interrupted, or raises; only the first tells that the document is
stored. `TrackDelta` is `track_delta` with its final `merge_lists_by_value`, where
`Pairing` is the two nested loops over all entries. What tracking
does beyond the properties shows in these definitions. Queries have no `key`, so *all* current
entries are merged with *all* results: n targets become n * n entries and more with
each tracked scan, and an entry may carry the `tls` data of the last scan's
other port; a target whose host the previous report lacks vanishes when others
match; an evaluation key that it lacks is dropped, and never comes back.
Without a previous report `--track-changes` raises `UnboundLocalError` before
anything is saved (the guard of `Open`, with `Stop`).

### CommandLine

`files` are the user's configuration and two in the working directory; `gen` is a
`trivial generate`, `scan` a `trivial scan`, `entered` (history) the answers the
generate that completed a file was given. A dictionary is a function on the keys
it has, so that a missing key, an empty list and `None` stay apart. `Picked` is a list at some of its
positions, in order, which is what a comprehension with a condition yields.

| action | code |
|---|---|
| `Generate`, `OpenConfig`, `WriteConfig` | the prompts; `write_text`, which empties the file first |
| `StopGenerate` | an abort, a kill, an error |
| `LoadCustom`, `LoadUser` | `load_config` of either file, `combine_configs`, `_validate_config` |
| `ApplyOptions` | `_scan_config`, then the checks and deletions of `main` |
| `EndScan` | the command is over |

`MergeDicts`, `MergeTargets`, `MergeEvaluations` and `Outputs` are the merges with the
order of their results. What shows in them: annotations are merged by the key `value`,
which none of them has, so that one override replaces all built-in annotations;
of two entries for one host in the user's file the second is lost when the custom
file has other hosts; an emptied custom file counts as none, an emptied user's file fails;
a generated file freezes the defaults of the version that wrote it; and `-T` and
`--cafiles` are overwritten by the defaults of the command line. The properties hold
for what they claim in spite of these. Host names are written without a scheme; a name that
begins with `http` (`httpbin.org`) is refused by the code. `CommandLineAssumption` says what
else is taken for granted of files and dialogues: a list holds dictionaries that are not empty
(the merges drop empty ones), a dialogue yields valid names and numeric ports, and `base.yaml`
has no request path; `FileAssumption`, that a generated file has content; `EvaluationAssumption`,
that `base.yaml` names each evaluation once, with one annotation for a result (`NamesOnce`).

### Credentials

`file` is the credentials file (per account a client and maybe a token), `keyring` the
keyring by `KEYRING_KEY`, `issued` what the server has handed out, `proc[p]` the command
a shell runs, `sound` (history) the last completed save of each account, `mixed` (history) the
accounts in whose sections a token stands that neither of two writes had put there. Names are
sequences of words because a key joins account and client by a hyphen both may contain.

| action | code |
|---|---|
| `Register`, `Auth` | the request; the token is issued or accepted, the answer may be lost |
| `SaveKeyring` | `set_password` and `get_password`, each of which may fail |
| `ReadConfig`, `Open`, `Close` | the file is read, emptied, and filled when it is closed |
| `Stop` | Ctrl+C, a kill, an error; an interrupted command may still write part of its file |
| `Scan`, `LoadLocal` | `load_local`: keyring, then file |
| `Info`, `KeyringRow`, `FileRow` | the rows of `trivial info` |

`Recoverable` excludes what it names: a save that fell back to the file leaves the old
token in the keyring, where it wins; and keys of two accounts may coincide. Without a credentials
file `load_local` fails although the keyring has the token (`LoadLocal` has a guard).

The file is emptied when it is opened and written from its start when it is closed (`Flush`). Two
commands that have both opened it before either closes write on top of each other: where the
second text is shorter, the end of the first stays behind it (`Overlay`). What that makes depends
on lengths the model leaves open, so all outcomes are admitted: the second text alone; one
that configparser refuses (`Garbled`), which every later command fails on, saves included,
until somebody removes the file; a last value that runs on into what follows (a token or client
nobody has); and a last section that the remaining lines give a token of another section (`RunsInto`). The
last is how a scan can authenticate with a token of another account. `OwnAccount` says that
this is the only way, apart from a keyring entry that stands for two names: the sections in
`mixed` are excluded, which a save that nothing disturbs empties again. `Recoverable`
claims nothing of saves that overlap.

### CertChain, HttpPages, ActiveTasks and TaskRun

`TaskRun` is one scan of a target with one evaluation task: `stage` is the place in
`trivialscan()`. The other modules have no specification of their own and contribute
actions.

`CertChain`: `presented` is what the server sent, `store` the trust stores, `certificates`
the result of `get_certificates`. A certificate is a fingerprint, two key
identifiers, a path length and a key type. `NextChain`, a recursive function, keeps the shared depth counter,
`ByFingerprint` the order and class a Python dictionary leaves.

`HttpPages`: `asking` is the request that is due for path `turn`, `cache` what the session
answers itself, `http_states` the recorded pages; `read` and `decided` are history.
`HeadRobots`, `GetRobots` and `GetPage` are the calls of `_do_request`,
`RequestRaises` an exception it does not handle. `Denied` is `_parse_robots_path`, whose flag
is `Tracking` at each line; the operators below `Names` are the tasks.

`ActiveTasks`: `at` is the place in `evaluate`, `alarm` whose alarm is set, `answers` what the
exchanges have brought, `pending` and `found` the search of `crime_vuln`, `verdict` the
result. `Enter` and `Exit` are the decorator; `AlarmRings` the handler where the code waits,
`AlarmEscapes` where it is elsewhere.

| action | code |
|---|---|
| `Probe` | `TLSTransport.connect` up to `get_certificates` |
| `Pages`, `Evaluate` | `http_probe` for each path; `execute_evaluations` begins |
| `EnterRobot`, `CallOracle`, `OracleReplies`, `OracleFails`, `ConcludeRobot` | `tls_robot` |
| `EnterCrime`, `Visit`, `ConcludeCrime` | `crime_vuln` |
| `EnterAttempts`, `Attempt`, `ConcludeAttempts` | `h2c`, `long_handshake_intolerance`, `version_intolerance` |
| `Renegotiate`, `JudgeRecorded` | `client_renegotiation`; the tasks without a connection |
| `Hang` | a loop or handshake that goes on for ever |

What the definitions show: certificates are listed only below a root found in a store; a leaf
that names no signer is classed as a root, which makes `tls_robot` and
`valid_certificate_chain` not relevant; path lengths are compared with direct children only;
pages with an error status are not recorded, and the header tasks are content with no page
at all; a rule counts only directly below a `User-agent` line for us; `crime_vuln` asks the
server nothing and never answers no; `long_handshake_intolerance` answers no whatever the
server does on builds without `ssl.PROTOCOL_SSLv3`, and `version_intolerance` yes where OpenSSL
refuses invented versions (`build` says what this one does); a server that just closes the
connection on an invented version counts as one that accepts it, because `do_handshake` swallows the
exception and OpenSSL names a version all the same; `client_renegotiation` counts
renegotiations that have begun, so it answers yes for every server that stays below TLS 1.3, also
one that then refuses (`Renegotiable`); `h2c` spins after the end of a connection. Redirects, the
session's expiry after 15 minutes and Python's recursion limit are left out. `ScenarioAssumption`
says that paths and the lines of robots.txt are lists.

## 4. Runs

| run | question | bounds |
|---|---|---|
| `ScanSession_pool` | Do workers with different targets disturb each other, and what do kills and restarts leave? | 2 processes, 2 targets, 2 scans: both run at once, or the second finds what the first left at any point (checkpoints are cleared one by one, so every subset of phases can be what it finds) |
| `ScanSession_overlap` | Can two processes that race for one target mix results? | 2 processes, 1 target, 2 scans |
| `Runner` | Where is each target, whoever dies; which does a report lack; does the command end? | 2 workers, 2 targets (one worker may take both), 2 deaths, 1 interrupt that signals up to three processes, in either mode; no symmetry |
| `EvaluationLoop` | Is each record the right one? | 5 tasks of 4 groups out of order, 2 certificates, all outcomes, all skip sets |
| `TlsProbe` | Is the probe's state consistent and complete? | all servers, alert or close, 3 spoiled handshakes (of at most 11), a client without SSL 3's predecessor |
| `CrliteDb` | Is the directory of one release after an update, and an answer that of one release? | 2 clients, 1 certificate whose status differs between the releases, 2 generations, 1 stash each, 2 editions of the CCADB's report, of which one lacks its issuer, any number of runs, failures and kills |
| `ReportDelivery` | Is a report that of its scan, whatever it is compared with, and is the upload what the scan says? | 3 targets (two ports of one host), lists of one and two, 2 evaluation keys (one of them twice per target), 2 certificates, 2 files, 3 scans |
| `CommandLine` | Are the targets, outputs and levels of a scan those its layers say? | 5 user's and 4 custom files, 4 dialogues, 6 command lines; a generate at any point of a scan |
| `Credentials` | Is what was saved found, and is it one's own? | 2 shells, of which one at a time only reads, names that make keys coincide, 2 tokens, with a keyring that may fail at each call; all ways in which two writes may mix |
| `TaskRun` | Are chains complete, robots.txt kept, verdicts earned, and does every task end? | one leaf with any key identifiers and up to 3 of 5 other certificates in any order, 4 trust stores; 2 paths, 12 robots.txt or none, 4 kinds of page; all answers to both flows of `tls_robot`; all outcomes of five attempts, closed connections included; 2 spoiled exchanges |
| `CrliteDb_revoked`, `CommandLine_skips` | disagreements, see section 6 | |

`MaxAttempt`, `MaxInterrupts`, `MaxDeaths` and `MaxFailures` bound things the
environment does; the program has no such counters. Process and worker symmetry
is used in safety runs only. `CHECK_DEADLOCK FALSE` stands where the
system ends (runners, loops, probe); the scan session always may be started or
killed, so deadlock is checked there. So may the tool. `CONSTRAINT Sound` ends
`CrliteDb`'s behaviours where the directory is spoiled, since its properties claim
nothing from there on. `MaxScan` bounds the scans of `ReportDelivery`: the first
writes the files, the second is compared with them, the third with a compared
report. Its options are tracking against a file that is also the first of two
outputs, and an upload without tracking, which do not meet in the code. `CONSTRAINT
UploadEnds` stops at the first scan after an upload, since what follows
repeats a state with another number, and looks at uploads in the first two scans.
There the system stops after its last scan. The constraints of `Credentials` leave out what says
nothing new: a `scan` and an `info` side by side (`OneReader`), an `info` during the part of a save it
cannot see (`InfoUnderKeyring`: it reads the file once, at its start), what follows a command
that only reads once its result is there (`ReaderEnds`), and a garbled file, with which
every command fails (`GarbledIsRead`; one with a garbled value is still read by a `scan` or `info`).
The runs have 456,120 (`Runner`), 3,861,682 (`CrliteDb`), 1,030,797 (`Credentials`) and 898,266
(`TaskRun`) distinct states.

*Properties worth a word.* `ReportWhole` and `Coherence` say that although
checkpoints of several runs, processes and crashes mix, what is reported is a
list of phases 1 to 4 of the right target, each computed over exactly the
results in front of it. `NewestLast` (one owner per target): results may be
old, but never stand on top of newer ones. `Accounted`: a target that left
`queue_in` is in exactly one place. `WaitsOnlyForLost` and `EndsUnlessLost`: the
parent hangs only if a record was lost, or if a killed worker's lock stands between it and
targets not yet taken or records not yet sent. All of this does happen: a worker
that is killed while it scans, or an exception object that cannot be pickled, leaves the command
waiting for ever, and so does an idle worker killed in `queue_in.get` although nothing is lost
then. The properties say that nothing else does. `RealRecordFirst` and
`ImplementsReport`: a worker that is interrupted while idle records its last
target again; that record comes after the real one, and the report counts as
cancelled even if the parent collects enough records before it acts on its own
signal. `OwnResult`: the handler
of `NoLogEvaluation` never records another turn's value, which rests on the
reset in `evaluate_certificates` and on no other group raising it
(`NoLogAssumption`).

`UpdatedIsWhole`: the hash of the filter vouches for tables it says nothing about;
this works because they are written before it, because every run of a spoiled or
half-written directory sees either the old filter or a complete set, and
because a filter is replaced only by a newer one. Two clients, two generations and
one stash contain each of these cases: an update killed after any file, its
successor with the same or the next release, and two updates to one release
side by side. `AnswerRight` says of a run that was alone which data its answer is made of: the release it
fetched, and the edition the intermediates were once made from (`listed`). So an answer may be
`NotEnrolled` although release and current report say otherwise; with the current edition in
place of `listed` TLC finds the property violated. Everything else in an answer is of one release.

`OwnResults`: merging overwrites a current entry with a result and a result is a
copy with evaluations taken from two reports; still no value of the older one
gets in. `SteadyKept` and `AloneSame` say when tracking can be relied on: with the same targets
in every scan none is lost, also when some of them fail or the previous report is torn; with one target that
always answers nothing is doubled or dropped. Neither holds without its premise (see
section 3). `ReportFirst` and `SavedMeansReports`: the upload ends with the first
report that is not confirmed, so certificates are not sent then, though
"Unable to reach" is printed when earlier reports are stored; evaluations and certificates
that fail are not noticed, so SAVED speaks of reports only.

`TargetsLayered`, `EnteredScanned`: merging keeps each host once with what the uppermost
layer says of it, and a scan of a generated file scans the very ports that were entered; both
are claimed only where no file names a host twice (the second entry may get lost), and for
the file as the last generate completed it. `CertificateOwn`: however hosts repeat, no client
certificate is shown to another host. `OverrideWins`: through two merges with
duplicates the level reported is the uppermost one, and no built-in evaluation is lost or doubled;
claimed of files in which each evaluation, and each result of it, is named once (`NamesOnce`),
since of two entries of one layer either may win.

`ChainSound`: on chains of at most `MaxDepth + 2` certificates (10 in the code; 3 here, and
4 are presented in the run, where a loss is found) the recursion with its shared depth
loses and doubles nothing (`Assembled`), and the three tasks about chains judge the result as if it were
what the server presented. `RobotsKept` holds although each of the two requests for robots.txt may
fail for one path and not for the next, because the first success stays in the session.
`VerdictsEarned` counts spoiled exchanges: one cannot make `tls_robot` see an oracle, since the
second asking differs then; two in the same place can. `version_intolerance` overlooks no more
rejected versions than exchanges were spoiled, not counting those a server rejects by closing. `TasksEnd` names two tasks that
may hang; `tls_robot` has no limit of its own after its first exchange, but every
exchange sets the alarm again.

*Fairness* (`Runner`, `TaskRun`): weak fairness of every step of processes,
workers, feeder threads and pool handler, which the operating system schedules,
and of the alarm, which rings also while a loop spins. Scans end only if servers
answer or close: after `setblocking(1)` a handshake has no limit, and the requests of the
session have none; so the fairness of a scan's end, and of the probe and the pages, is an
assumption on the environment. No fairness for deaths and interrupts. `ProbeEnds` names
the end of the probe instead of the action `Probe`, whose enabledness is
costly to evaluate; nothing else leaves that stage.

Each property of a passing run is accompanied by a mutant operator in the module
it concerns: a plausible slip (a reset left out, a phase cleared for everybody, an
off-by-one) under which TLC finds the property violated.

## 5. Proofs

| module | theorem | argument |
|---|---|---|
| `ScanSession_proofs` | `TypeCorrect` | `TypeOK` is inductive; lemmas on the parts of a state |
| | `CoherenceHolds` | `TypeOK /\ Coherence` is inductive |
| | `FilesHold`, `ScansHold`, `ReportsWhole` | its two parts, and what follows at `"report"` |
| | `NewestComeLast`, `CheckpointsStay`, `NothingStays` | invariant `DisjointInv` |
| `Runner_proofs` | `TypeCorrect`, `SerialInOrder` | invariant `SerialInv` of the sequential runner, `PoolInv` of the other |
| | `TargetsAccounted`, `WaitsForLost`, `RealFirst` | invariant `PoolInv` |
| | `Implements` | step simulation of `ScanReport`, with `EntriesInv` |
| `Target_proofs` | `OwnResults` | loops: the invariant adds where `result` may come from at each place |
| | `CompletesInOrder` | invariant `LoopInv` |
| | `ProbeTypes` | probe: `TypeOK` is inductive |
| | `ProbeConsistent` | invariant `WellRecorded` |
| | `ProbeComplete` | invariant `WellRecorded /\ Covered` |
| `CrliteDb_proofs` | `TypeCorrect` | `TypeOK` is inductive |
| | `UpdatesWhole` | invariant `UpdateInv` |
| | `AnswersRight` | invariant `AnswerInv` |
| `ReportDelivery_proofs` | `TypeCorrect` | invariant `TypeInv`: types, and positions within the outputs and queries |
| | `ResultsOwn` | invariant `OwnInv`; lemmas on `Updated`, `Delta`, `TrackDelta` |
| | `DiskBeforeServer` | invariant `DiskInv` |
| | `ReportsFirst`, `SavedTruly` | invariant `UploadInv` |
| | `TrackingKeeps`, `TrackingAlone` | invariants `SteadyInv`, `AloneInv` |
| `Credentials_proofs` | `TokensOwn` | invariant `OwnInv`: whom each stored and each held token was issued to |
| | `RowsTrue` | invariant `InfoInv` beside `OwnInv` |
| | `SavedStays` | invariant `SaveInv` |
| `CommandLine_proofs` | `TargetsAsLayered`, `CertificatesOwn`, `EnteredAreScanned` | invariant `Inv`; lemmas on `Picked`, `Matches`, `MergeDicts`, `Says` |
| | `OverridesWin` | invariant `Inv`; lemmas on lists merged by a key |
| `TaskRun_proofs` | `KeepsRobots` | invariant `PagesInv`; lemmas on `Tracking` and `Denied` |
| | `EarnsVerdicts` | invariant `Inv`, which is `PagesInv`, `TaskInv` and the property |

`ReportWhole` alone is not inductive: a scan may read a file before it
reports. So the invariant describes every readable file (`FilesCoherent`: phase n's
file holds phases 1..n) and every running scan by the number of phases behind
it (`ScansCoherent`). A resumed file then is what the scan needs at that place,
whoever wrote it; `EvaluatedCoherent` shows that a phase extends a coherent
list to a coherent one, and `FilesStep` that replacing one file keeps the
others, which needs `CacheKeyAssumption` (two names never collide).

`DisjointInv` is about targets that have one owner at a time. What a process remembers,
clears and unlinks is then of its own targets (`OwnNames`), so that nobody else touches what
it has just seen (`NothingLost`); the checkpoints of the phases behind it are in
`_checkpoints`, then among the names to clear, then gone (`Tracked`); and all results it holds
or could resume are from scans up to its own, oldest first (`OldFirst`), which has to be said
of every file, since a later owner may resume any of them (`FilesSorted`).

`PoolInv` follows a record from a feeder thread's buffer through the pipe to the parent's
list. Records of one target are in order in each of the three and between them (`OrderInv`);
that a worker's interrupt record comes after the real one needs to know that nobody else
had the target, and that a record is made only when its scan is over (`OwnerInv`). `CoverInv` says
where a taken target is: being scanned, in a record, or lost; before the first
Ctrl+C it is nowhere else (`CalmInv`), so that a parent that waits with nothing on its way
has collected fewer records than there are targets, and one is lost unless targets or records are
behind an abandoned lock (counted through `SameCardinality`). For the refinement, the report of
`ScanReport` is the list with the repeated records left out, numbered by `Nth`: `NthExtended` says that a new position gets the
next number and leaves the others theirs, and `RecordedIs` that a record appended is a new
entry or none. Nothing is assumed of the number of targets, workers, interrupts and deaths, or
of what pickling does.

`CompleteInOrder` is about the end. `LoopInv` says it of the turns behind the loops'
position at any time; each step passes exactly one due turn (`PassedOne`), or none.

`Complete` is not inductive either: `Covered` adds what the loops have passed
(every common version is still ahead of the first loop; every common version
behind the last loop is offered), and `WellRecorded` that a certificate ends the
first loop, so that an agreed version is the lowest common one. The proofs use
`ProbeAssumption` only; they hold for every set of versions the client library
speaks and any number of spoiled handshakes.

`UpdatedIsWhole` speaks of runs that are through with `update_db`. `UpdateInv` says
what leads there: all releases on disk and in runs were published (`Published`), so
that a filter with the hash of the current one cannot be replaced by an older one
(`NotNewer`); runs that update at the same time have the same release
(`OneRelease`); what a run has checked or written is of its release or being
rewritten (`PassedGood`); a filter that some run takes for up to date comes with
its tables (`FilterLast`), which rests on the order of the writes; and a run that
is alone replaces an old or torn filter only (`AloneStale`), so that it may be
killed at any point. `AnswerInv` adds that a run that is alone loads what it has updated, and that
the edition it has loaded is the directory's for good: once the intermediates are
whole nobody opens them again (`SettledStays`), and what a run alone has fetched is what it
writes (`AloneListed`).
`ReleaseAssumption` is all that is used of the constants: any number of clients,
certificates, generations and stashes.

`OwnResults` speaks of files. `OwnInv` adds the report in memory, and the lemma
`TrackDeltaOwn` that tracking preserves it for any two reports: an entry of the result is
one of the current report, a `Delta`, or a current entry updated by a `Delta`, which
always has evaluations of its own. `DiskInv` says that the outputs already passed are on
disk, unless the file being written is one of them (a path may be configured
twice), and that no document of the scan is stored until all are. `UploadInv` follows the
position in the queries: every report behind it that was due is stored (`Delivered`).
`SteadyInv` says that every readable file and the report being saved have the targets of all
scans, whatever the files were compared with; `AloneInv`, for one target, that its report has a
single entry with the scan's own numbers, for which `TrackOne` computes what the nested loops
make of one pair.
`DeliveryAssumption` requires finite target lists and that `None` is no value.

`OwnAccount` speaks of a scan that has its token. `OwnInv` says where it can come
from: a section of the file holds a token of its account (`FileInv`), a keyring entry
one whose account and client join to its name (`KeyringInv`), and a command that saves
holds a token of its client and, from `ReadConfig` on, the whole of such a file in memory
(`SaveSound`), so that writing back what another command has replaced meanwhile
mixes nothing up. What it writes over another's text does, and the invariant speaks of the
sections outside `mixed` (`FlushOwn`): there a token that neither text had has not come about.
Tokens are only added (`Longer`). Nothing is assumed of the names: that is why the alternative of a shared keyring entry remains in the theorem.
`InfoInv` adds that a row of `info` is built from one account's section and the server's word
on its token, which the variable left from an earlier turn would break. For `Recoverable`,
`SaveInv` says that a save that runs alone has the file it will write in memory, with every
other account as it was stored last (`SaverSound`); as soon as two saves overlap, none is
claimed to be completed. It writes into a file it has emptied and nobody has filled (`OverlayFile`). The assumption
`NoneAssumption`, that `None` and `Garbled` are no values of anything else, is all the proof needs of the constants.

The properties of `CommandLine` are about one state, that of a scan which has started, and
`Inv` only carries along what it was computed from: the layers as they were when they were
read, and that a file completed by `generate` still is what it wrote (`FilesInv`). The work is in
the merge. `Ranks` and `NthRank` say that the positions of a list have numbers in their order,
so that `Picked` is a list with the right members (`PickedList`), without induction.
`MatchPairs` does the same of the nested loops, whose turns are the pairs of positions
(`PairAt`, `TurnOf`, `SamePair`). `IsMerge` sums up the three parts of a merged list: where each
entry comes from, that no host and no new entry of the second list is lost, and that no host
comes to be repeated. `MergedSays` then turns an entry into a lookup in the layers of its host.
For `OverrideWins` the same is said of lists merged by any key (`MergedByKey`): an entry that both
layers have is made of the two, every other one is that of its layer, and each key of either list
is there once. It is used four times: for the evaluations, and for the annotations of each of
them, in both merges. So an annotation of the result can be followed up to the topmost
layer that assigns a level, whose only one it is.

`PagesInv` rests on the session. Nothing is kept that the site would not answer with 200, and
once robots.txt has been read both requests for it are kept (`CacheInv`), so that whatever fails
afterwards, no path escapes its rules. That `Denied`, the code's pass over the lines with its
flag, refuses exactly what `NamedByRobots` says is shown without induction over the file: the flag
at each line has a closed form, and a line where the two differ would have a least one (`Least`).
`RecordedInv` says that the recorded pages are the fetched ones by their number, which
`RecordedStep` carries over a further page; `Recorded` and `PagesJudged` conclude what a verdict
about the pages says of the site. `RobotInv` follows the answers of `tls_robot`: with at most one
fault at most one answer is not the server's, and the loop that goes on for ever has used it up, so that two
rounds which agree are both truthful (`TwoRounds`). `AttemptsInv` says of the other tasks, for each
attempt by itself, that it is the server's or a fault's, and that no more of them are bent than
there were faults. Any number of paths, lines, faults and scenarios is
covered; assumed are `ScenarioAssumption` and that the bounds are numbers.

TLC found these invariants true of the runs' instances: `DisjointInv`
in 755,828 states, `LoopInv` in 704,908, `OwnInv`, `InfoInv` and `SaveInv` in 1,030,797,
`SteadyInv` and `AloneInv` in 2,011,319, `Inv` of `CommandLine` in 2,522,143, `RunnerInv` and
`EntriesInv` in 456,120, `Inv` of `TaskRun` in 898,266, `UpdateInv` and `AnswerInv` in 3,861,682.

Only model-checked: liveness (`EndsUnlessLost`, `TasksEnd`), which the provers do not
reach; and the chain (`ChainSound`). In the run no two certificates
share a key but the versions of one root, and only roots are in a store. Of any certificates the
property is not true: keys may be shared, and a root may be presented cross-signed by one nobody trusts. The
premises under which it would be are those of the run, and that the shared depth loses nothing
on chains of `MaxDepth + 2` depends on how deep each call of the recursion gets, an induction
over its calls. What a fold or a recursive function computes for any input cannot be proved by
induction here; where a proof needs it, the model speaks of positions instead (`Picked`,
`Nth`, `Counted`, `Denied`), and an induction over numbers is the choice of a least one.

## 6. Where code and text disagree

* `CrliteDb_revoked`: the tool reports a revoked certificate with exit code 1, which
  the task takes for an error: no certificate is ever reported as revoked.
* `CommandLine_skips`: `skip_evaluations` of a target or of the defaults has no effect
  on the command line: `main` removes the defaults' list, where alone
  `_evaluatation_module` looks, and the targets' lists are passed as keywords that
  `Trivialscan.__init__` ignores.

`PROJECT.json` quotes the lines. After "Operation cancelled (Ctrl+C)" the sequential
runner scans the next target (`CutShort`). More shows in the definitions without a run of its own. A resumed checkpoint may be
older than the phases it replaces ("resume last scan", `Resume`). `client_renegotiation` reports "Server accepts
client-initiated insecure renegotiation" (its `.yaml`) for servers that refuse it (`Renegotiate`).
With `--track-changes` and no previous report `tracking_file` is unbound and nothing is saved (`Open` of
`ReportDelivery`). Versions the server does
not speak are listed as offered, because the label of the requested maximum stands for
the negotiated one (`Offer`). In `TlsProbe`: SSL 2, which is never tried, always counts as
interfering; and the test for "no downgrade possible using TLS 1.3" compares
two spellings and is never true (`LooksLikeTls13`).

## 7. What is not modelled

Wording, layout and console output; the values of certificates and headers;
file name templates and the partial outputs per host and certificate; OpenSSL, the network and
multiprocessing, which are external and modelled by how the code uses them.
The annotation, threat and compliance details `_result_data` attaches are data.
In the CRLite tool: the `https` and `signoff` commands, and the staging and
development sources, which the scanner never uses. In the probe: session resumption,
ciphers and client authentication; OCSP, whose retry over five hashes keeps nothing but its
last answer. The remaining certificate, TLS and compliance tasks, which are predicates over
one object (`nist_strict` flags ciphers that the table `nist_transition` uses allows).
`get_dnssec_answer`, a chain of DNS queries. `ScanSystem` of section 2: the
kill between the clearing of checkpoints and the saving of a report
loses the scan by construction. Of the components without a module, tables and data classes (`constants.py`, `models.py`), which
have no behaviour, for good.
