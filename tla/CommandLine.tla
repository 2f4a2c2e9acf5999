---------------------------- MODULE CommandLine ----------------------------
(***************************************************************************)
(* From the command line to the targets that are scanned: trivial generate *)
(* writes a configuration file, trivial scan merges the built-in, the      *)
(* user's and the custom configuration, validates the result and applies   *)
(* its options (cli/__main__.py, cli/generate.py, config/__init__.py).     *)
(*                                                                         *)
(* A dictionary is a function on the keys it has.  Lists that are only     *)
(* searched (paths, skipped keys) are sets, and skip stands for both       *)
(* skip_evaluations and skip_evaluation_groups, which the code treats      *)
(* alike.  Host names are written without a scheme, and none begins with   *)
(* "http": of such a name the code would ask for a scheme and refuse it.   *)
(***************************************************************************)
EXTENDS Integers, Sequences, FiniteSets, SequencesExt

CONSTANTS
    Builtin,     \* default_config(): base.yaml and the evaluations' files
    UserConfs,   \* what the user may have in ~/.config/trivial
    CustomConfs, \* what may be in the working directory
    Answers,     \* the domains and ports somebody enters into trivial generate
    Commands,    \* the arguments trivial scan is called with
    Domains,     \* the names validators.domain accepts
    None,        \* Python's None; no file
    Empty        \* a file without content: yaml.safe_load yields None

Paths == {"user", "local", "other"}

IsList(list) == list \in Seq(ToSet(list))
Get(dict, key, default) == IF key \in DOMAIN dict THEN dict[key] ELSE default

\* A list of a file is a list of dictionaries with content, or nothing
IsConf(conf) ==
    \A key \in {"targets", "outputs", "evaluations"} :
        LET list == Get(conf, key, << >>) IN
        list # None => IsList(list) /\ \A i \in DOMAIN list : DOMAIN list[i] # {}

ASSUME CommandLineAssumption ==
    /\ \A c \in UserConfs \cup CustomConfs :
        IsConf(c) /\ DOMAIN c \subseteq {"targets", "outputs", "evaluations", "defaults"}
    /\ {"outputs", "evaluations", "defaults"} = DOMAIN Builtin
    /\ "http_request_path" \notin DOMAIN Builtin.defaults   \* base.yaml has none
    /\ \A answers \in Answers :
        IsList(answers) /\ ToSet(answers) \subseteq [hostname : Domains, port : Nat]   \* _gather_target insists
    /\ \A args \in Commands : IsList(args.targets) /\ args.config_file \in Paths
    /\ None \notin Domains \cup Nat \cup {<< >>}

VARIABLES
    files,   \* the configuration files by path: the user's, DEFAULT_CONFIG, another one
    gen,     \* a trivial generate
    scan,    \* a trivial scan
    entered  \* history: by path, the answers of the generate that completed the file

vars == <<files, gen, scan, entered>>

\* {**dict, **other}
Updated(dict, other) ==
    [k \in DOMAIN dict \cup DOMAIN other |-> IF k \in DOMAIN other THEN other[k] ELSE dict[k]]

\* The entries of a list at these positions, in their order
Nth(positions, k) == CHOOSE i \in positions : Cardinality({j \in positions : j <= i}) = k
Picked(list, positions) == [k \in 1..Cardinality(positions) |-> list[Nth(positions, k)]]

IdleGen == [at |-> "idle", answers |-> << >>, path |-> "local"]
\* The arguments when none is given
NoOptions == [targets |-> << >>, client_pem |-> None, http_path |-> "/", config_file |-> "local",
              errors_only |-> FALSE, json_file |-> None]
IdleScan == [at |-> "idle", args |-> None, custom |-> None, user |-> None, config |-> None, entered |-> None]

Init ==
    /\ files \in {[user |-> u, local |-> c, other |-> None] :
                     u \in UserConfs \cup {None, Empty}, c \in CustomConfs \cup {None, Empty}}
    /\ gen = IdleGen
    /\ scan = IdleScan
    /\ entered = [p \in Paths |-> None]

-----------------------------------------------------------------------------
(* trivial generate *)

\* A target keeps its port only when it is not the default
Target(answer) ==
    IF answer.port \notin {0, 443} THEN answer ELSE [hostname |-> answer.hostname]

\* The file starts from base.yaml
Generated(answers) ==
    [defaults |-> Builtin.defaults,
     outputs |-> <<[type |-> "console"]>>,
     targets |-> [i \in DOMAIN answers |-> Target(answers[i])]]

ASSUME FileAssumption == \A answers \in Answers : Generated(answers) \notin {None, Empty}

\* The prompts.  Another name is asked for only when the file exists and may not be
\* overwritten; a name that is given then is used without asking again.
Generate == \E answers \in Answers, path \in Paths :
    /\ gen.at = "idle"
    /\ path # "local" => files["local"] # None
    /\ gen' = [at |-> "open", answers |-> answers, path |-> path]
    /\ UNCHANGED <<files, scan, entered>>

\* write_text: open for writing empties the file ...
OpenConfig ==
    /\ gen.at = "open"
    /\ files' = [files EXCEPT ![gen.path] = Empty]
    /\ entered' = [entered EXCEPT ![gen.path] = None]
    /\ gen' = [gen EXCEPT !.at = "write"]
    /\ UNCHANGED scan

\* ... which is filled when it is closed
WriteConfig ==
    /\ gen.at = "write"
    /\ files' = [files EXCEPT ![gen.path] = Generated(gen.answers)]
    /\ entered' = [entered EXCEPT ![gen.path] = gen.answers]
    /\ gen' = IdleGen
    /\ UNCHANGED scan

\* An abort at a prompt, Ctrl+C, a kill or a directory that cannot be made
StopGenerate ==
    /\ gen.at # "idle"
    /\ gen' = IdleGen
    /\ UNCHANGED <<files, scan, entered>>

-----------------------------------------------------------------------------
(* Merging of lists of dictionaries *)

\* The pairs of entries with the same key, in the order of the nested loops
Matches(list1, list2, key) ==
    LET n == Len(list2)
        pair(k) == <<((k - 1) \div n) + 1, ((k - 1) % n) + 1>>
        all == [k \in 1..(Len(list1) * n) |-> pair(k)]
    IN Picked(all, {k \in DOMAIN all : Get(list1[all[k][1]], key, None) = Get(list2[all[k][2]], key, None)})

Has(list, key, value) == \E i \in DOMAIN list : Get(list[i], key, None) = value

\* The first entry for each value of the key among those that the other list lacks
Firsts(list, other, key) ==
    Picked(list, {i \in DOMAIN list : LET value == Get(list[i], key, None)
                                     IN ~Has(SubSeq(list, 1, i - 1) \o other, key, value)})

\* Mutant: Entries of the second list are looked up in the result's index
UnmatchedOnce(list1, list2, key) == Firsts(list1, list2, key) \o Firsts(list2, list1, key)

\* What follows them: of the first list one entry per key, of the second all
Unmatched(list1, list2, key) ==
    Firsts(list1, list2, key)
        \o Picked(list2, {i \in DOMAIN list2 : ~Has(list1, key, Get(list2[i], key, None))})

\* _merge_2_lists_of_dicts with _default_dict_merger
MergeDicts(list1, list2, key) ==
    LET m == Matches(list1, list2, key) IN
    [k \in DOMAIN m |-> Updated(list1[m[k][1]], list2[m[k][2]])] \o Unmatched(list1, list2, key)

\* Mutant: The annotations are appended to the built-in ones
EvaluationMergeAppended(item1, item2) ==
    Updated(item1, [label_as |-> Get(item2, "label_as", Get(item1, "label_as", None)),
                    annotate_results |-> Get(item1, "annotate_results", << >>)
                                         \o Get(item2, "annotate_results", << >>)])

\* Two entries of one evaluation: annotations are merged by a key ("value") that none has
EvaluationMerge(item1, item2) ==
    LET annotations == Get(item2, "annotate_results", << >>)
        merged == IF annotations = << >> THEN Get(item1, "annotate_results", << >>)
                  ELSE MergeDicts(Get(item1, "annotate_results", << >>), annotations, "value")
    IN Updated(item1, [label_as |-> Get(item2, "label_as", Get(item1, "label_as", None)),
                       annotate_results |-> merged])

\* merge_lists_by_value for evaluations and for targets: an empty list leaves the other one
MergeEvaluations(list1, list2) ==
    IF list1 = << >> THEN list2 ELSE IF list2 = << >> THEN list1 ELSE
    LET m == Matches(list1, list2, "key") IN
    [k \in DOMAIN m |-> EvaluationMerge(list1[m[k][1]], list2[m[k][2]])] \o Unmatched(list1, list2, "key")

\* Mutant: The user's targets are merged into the custom ones instead
MergeTargetsSwapped(list1, list2) ==
    IF list1 = << >> THEN list2 ELSE IF list2 = << >> THEN list1 ELSE MergeDicts(list2, list1, "hostname")

MergeTargets(list1, list2) ==
    IF list1 = << >> THEN list2 ELSE IF list2 = << >> THEN list1 ELSE MergeDicts(list1, list2, "hostname")

\* The custom outputs, then the user's of other types, or else the built-in ones
Outputs(user, custom) ==
    LET own == Get(custom, "outputs", << >>)
        users == Get(user, "outputs", << >>)
        outputs == own \o Picked(users, {k \in DOMAIN users : \A i \in DOMAIN own : own[i].type # users[k].type})
    IN IF outputs = << >> THEN Builtin.outputs ELSE outputs

-----------------------------------------------------------------------------
(* trivial scan *)

\* A target of the merged configuration with the defaults filled in
Completed(target, defaults) ==
    Updated(target,
        [port |-> IF Get(target, "port", None) \in {None, 0} THEN 443 ELSE target.port,
         http_request_paths |-> {Get(defaults, "http_request_path", "/")}
                                \cup Get(target, "http_request_paths", {}),
         skip |-> Get(defaults, "skip", {}) \cup Get(target, "skip", {})])

\* combine_configs and _validate_config
Combined(user, custom) ==
    LET defaults == Updated(Updated(Builtin.defaults, Get(user, "defaults", << >>)),
                            Get(custom, "defaults", << >>))
        targets == MergeTargets(Get(user, "targets", << >>), Get(custom, "targets", << >>))
    IN [defaults |-> defaults,
        outputs |-> Outputs(user, custom),
        evaluations |-> MergeEvaluations(MergeEvaluations(Builtin.evaluations,
                            Get(user, "evaluations", << >>)), Get(custom, "evaluations", << >>)),
        targets |-> [i \in DOMAIN targets |-> Completed(targets[i], defaults)]]

\* A list left empty in YAML is None, which no merge accepts
Lists(conf) == \A key \in {"targets", "evaluations", "outputs"} : Get(conf, key, << >>) # None

Validates(user, custom) ==
    /\ Lists(user) /\ Lists(custom)
    /\ LET targets == MergeTargets(Get(user, "targets", << >>), Get(custom, "targets", << >>)) IN
       \A i \in DOMAIN targets : Get(targets[i], "hostname", None) \in Domains

\* Mutant: The search for the configured host ends with the first target
CliTargetFirst(args, named, targets) ==
    LET plain == [hostname |-> named.hostname,
                  port |-> IF named.port = None THEN 443 ELSE named.port,
                  client_certificate |-> args.client_pem,
                  http_request_paths |-> {args.http_path}]
    IN IF targets = << >> THEN plain
       ELSE Updated(plain,
                [client_certificate |-> IF args.client_pem = None
                                        THEN Get(targets[1], "client_certificate", None) ELSE args.client_pem])

\* A target named on the command line takes over what the configuration says of its
\* host, except for the port
CliTarget(args, named, targets) ==
    LET same == Picked(targets, {i \in DOMAIN targets : targets[i].hostname = named.hostname})
        plain == [hostname |-> named.hostname,
                  port |-> IF named.port = None THEN 443 ELSE named.port,
                  client_certificate |-> args.client_pem,
                  http_request_paths |-> {args.http_path}]
    IN IF same = << >> THEN plain
       ELSE Updated(plain,
                [client_certificate |-> IF args.client_pem = None
                                        THEN Get(same[1], "client_certificate", None) ELSE args.client_pem,
                 http_request_paths |-> same[1].http_request_paths,
                 skip |-> same[1].skip])

\* The outputs after --errors-only and --json-file
CliOutputs(args, outputs) ==
    LET Without(list, type) == Picked(list, {i \in DOMAIN list : list[i].type # type})
        quiet == IF args.errors_only THEN Without(outputs, "console") ELSE outputs
    IN IF args.json_file = None THEN quiet
       ELSE Append(Without(quiet, "json"), [type |-> "json", path |-> args.json_file])

\* _scan_config
Overridden(args, config) ==
    [config EXCEPT
        !.targets = IF args.targets = << >> THEN @
                    ELSE [i \in DOMAIN args.targets |-> CliTarget(args, args.targets[i], @)],
        !.outputs = CliOutputs(args, @)]

\* main: the three entries of the defaults that every target has a copy of are removed
Defaults(defaults) == [k \in DOMAIN defaults \ {"http_request_path", "skip"} |-> defaults[k]]

\* load_config of the file named by --config-path
LoadCustom == \E args \in Commands :
    /\ scan.at = "idle"
    /\ scan' = [IdleScan EXCEPT !.at = "user", !.args = args, !.entered = entered[args.config_file],
                    !.custom = IF files[args.config_file] \in {None, Empty} THEN << >> ELSE files[args.config_file]]
    /\ UNCHANGED <<files, gen, entered>>

\* load_config of the user's file, of which an empty one is not a dictionary
LoadUser ==
    /\ scan.at = "user"
    /\ LET user == IF files["user"] = None THEN << >> ELSE files["user"] IN
       scan' = IF user # Empty /\ Validates(user, scan.custom)
               THEN [scan EXCEPT !.at = "options", !.user = user, !.config = Combined(user, scan.custom)]
               ELSE [scan EXCEPT !.at = "failed"]
    /\ UNCHANGED <<files, gen, entered>>

ApplyOptions ==
    /\ scan.at = "options"
    /\ LET config == Overridden(scan.args, scan.config)
           valid == \A i \in DOMAIN scan.args.targets : scan.args.targets[i].hostname \in Domains
       IN scan' = IF valid /\ config.targets # << >>
                  THEN [scan EXCEPT !.at = "scanning", !.config = [config EXCEPT !.defaults = Defaults(@)]]
                  ELSE [scan EXCEPT !.at = "failed"]
    /\ UNCHANGED <<files, gen, entered>>

EndScan ==
    /\ scan.at \in {"scanning", "failed"}
    /\ scan' = IdleScan
    /\ UNCHANGED <<files, gen, entered>>

Next ==
    \/ Generate \/ OpenConfig \/ WriteConfig \/ StopGenerate
    \/ LoadCustom \/ LoadUser \/ ApplyOptions \/ EndScan

Spec == Init /\ [][Next]_vars

\* What _evaluatation_module skips, for whichever target: trivialscan() passes a target's
\* own list on as a keyword that Trivialscan.__init__ does not look at
Skipped == Get(scan.config.defaults, "skip", {})

-----------------------------------------------------------------------------
(* Properties *)

Distinct(list, key) ==
    \A i, j \in DOMAIN list : i # j => Get(list[i], key, None) # Get(list[j], key, None)

\* What the layers say of a host: the custom file's entry, then the user's
Layers(host) ==
    LET of(targets) == Picked(targets, {i \in DOMAIN targets : targets[i].hostname = host})
    IN of(Get(scan.custom, "targets", << >>)) \o of(Get(scan.user, "targets", << >>))
Says(host, field, default) ==
    LET layers == Layers(host)
        told == {i \in DOMAIN layers : field \in DOMAIN layers[i]}
    IN IF told = {} THEN default ELSE layers[Nth(told, 1)][field]

Ready == scan.at = "scanning"
Layered == Ready /\ Distinct(Get(scan.user, "targets", << >>), "hostname")
                 /\ Distinct(Get(scan.custom, "targets", << >>), "hostname")

\* Without targets on the command line every host of either file is scanned once, on the
\* port and with the certificate and the paths that the custom file gives, or else the user's,
\* or else the defaults; as long as no file names a host twice.
TargetsLayered ==
    Layered /\ scan.args.targets = << >> =>
        LET targets == scan.config.targets
            path == Get(Get(scan.custom, "defaults", << >>), "http_request_path",
                        Get(Get(scan.user, "defaults", << >>), "http_request_path", "/"))
        IN  /\ Distinct(targets, "hostname")
            /\ {targets[i].hostname : i \in DOMAIN targets} = {h \in Domains : Layers(h) # << >>}
            /\ \A i \in DOMAIN targets :
                LET t == targets[i] IN
                /\ t.port = IF Says(t.hostname, "port", 0) \in {0, None} THEN 443 ELSE Says(t.hostname, "port", 0)
                /\ Get(t, "client_certificate", None) = Says(t.hostname, "client_certificate", None)
                /\ t.http_request_paths = Says(t.hostname, "http_request_paths", {}) \cup {path}

\* A client certificate from a configuration is shown to the host it was configured for
\* and to no other, however the layers repeat hosts and the command line names them.
CertificateOwn ==
    Ready => \A i \in DOMAIN scan.config.targets :
        LET t == scan.config.targets[i] IN
        Get(t, "client_certificate", None) \in
            {None, scan.args.client_pem}
            \cup {Get(layer, "client_certificate", None) : layer \in ToSet(Layers(t.hostname))}

\* What was entered into trivial generate is what a scan of that file scans, port by port,
\* beside the hosts of the user's file (which may move a host to another port).
EnteredScanned ==
    Ready /\ scan.entered # None /\ scan.args.targets = << >> =>
        LET users == Get(scan.user, "targets", << >>)
            foreign(host) == \A k \in DOMAIN users : users[k].hostname # host
            scanned == {<<t.hostname, t.port>> : t \in ToSet(scan.config.targets)}
            asked == {<<a.hostname, IF a.port = 0 THEN 443 ELSE a.port>> : a \in ToSet(scan.entered)}
        IN {x \in scanned : foreign(x[1])} = {x \in asked : foreign(x[1])}

\* The first annotation of a list for a result, as _result_data picks it
LevelFor(annotations, value) ==
    LET fit == {i \in DOMAIN annotations : annotations[i].result_value = value}
    IN IF fit = {} THEN None ELSE annotations[Nth(fit, 1)].result_level

\* A list of evaluations that names each once, with annotations as _result_data reads them:
\* one for a result, and none with the key they are merged by
NamesOnce(list) ==
    /\ IsList(list) /\ Distinct(list, "key")
    /\ \A i \in DOMAIN list :
        LET annotations == Get(list[i], "annotate_results", << >>) IN
        /\ "key" \in DOMAIN list[i]
        /\ IsList(annotations) /\ Distinct(annotations, "result_value")
        /\ \A k \in DOMAIN annotations :
            {"result_value", "result_level"} \subseteq DOMAIN annotations[k] /\ "value" \notin DOMAIN annotations[k]

ASSUME EvaluationAssumption == NamesOnce(Builtin.evaluations)

\* A level that the uppermost layer assigns to a result of an evaluation is the one reported,
\* through the built-in annotations and those of other layers, and every built-in evaluation
\* keeps exactly one entry; as long as no file names an evaluation, or a result of it, twice.
OverrideWins ==
    Ready /\ NamesOnce(Get(scan.user, "evaluations", << >>)) /\ NamesOnce(Get(scan.custom, "evaluations", << >>)) =>
        /\ \A k \in DOMAIN Builtin.evaluations :
            Cardinality({i \in DOMAIN scan.config.evaluations :
                            scan.config.evaluations[i].key = Builtin.evaluations[k].key}) = 1
        /\ \A i \in DOMAIN scan.config.evaluations :
            LET e == scan.config.evaluations[i]
                of(list) == Picked(list, {k \in DOMAIN list : list[k].key = e.key
                                              /\ Get(list[k], "annotate_results", << >>) # << >>})
                layers == of(Get(scan.custom, "evaluations", << >>)) \o of(Get(scan.user, "evaluations", << >>))
            IN layers # << >> =>
                \A a \in ToSet(Head(layers).annotate_results) :
                    LevelFor(e.annotate_results, a.result_value) = a.result_level

\* "skip_evaluations" of a target, or of the defaults, are skipped when it is scanned.
SkipsRespected ==
    Ready => \A i \in DOMAIN scan.config.targets :
        Get(scan.config.targets[i], "skip", {}) \subseteq Skipped
=============================================================================
