--------------------------- MODULE MCCommandLine ---------------------------
EXTENDS CommandLine

\* Annotations of the results TRUE (here 1) and FALSE (0)
Says2(one, zero) == <<[result_value |-> 1, result_level |-> one], [result_value |-> 0, result_level |-> zero]>>

MCBuiltin ==
    [defaults |-> [use_sni |-> TRUE],
     outputs |-> <<[type |-> "console"]>>,
     evaluations |-> <<[key |-> "trust", label_as |-> "Trust", annotate_results |-> Says2("pass", "fail")],
                       [key |-> "hsts", label_as |-> "HSTS", annotate_results |-> Says2("pass", "warn")]>>]

\* Hosts repeated or not, with and without port, certificate, paths and skips; overridden annotations
MCUserConfs == {
    << >>,
    [targets |-> <<[hostname |-> "a", port |-> 8443, client_certificate |-> "of a"],
                   [hostname |-> "b", http_request_paths |-> {"/x"}]>>],
    [targets |-> <<[hostname |-> "a"], [hostname |-> "a", port |-> 8443]>>,
     defaults |-> [http_request_path |-> "/user", skip |-> {"hsts"}],
     evaluations |-> <<[key |-> "own", annotate_results |-> Says2("info", "info")],
                       [key |-> "own", annotate_results |-> Says2("warn", "warn")]>>],
    [targets |-> None],
    [outputs |-> <<[type |-> "json", path |-> "u"], [type |-> "console"]>>,
     evaluations |-> <<[key |-> "trust", annotate_results |-> Says2("fail", "pass")]>>] }

MCCustomConfs == {
    [targets |-> <<[hostname |-> "b", client_certificate |-> "of b"], [hostname |-> "a", port |-> 0]>>],
    [targets |-> <<[hostname |-> "a", port |-> 444, skip |-> {"trust"}]>>,
     outputs |-> <<[type |-> "json", path |-> "c"]>>,
     evaluations |-> <<[key |-> "trust", annotate_results |-> <<[result_value |-> 0, result_level |-> "info"]>>],
                       [key |-> "own", annotate_results |-> Says2("pass", "fail")]>>],
    [targets |-> <<[hostname |-> "b"], [hostname |-> "b", port |-> 8443]>>,
     defaults |-> [http_request_path |-> "/custom"]],
    [targets |-> <<[hostname |-> "not a name"]>>] }

Entry(host, port) == [hostname |-> host, port |-> port]
MCAnswers == {<< >>, <<Entry("a", 443)>>, <<Entry("c", 8443), Entry("c", 443)>>,
              <<Entry("b", 0), Entry("a", 8443)>>}

MCCommands == {
    NoOptions,
    [NoOptions EXCEPT !.config_file = "other", !.json_file = "out"],
    [NoOptions EXCEPT !.targets = <<Entry("a", None)>>, !.errors_only = TRUE],
    [NoOptions EXCEPT !.targets = <<Entry("b", 444), Entry("c", None)>>, !.client_pem = "mine"],
    [NoOptions EXCEPT !.targets = <<Entry("b", None), Entry("c", 443)>>],
    [NoOptions EXCEPT !.targets = <<Entry("not a name", None)>>] }
=============================================================================
