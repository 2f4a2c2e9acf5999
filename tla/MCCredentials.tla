--------------------------- MODULE MCCredentials ---------------------------
EXTENDS Credentials, TLC

\* Account x with client y-z and account x-y with client z share a keyring entry
MCAccounts == {<<"x">>, <<"x", "y">>}
MCClients == {<<"z">>, <<"y", "z">>}
MCRegistered == {<<<<"x">>, <<"y", "z">>>>, <<<<"x", "y">>, <<"z">>>>, <<<<"x">>, <<"z">>>>}

Reading(cmd) == {p \in Procs : proc[p].cmd = cmd}

\* Commands that only read do not disturb each other: one at a time shows all they can see
OneReader == Cardinality(Reading("info") \cup Reading("scan")) <= 1

\* trivial info reads the file at its start: a save that rewrites it later is nothing to it
\* until its own next one, so that the two need not be told apart
InfoUnderKeyring ==
    Reading("info") # {} => \A p \in Saving : proc[p].at \in {"keyring", "config"}

\* What a command that only reads has found is checked once it has found it; what comes
\* after is what would have come without it
ReaderEnds == \A p \in Procs : /\ proc[p].cmd = "scan" => proc[p].at = "file"
                               /\ proc[p].cmd = "info" => proc[p].todo # {}

\* A garbled file fails every command that reads it; from one with a garbled value the
\* commands that read are followed, while the next save is no different from others
GarbledIsRead ==
    /\ file # Garbled
    /\ file # None /\ Saving # {} =>
          \A a \in Accounts : file[a] # None => Garbled \notin {file[a].client, file[a].token}

Shells == Permutations(Procs)
=============================================================================
