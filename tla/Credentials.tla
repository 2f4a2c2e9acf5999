---------------------------- MODULE Credentials ----------------------------
(***************************************************************************)
(* The registration tokens of a computer: the commands that obtain, save,  *)
(* list and use them (cli/register.py, cli/auth.py, cli/info.py,           *)
(* cli/credentials.py, and the lookup of cli/__main__.py).                 *)
(*                                                                         *)
(* Tokens are the numbers 1, 2, ... in the order the server issues them.   *)
(* Names are sequences of words, since a keyring entry joins account and   *)
(* client by the hyphen that both may contain.                             *)
(***************************************************************************)
EXTENDS Integers, Sequences, FiniteSets

CONSTANTS
    Accounts,       \* account names
    Clients,        \* client names
    Registered,     \* the pairs of both that somebody uses
    Procs,          \* shells a command may run in
    KeyringSupport, \* KEYRING_SUPPORT, found out at import
    MaxTokens,      \* bound: tokens the server issues
    None,           \* Python's None
    Garbled         \* what two writes on top of each other may leave: a file that
                    \* configparser refuses, or a value that runs on into the next

ASSUME CredentialsAssumption ==
    /\ Accounts \subseteq Seq(STRING) /\ Clients \subseteq Seq(STRING)
    /\ Registered \subseteq Accounts \X Clients
    /\ KeyringSupport \in BOOLEAN
    /\ MaxTokens \in Nat /\ None \notin Nat

VARIABLES
    file,    \* the credentials file, None without one
    mixed,   \* history: the accounts into whose sections such writes may have put
             \* another token, until the file is next emptied
    keyring, \* the keyring, by KEYRING_KEY
    issued,  \* the server's tokens: whom each was issued to
    proc,    \* the command each shell runs
    sound    \* history: the last completed save of each account, None when disturbed

vars == <<file, mixed, keyring, issued, proc, sound>>

\* Mutant: The keyring entry is named by the client alone
KeyOfClient(account, client) == client

Key(account, client) == account \o client
Keys == {Key(a, c) : a \in Accounts, c \in Clients}
Section == [client : Clients \cup {Garbled}, token : Nat \cup {None, Garbled}]
File == [Accounts -> Section \cup {None}]
ASSUME NoneAssumption ==
    /\ None # Garbled
    /\ \A v \in {None, Garbled} : v \notin Nat \cup Accounts \cup Clients \cup Section \cup File
NoSections == [a \in Accounts |-> None]
Disturbed == [a \in Accounts |-> None]
Answers == {"valid", "deactivated", "unauthorized"}
Idle == [cmd |-> "idle", at |-> "start", account |-> None, client |-> None,
         token |-> None, inKeyring |-> FALSE, alone |-> TRUE, config |-> NoSections,
         mixed |-> {}, todo |-> {}, authz |-> "unbound", rows |-> {}]

Init ==
    /\ file = None
    /\ mixed = {}
    /\ keyring = [k \in Keys |-> None]
    /\ issued = << >>
    /\ proc = [p \in Procs |-> Idle]
    /\ sound = Disturbed

Set(p, r) == proc' = [proc EXCEPT ![p] = r]

\* Commands inside save_local
Saving == {p \in Procs : proc[p].at \in {"keyring", "config", "open", "write"} /\ proc[p].cmd \in {"register", "auth"}}

-----------------------------------------------------------------------------
(* register and auth: one request, then save_local *)

BeginSave(p, cmd, a, c, t) ==
    /\ proc' = [q \in Procs |->
                 IF q = p THEN [Idle EXCEPT !.cmd = cmd, !.account = a, !.client = c, !.token = t,
                                            !.at = IF KeyringSupport THEN "keyring" ELSE "config",
                                            !.alone = (Saving = {})]
                 ELSE [proc[q] EXCEPT !.alone = FALSE]]
    /\ sound' = IF Saving = {} THEN sound ELSE Disturbed

\* POST /claim/<client>: 201 with a token, or a refusal, or the answer is lost
\* after the server has issued one (an exception, and the token is gone)
Register(p) == \E a \in Accounts, c \in Clients :
    /\ <<a, c>> \in Registered
    /\ proc[p].cmd = "idle"
    /\ Len(issued) < MaxTokens
    /\ issued' = Append(issued, [account |-> a, client |-> c])
    /\ \/ BeginSave(p, "register", a, c, Len(issued'))
       \/ UNCHANGED <<proc, sound>>
    /\ UNCHANGED <<file, mixed, keyring>>

\* POST /auth/<client> with a token the user has: saved when the server accepts it
Auth(p) == \E t \in DOMAIN issued :
    /\ proc[p].cmd = "idle"
    /\ BeginSave(p, "auth", issued[t].account, issued[t].client, t)
    /\ UNCHANGED <<file, mixed, keyring, issued>>

\* set_password and get_password: either may raise, and another process may have
\* replaced the entry in between; the token counts as saved when it is read back
SaveKeyring(p) ==
    /\ p \in Saving /\ proc[p].at = "keyring"
    /\ \E set, confirmed \in BOOLEAN :
        /\ keyring' = IF set THEN [keyring EXCEPT ![Key(proc[p].account, proc[p].client)] = proc[p].token]
                      ELSE keyring
        /\ Set(p, [proc[p] EXCEPT !.at = "config", !.inKeyring = set /\ confirmed])
    /\ UNCHANGED <<file, mixed, issued, sound>>

\* Mutant: The token is left out of the file wherever a keyring is supported
SectionForTrusting(r) == [client |-> r.client, token |-> IF KeyringSupport THEN None ELSE r.token]

\* The section of the account: the client, and the token unless it is in the keyring
SectionFor(r) == [client |-> r.client, token |-> IF r.inKeyring THEN None ELSE r.token]

\* Read the file (or make its directory) and change the account's section in memory.
\* A garbled file raises, for every command and until somebody removes it.
ReadConfig(p) ==
    /\ p \in Saving /\ proc[p].at = "config"
    /\ file # Garbled
    /\ Set(p, [proc[p] EXCEPT !.at = "open", !.mixed = mixed \ {proc[p].account},
                  !.config = [(IF file = None THEN NoSections ELSE file)
                              EXCEPT ![proc[p].account] = SectionFor(proc[p])]])
    /\ UNCHANGED <<file, mixed, keyring, issued, sound>>

\* open(..., "w") empties the file; what is written stays in the buffer until it is closed
Open(p) ==
    /\ p \in Saving /\ proc[p].at = "open"
    /\ file' = NoSections /\ mixed' = {}
    /\ Set(p, [proc[p] EXCEPT !.at = "write"])
    /\ UNCHANGED <<keyring, issued, sound>>

\* What a file may have held; any lines, when it is garbled
Before(old) == IF old # Garbled THEN {old}
               ELSE [Accounts -> {None} \cup [client : Clients \cup {Garbled},
                                              token : DOMAIN issued \cup {None, Garbled}]]
TokenIn(f, a) == IF f \in {None, Garbled} \/ f[a] = None THEN None ELSE f[a].token

\* The last section of a shorter file, once what is left of the longer one follows it:
\* that may start with a token's line, or within one, so that it continues the last value
RunsInto(section, old) ==
    {section} \cup
    IF section.token # None THEN {[section EXCEPT !.token = Garbled]}
    ELSE {[section EXCEPT !.client = Garbled]} \cup
         {[section EXCEPT !.token = TokenIn(old, a)] : a \in Accounts}

\* A buffer is written from the start of the file over what another command has put there
\* since it was emptied.  The end of a longer old file stays: it may repeat a section or an
\* option (configparser refuses that), run into the last section, and add sections
Overlay(new, old) ==
    IF old = NoSections THEN {new}
    ELSE IF new = NoSections THEN {old}
    ELSE {new, Garbled} \cup
         UNION {{[a \in Accounts |-> IF a = last THEN section ELSE IF a \in more THEN was[a] ELSE new[a]] :
                    section \in RunsInto(new[last], was), more \in SUBSET {a \in Accounts : new[a] = None}} :
                last \in {a \in Accounts : new[a] # None}, was \in Before(old)}

Flush(p, part) ==
    /\ file' \in Overlay(part, file)
    /\ mixed' = mixed \cup proc[p].mixed \cup
                  {a \in Accounts : TokenIn(file', a) \notin
                                        {None, TokenIn(proc[p].config, a), TokenIn(file, a)}}

\* The file is closed; register prints the token
Close(p) ==
    /\ p \in Saving /\ proc[p].at = "write"
    /\ Flush(p, proc[p].config)
    /\ sound' = IF ~proc[p].alone THEN sound
                ELSE [sound EXCEPT ![proc[p].account] = [client |-> proc[p].client,
                         token |-> proc[p].token, inKeyring |-> proc[p].inKeyring]]
    /\ Set(p, Idle)
    /\ UNCHANGED <<keyring, issued>>

\* The lines a buffer holds when it is interrupted: some sections, one perhaps without
\* its token (a header without a line counts as no section); none, when it is killed
Parts(f) == {[a \in Accounts |-> IF a \in whole \/ f[a] = None THEN f[a]
                                 ELSE IF a = cut THEN [f[a] EXCEPT !.token = None]
                                 ELSE None] :
             whole \in SUBSET Accounts, cut \in Accounts \cup {None}}

\* Ctrl+C, a kill, or an error nobody handles (no parent directory, no permission, a
\* garbled file): the command ends where it is.  It spoils the account it was saving, and
\* every account when it has emptied the file.
Stop(p) ==
    /\ proc[p].cmd # "idle"
    /\ sound' = IF p \notin Saving THEN sound
                ELSE IF proc[p].at = "write" \/ ~proc[p].alone THEN Disturbed
                ELSE [sound EXCEPT ![proc[p].account] = None]
    /\ IF p \in Saving /\ proc[p].at = "write"
       THEN \E part \in Parts(proc[p].config) : Flush(p, part)
       ELSE UNCHANGED <<file, mixed>>
    /\ Set(p, Idle)
    /\ UNCHANGED <<keyring, issued>>

-----------------------------------------------------------------------------
(* scan: load_local asks the keyring, then the file *)

\* load_keyring: an entry, or nothing (no support, no entry, an exception)
LoadKeyring(a, c) == {None} \cup IF KeyringSupport /\ c \in Clients THEN {keyring[Key(a, c)]} ELSE {}

Scan(p) == \E a \in Accounts, c \in Clients : \E t \in LoadKeyring(a, c) :
    /\ <<a, c>> \in Registered
    /\ proc[p].cmd = "idle"
    /\ Set(p, [Idle EXCEPT !.cmd = "scan", !.account = a, !.client = c, !.token = t, !.at = "file"])
    /\ UNCHANGED <<file, mixed, keyring, issued, sound>>

\* What load_local returns for a keyring token: that one, or else the one of the
\* account's section, whichever client that was written for
TokenOf(creds, a, registrationToken) ==
    IF registrationToken # None \/ creds[a] = None THEN registrationToken ELSE creds[a].token

\* load_credentials and the choice; without a file the scan fails (None has no get), with
\* a garbled one too
LoadLocal(p) ==
    /\ proc[p].cmd = "scan" /\ proc[p].at = "file"
    /\ file \notin {None, Garbled}
    /\ Set(p, [proc[p] EXCEPT !.at = "ended", !.token = TokenOf(file, proc[p].account, proc[p].token),
                              !.mixed = IF proc[p].token = None THEN mixed ELSE {}])
    /\ UNCHANGED <<file, mixed, keyring, issued, sound>>

-----------------------------------------------------------------------------
(* info: reads the file once, then the keyring and the server for each section *)

Info(p) ==
    /\ proc[p].cmd = "idle"
    /\ file \notin {None, Garbled}
    /\ Set(p, [Idle EXCEPT !.cmd = "info", !.at = "rows", !.config = file,
                           !.todo = {a \in Accounts : file[a] # None}])
    /\ UNCHANGED <<file, mixed, keyring, issued, sound>>

\* cloud_sync_status: what the server says of a token, or no answer that counts
\* as valid (offline, no JSON)
CloudSyncStatus(a, c, t) ==
    {"unauthorized"} \cup IF t \in DOMAIN issued /\ issued[t] = [account |-> a, client |-> c]
                          THEN {"valid", "deactivated"} ELSE {}

\* Mutant: The last test is left out, so that the variable keeps the previous row's value
AuthzResultKept(authz, answer) ==
    CASE answer = "valid" -> "Validated"
      [] answer = "deactivated" -> "Deactivated"
      [] answer = "unauthorized" -> authz

\* The local variable authz_result after the three tests on the answer
AuthzResult(authz, answer) ==
    CASE answer = "valid" -> "Validated"
      [] answer = "deactivated" -> "Deactivated"
      [] answer = "unauthorized" -> "Unauthorized"

Row(a, c, t, answer, authz) ==
    [account |-> a, client |-> c, token |-> t, authz |-> AuthzResult(authz, answer)]

\* The first row of an account: the keyring's token
KeyringRow(p) == \E a \in proc[p].todo : \E t \in LoadKeyring(a, proc[p].config[a].client) :
    /\ proc[p].cmd = "info" /\ proc[p].at = "rows"
    /\ IF t = None
       THEN Set(p, [proc[p] EXCEPT !.at = "file", !.account = a, !.token = None])
       ELSE \E answer \in CloudSyncStatus(a, proc[p].config[a].client, t) :
            LET row == Row(a, proc[p].config[a].client, t, answer, proc[p].authz)
            IN Set(p, [proc[p] EXCEPT !.at = "file", !.account = a, !.token = t,
                          !.authz = row.authz, !.rows = @ \cup {row}])
    /\ UNCHANGED <<file, mixed, keyring, issued, sound>>

\* The second row: the file's token, unless it is the keyring's
FileRow(p) ==
    LET a == proc[p].account
        section == proc[p].config[a]
        next == [proc[p] EXCEPT !.at = "rows", !.todo = @ \ {a}]
    IN
    /\ proc[p].cmd = "info" /\ proc[p].at = "file"
    /\ IF section.token \in {None, proc[p].token}
       THEN Set(p, next)
       ELSE \E answer \in CloudSyncStatus(a, section.client, section.token) :
            LET row == Row(a, section.client, section.token, answer, proc[p].authz)
            IN Set(p, [next EXCEPT !.authz = row.authz, !.rows = @ \cup {row}])
    /\ UNCHANGED <<file, mixed, keyring, issued, sound>>

Next ==
    \E p \in Procs :
        \/ Register(p) \/ Auth(p) \/ SaveKeyring(p) \/ ReadConfig(p) \/ Open(p) \/ Close(p)
        \/ Scan(p) \/ LoadLocal(p)
        \/ Info(p) \/ KeyringRow(p) \/ FileRow(p)
        \/ Stop(p)

Spec == Init /\ [][Next]_vars

-----------------------------------------------------------------------------
(* Properties *)

\* The keyring entries of two accounts' clients may be the same one
Collide(a, c) == \E b \in Accounts \ {a}, d \in Clients : b \o d = a \o c

\* Between saves, the token that the last save of an account stored is what a scan
\* of its client finds when the keyring answers, whatever other accounts' saves, failing
\* keyrings, cancelled commands and earlier races preceded it; unless a save into
\* the file left an older token in the keyring, which then wins, or another
\* account's client shares the keyring entry.
Recoverable ==
    Saving = {} => \A a \in Accounts :
        sound[a] # None =>
            LET entry == keyring[Key(a, sound[a].client)]
            IN \/ TokenOf(file, a, entry) = sound[a].token
               \/ ~sound[a].inKeyring /\ entry \notin {None, sound[a].token}
               \/ Collide(a, sound[a].client)

\* A scan never authenticates with a token of another account, however commands
\* overlap, except through a keyring entry that stands for both, or from a section into
\* which two commands have written on top of each other, which they may do when both
\* have opened the file before either closed it.  The account's next save that nobody
\* disturbs puts its own token back, if the file can still be read.
OwnAccount ==
    \A p \in Procs :
        proc[p].cmd = "scan" /\ proc[p].token # None /\ proc[p].account \notin proc[p].mixed =>
            LET owner == issued[proc[p].token]
            IN owner.account = proc[p].account
               \/ owner.account \o owner.client = proc[p].account \o proc[p].client

\* A row of trivial info speaks of its own token: Validated or Deactivated only when that
\* token was issued to that client, whatever the rows before it said
\* (authz_result outlives its turn of the loop).
InfoTruth ==
    \A p \in Procs : \A row \in proc[p].rows :
        row.authz # "Unauthorized" =>
            row.token \in DOMAIN issued /\ issued[row.token] = [account |-> row.account, client |-> row.client]
=============================================================================
