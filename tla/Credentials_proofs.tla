------------------------- MODULE Credentials_proofs -------------------------
(***************************************************************************)
(* Proofs about Credentials, for any accounts, clients, shells and number  *)
(* of tokens.  OwnInv says who every token in the keyring, in the file and *)
(* in a running command was issued to: a scan uses no token of another     *)
(* account, unless two commands have written into its section on top of    *)
(* each other.  InfoInv says the same of the rows of trivial info, and     *)
(* SaveInv where the last save of each account is to be found.             *)
(***************************************************************************)
EXTENDS Credentials, TLAPS

Fields == {"cmd", "at", "account", "client", "token", "inKeyring", "alone", "config", "mixed",
           "todo", "authz", "rows"}

\* A token of this account; one kept under this key; s is the list of issued tokens
Owned(s, t, a) == t # None => t \in DOMAIN s /\ s[t].account = a
KeyOwned(s, t, k) == t # None => t \in DOMAIN s /\ Key(s[t].account, s[t].client) = k

\* A credentials file whose tokens belong to their sections' accounts, except in sections
\* that two writes have mixed
Sections(s, f, m) ==
    /\ DOMAIN f = Accounts
    /\ \A a \in Accounts \ m : f[a] # None => Owned(s, f[a].token, a)

\* A command that saves has a token of its client and, from ReadConfig on, such a
\* file in memory; one that scans has a token as OwnAccount says
SaveSound(s, r) ==
    r.cmd \in {"register", "auth"} =>
        /\ r.account \in Accounts /\ r.client \in Clients
        /\ r.token \in DOMAIN s
        /\ s[r.token] = [account |-> r.account, client |-> r.client]
        /\ r.at \in {"open", "write"} => Sections(s, r.config, r.mixed)
ScanSound(s, r) ==
    r.cmd = "scan" =>
        /\ r.account \in Accounts
        /\ r.at = "file" => r.mixed = {}
        /\ r.token # None /\ r.account \notin r.mixed =>
            /\ r.token \in DOMAIN s
            /\ \/ s[r.token].account = r.account
               \/ s[r.token].account \o s[r.token].client = r.account \o r.client
Command(s, r) == DOMAIN r = Fields /\ SaveSound(s, r) /\ ScanSound(s, r)

Issued == issued \in Seq([account : Accounts, client : Clients])
FileInv == file \notin {None, Garbled} => Sections(issued, file, mixed)
KeyringInv == DOMAIN keyring = Keys /\ \A k \in Keys : KeyOwned(issued, keyring[k], k)
ProcInv == DOMAIN proc = Procs /\ \A p \in Procs : Command(issued, proc[p])
OwnInv == Issued /\ FileInv /\ KeyringInv /\ ProcInv

-----------------------------------------------------------------------------
(* What holds of a list of tokens holds of a longer one.                    *)
LEMMA Longer ==
    ASSUME NEW s \in Seq([account : Accounts, client : Clients]),
           NEW e \in [account : Accounts, client : Clients]
    PROVE  /\ Append(s, e) \in Seq([account : Accounts, client : Clients])
           /\ Len(Append(s, e)) \in DOMAIN Append(s, e)
           /\ Append(s, e)[Len(Append(s, e))] = e
           /\ \A t \in DOMAIN s : t \in DOMAIN Append(s, e) /\ Append(s, e)[t] = s[t]
  OBVIOUS

LEMMA Element ==
    ASSUME NEW S, NEW s \in Seq(S), NEW t \in DOMAIN s
    PROVE  s[t] \in S
  OBVIOUS

LEMMA SectionsLonger ==
    ASSUME NEW s, NEW l, NEW f, NEW m, Sections(s, f, m),
           \A t \in DOMAIN s : t \in DOMAIN l /\ l[t] = s[t]
    PROVE  Sections(l, f, m)
  BY DEF Sections, Owned

LEMMA CommandLonger ==
    ASSUME NEW s, NEW l, NEW r, Command(s, r),
           \A t \in DOMAIN s : t \in DOMAIN l /\ l[t] = s[t]
    PROVE  Command(l, r)
<1>1. SaveSound(l, r)
  BY SectionsLonger DEF Command, SaveSound
<1>2. ScanSound(l, r)
  BY DEF Command, ScanSound
<1> QED
  BY <1>1, <1>2 DEF Command

(* A command that is idle or only reads a file is sound.                    *)
LEMMA Other ==
    ASSUME NEW s, NEW r, DOMAIN r = Fields, r.cmd \in {"idle", "info"}
    PROVE  Command(s, r)
  BY DEF Command, SaveSound, ScanSound

LEMMA IdleSound == ASSUME NEW s PROVE Command(s, Idle)
<1>1. DOMAIN Idle = Fields /\ Idle.cmd = "idle"
  BY DEF Idle, Fields
<1> QED
  BY <1>1, Other

(* Replacing one command by a sound one leaves all sound.                   *)
LEMMA SetSound ==
    ASSUME ProcInv, NEW p \in Procs, NEW r, Command(issued, r), Set(p, r), UNCHANGED issued
    PROVE  ProcInv'
  BY DEF ProcInv, Set

(* A token found in the keyring is kept under the key that was asked for.   *)
LEMMA Loaded ==
    ASSUME KeyringInv, NEW a \in Accounts, NEW c \in Clients, NEW t \in LoadKeyring(a, c)
    PROVE  KeyOwned(issued, t, Key(a, c))
  BY DEF KeyringInv, LoadKeyring, KeyOwned, Keys

LEMMA InitOwn == Init => OwnInv
<1> SUFFICES ASSUME Init PROVE OwnInv
  OBVIOUS
<1>1. Issued /\ FileInv
  BY DEF Init, Issued, FileInv
<1>2. KeyringInv
  BY DEF Init, KeyringInv, KeyOwned
<1>3. ProcInv
  BY IdleSound DEF Init, ProcInv
<1> QED
  BY <1>1, <1>2, <1>3 DEF OwnInv

-----------------------------------------------------------------------------
(* Steps                                                                    *)

LEMMA BeginSaveOwn ==
    ASSUME Issued, ProcInv, NEW p \in Procs, NEW cmd \in {"register", "auth"},
           NEW a \in Accounts, NEW c \in Clients, NEW t,
           \A u \in DOMAIN issued : u \in DOMAIN issued' /\ issued'[u] = issued[u],
           t \in DOMAIN issued', issued'[t] = [account |-> a, client |-> c],
           BeginSave(p, cmd, a, c, t)
    PROVE  ProcInv'
<1> DEFINE r == [Idle EXCEPT !.cmd = cmd, !.account = a, !.client = c, !.token = t,
                             !.at = IF KeyringSupport THEN "keyring" ELSE "config",
                             !.alone = (Saving = {})]
           other(q) == [proc[q] EXCEPT !.alone = FALSE]
<1>1. proc' = [q \in Procs |-> IF q = p THEN r ELSE other(q)]
  BY DEF BeginSave
<1>2. Command(issued', r)
  <2>1. /\ DOMAIN r = Fields /\ r.cmd = cmd /\ r.account = a /\ r.client = c /\ r.token = t
        /\ r.at \notin {"open", "write"}
    BY DEF Idle, Fields
  <2> HIDE DEF r
  <2> QED
    BY <2>1 DEF Command, SaveSound, ScanSound
<1>3. ASSUME NEW q \in Procs PROVE Command(issued', other(q))
  <2>1. Command(issued', proc[q])
    BY CommandLonger DEF ProcInv
  <2>2. /\ DOMAIN other(q) = Fields
        /\ other(q).cmd = proc[q].cmd /\ other(q).at = proc[q].at /\ other(q).token = proc[q].token
        /\ other(q).account = proc[q].account /\ other(q).client = proc[q].client
        /\ other(q).config = proc[q].config /\ other(q).mixed = proc[q].mixed
    BY <2>1 DEF Command, Fields
  <2> HIDE DEF other
  <2> QED
    BY <2>1, <2>2 DEF Command, SaveSound, ScanSound
<1> HIDE DEF r, other
<1> QED
  BY <1>1, <1>2, <1>3 DEF ProcInv

LEMMA RegisterOwn ==
    ASSUME OwnInv, NEW p \in Procs, Register(p) PROVE OwnInv'
<1>1. PICK a \in Accounts, c \in Clients :
        /\ <<a, c>> \in Registered
        /\ issued' = Append(issued, [account |-> a, client |-> c])
        /\ \/ BeginSave(p, "register", a, c, Len(issued'))
           \/ UNCHANGED <<proc, sound>>
        /\ UNCHANGED <<file, mixed, keyring>>
  BY DEF Register
<1> DEFINE e == [account |-> a, client |-> c]
<1>2. /\ Issued' /\ Len(issued') \in DOMAIN issued' /\ issued'[Len(issued')] = e
      /\ \A t \in DOMAIN issued : t \in DOMAIN issued' /\ issued'[t] = issued[t]
  BY <1>1, Longer DEF OwnInv, Issued
<1>3. FileInv'
  BY <1>1, <1>2, SectionsLonger DEF OwnInv, FileInv
<1>4. KeyringInv'
  BY <1>1, <1>2 DEF OwnInv, KeyringInv, KeyOwned
<1>5. ProcInv'
  <2>1. CASE BeginSave(p, "register", a, c, Len(issued'))
    BY <1>1, <1>2, <2>1, BeginSaveOwn DEF OwnInv
  <2>2. CASE UNCHANGED <<proc, sound>>
    BY <1>2, <2>2, CommandLonger DEF OwnInv, ProcInv
  <2> QED
    BY <1>1, <2>1, <2>2
<1> QED
  BY <1>2, <1>3, <1>4, <1>5 DEF OwnInv

LEMMA AuthOwn ==
    ASSUME OwnInv, NEW p \in Procs, Auth(p) PROVE OwnInv'
<1>1. PICK t \in DOMAIN issued : BeginSave(p, "auth", issued[t].account, issued[t].client, t)
  BY DEF Auth
<1>2. UNCHANGED <<file, mixed, keyring, issued>>
  BY DEF Auth
<1>3. issued[t] \in [account : Accounts, client : Clients]
  <2>1. issued \in Seq([account : Accounts, client : Clients])
    BY DEF OwnInv, Issued
  <2>2. t \in DOMAIN issued
    BY <1>1
  <2> QED
    BY <2>1, <2>2, Element
<1>4. issued[t] = [account |-> issued[t].account, client |-> issued[t].client]
  BY <1>3
<1>5. ProcInv'
  BY <1>1, <1>2, <1>3, <1>4, BeginSaveOwn DEF OwnInv
<1> QED
  BY <1>2, <1>5 DEF OwnInv, Issued, FileInv, KeyringInv

\* A step that changes one command only, and leaves tokens and their places alone
LEMMA OneCommand ==
    ASSUME OwnInv, NEW p \in Procs, NEW r, Command(issued, r), Set(p, r),
           UNCHANGED <<file, mixed, keyring, issued>>
    PROVE  OwnInv'
<1>1. ProcInv'
  BY SetSound DEF OwnInv
<1> QED
  BY <1>1 DEF OwnInv, Issued, FileInv, KeyringInv

LEMMA SaveKeyringOwn ==
    ASSUME OwnInv, NEW p \in Procs, SaveKeyring(p) PROVE OwnInv'
<1>1. PICK set \in BOOLEAN, confirmed \in BOOLEAN :
        /\ keyring' = IF set THEN [keyring EXCEPT ![Key(proc[p].account, proc[p].client)] = proc[p].token]
                      ELSE keyring
        /\ Set(p, [proc[p] EXCEPT !.at = "config", !.inKeyring = set /\ confirmed])
  BY DEF SaveKeyring
<1> DEFINE r == [proc[p] EXCEPT !.at = "config", !.inKeyring = set /\ confirmed]
           k == Key(proc[p].account, proc[p].client)
<1>2. /\ Command(issued, proc[p]) /\ proc[p].cmd \in {"register", "auth"}
      /\ UNCHANGED <<file, mixed, issued>>
  BY DEF OwnInv, ProcInv, SaveKeyring, Saving
<1>3. Command(issued, r)
  <2>1. /\ DOMAIN r = Fields /\ r.at = "config" /\ r.cmd = proc[p].cmd /\ r.token = proc[p].token
        /\ r.account = proc[p].account /\ r.client = proc[p].client
    BY <1>2 DEF Command, Fields
  <2> HIDE DEF r
  <2> QED
    BY <1>2, <2>1 DEF Command, SaveSound, ScanSound
<1>4. k \in Keys /\ KeyOwned(issued, proc[p].token, k)
  BY <1>2 DEF Command, SaveSound, Keys, KeyOwned
<1>5. KeyringInv'
  <2> HIDE DEF k
  <2>1. keyring' = [keyring EXCEPT ![k] = proc[p].token] \/ keyring' = keyring
    BY <1>1 DEF k
  <2> QED
    BY <1>2, <1>4, <2>1 DEF OwnInv, KeyringInv
<1>6. ProcInv'
  <2> HIDE DEF r
  <2>1. Set(p, r)
    BY <1>1 DEF r
  <2> QED
    BY <1>2, <1>3, <2>1, SetSound DEF OwnInv
<1> QED
  BY <1>2, <1>5, <1>6 DEF OwnInv, Issued, FileInv

LEMMA ReadConfigOwn ==
    ASSUME OwnInv, NEW p \in Procs, ReadConfig(p) PROVE OwnInv'
<1> DEFINE a == proc[p].account
           old == IF file = None THEN NoSections ELSE file
           new == [old EXCEPT ![a] = SectionFor(proc[p])]
           r == [proc[p] EXCEPT !.at = "open", !.mixed = mixed \ {a}, !.config = new]
<1>1. /\ Command(issued, proc[p]) /\ proc[p].cmd \in {"register", "auth"}
      /\ UNCHANGED <<file, mixed, keyring, issued>> /\ Set(p, r) /\ file # Garbled
  BY DEF OwnInv, ProcInv, ReadConfig, Saving
<1>2. a \in Accounts /\ Owned(issued, proc[p].token, a)
  BY <1>1 DEF Command, SaveSound, Owned
<1>3. Sections(issued, old, mixed)
  BY <1>1 DEF OwnInv, FileInv, Sections, NoSections, Owned
<1>4. Sections(issued, new, mixed \ {a})
  <2>1. SectionFor(proc[p]).token \in {None, proc[p].token}
    BY DEF SectionFor
  <2> HIDE DEF a, old
  <2>2. DOMAIN new = Accounts /\ new[a] = SectionFor(proc[p])
    BY <1>2, <1>3 DEF Sections
  <2>3. \A b \in Accounts \ {a} : new[b] = old[b]
    BY <1>3 DEF Sections
  <2> HIDE DEF new
  <2> QED
    BY <1>2, <1>3, <2>1, <2>2, <2>3 DEF Sections, Owned
<1> HIDE DEF new
<1>5. Command(issued, r)
  <2>1. /\ DOMAIN r = Fields /\ r.config = new /\ r.cmd = proc[p].cmd /\ r.token = proc[p].token
        /\ r.account = proc[p].account /\ r.client = proc[p].client /\ r.mixed = mixed \ {a}
    BY <1>1 DEF Command, Fields
  <2> HIDE DEF r
  <2> QED
    BY <1>1, <1>4, <2>1 DEF Command, SaveSound, ScanSound
<1> HIDE DEF r
<1> QED
  BY <1>1, <1>5, OneCommand

LEMMA OpenOwn ==
    ASSUME OwnInv, NEW p \in Procs, Open(p) PROVE OwnInv'
<1> DEFINE r == [proc[p] EXCEPT !.at = "write"]
<1>1. /\ Command(issued, proc[p]) /\ proc[p].cmd \in {"register", "auth"} /\ proc[p].at = "open"
      /\ file' = NoSections /\ UNCHANGED <<keyring, issued>> /\ Set(p, r)
  BY DEF OwnInv, ProcInv, Open, Saving
<1>2. Command(issued, r)
  <2>1. /\ DOMAIN r = Fields /\ r.config = proc[p].config /\ r.cmd = proc[p].cmd
        /\ r.mixed = proc[p].mixed
        /\ r.token = proc[p].token /\ r.account = proc[p].account /\ r.client = proc[p].client
    BY <1>1 DEF Command, Fields
  <2> HIDE DEF r
  <2> QED
    BY <1>1, <2>1 DEF Command, SaveSound, ScanSound
<1> HIDE DEF r
<1>3. ProcInv'
  BY <1>1, <1>2, SetSound DEF OwnInv
<1>4. FileInv'
  BY <1>1 DEF FileInv, Sections, NoSections
<1> QED
  BY <1>1, <1>3, <1>4 DEF OwnInv, Issued, KeyringInv

\* What is written over a file is a file again, or a garbled one
LEMMA OverlayDomain ==
    ASSUME NEW new, NEW old, NEW f \in Overlay(new, old), DOMAIN new = Accounts,
           old \in {None, Garbled} \/ DOMAIN old = Accounts, f \notin {None, Garbled}
    PROVE  DOMAIN f = Accounts
  BY DEF Overlay

LEMMA PartsDomain ==
    ASSUME NEW f, NEW part \in Parts(f) PROVE DOMAIN part = Accounts
  BY DEF Parts

\* The sections that are not mixed after a write hold a token they held in the file or in
\* the command's memory
LEMMA FlushOwn ==
    ASSUME OwnInv, NEW p \in Procs, p \in Saving, proc[p].at = "write", NEW part,
           DOMAIN part = Accounts, Flush(p, part), UNCHANGED issued
    PROVE  FileInv'
<1>1. Sections(issued, proc[p].config, proc[p].mixed)
  BY DEF OwnInv, ProcInv, Command, SaveSound, Saving
<1> SUFFICES ASSUME file' \notin {None, Garbled} PROVE Sections(issued, file', mixed')
  BY DEF FileInv
<1>2. DOMAIN file' = Accounts
  BY OverlayDomain DEF Flush, OwnInv, FileInv, Sections
<1>3. ASSUME NEW a \in Accounts \ mixed', file'[a] # None PROVE Owned(issued, file'[a].token, a)
  <2>1. /\ a \notin mixed /\ a \notin proc[p].mixed
        /\ file'[a].token \in {None, TokenIn(proc[p].config, a), TokenIn(file, a)}
    BY <1>3 DEF Flush, TokenIn
  <2>2. Owned(issued, TokenIn(proc[p].config, a), a)
    BY <1>1, <1>3, <2>1 DEF Sections, TokenIn, Owned
  <2>3. Owned(issued, TokenIn(file, a), a)
    BY <1>3, <2>1 DEF OwnInv, FileInv, Sections, TokenIn, Owned
  <2> QED
    BY <2>1, <2>2, <2>3 DEF Owned
<1> QED
  BY <1>2, <1>3 DEF Sections

LEMMA CloseOwn ==
    ASSUME OwnInv, NEW p \in Procs, Close(p) PROVE OwnInv'
<1>1. /\ p \in Saving /\ proc[p].at = "write" /\ Flush(p, proc[p].config)
      /\ UNCHANGED <<keyring, issued>> /\ Set(p, Idle)
  BY DEF Close
<1>2. FileInv'
  <2>1. DOMAIN proc[p].config = Accounts
    BY <1>1 DEF OwnInv, ProcInv, Command, SaveSound, Saving, Sections
  <2> QED
    BY <1>1, <2>1, FlushOwn
<1>3. ProcInv'
  BY <1>1, IdleSound, SetSound DEF OwnInv
<1> QED
  BY <1>1, <1>2, <1>3 DEF OwnInv, Issued, KeyringInv

LEMMA StopOwn ==
    ASSUME OwnInv, NEW p \in Procs, Stop(p) PROVE OwnInv'
<1>1. UNCHANGED <<keyring, issued>> /\ Set(p, Idle)
  BY DEF Stop
<1>2. FileInv'
  <2>1. CASE p \in Saving /\ proc[p].at = "write"
    BY <1>1, <2>1, PartsDomain, FlushOwn DEF Stop
  <2>2. CASE ~(p \in Saving /\ proc[p].at = "write")
    BY <1>1, <2>2 DEF Stop, OwnInv, FileInv
  <2> QED
    BY <2>1, <2>2
<1>3. ProcInv'
  BY <1>1, IdleSound, SetSound DEF OwnInv
<1> QED
  BY <1>1, <1>2, <1>3 DEF OwnInv, Issued, KeyringInv

LEMMA ScanOwn ==
    ASSUME OwnInv, NEW p \in Procs, Scan(p) PROVE OwnInv'
<1>1. PICK a \in Accounts, c \in Clients : \E t \in LoadKeyring(a, c) :
        Set(p, [Idle EXCEPT !.cmd = "scan", !.account = a, !.client = c, !.token = t, !.at = "file"])
  BY DEF Scan
<1>2. PICK t \in LoadKeyring(a, c) :
        Set(p, [Idle EXCEPT !.cmd = "scan", !.account = a, !.client = c, !.token = t, !.at = "file"])
  BY <1>1
<1>3. KeyOwned(issued, t, Key(a, c))
  BY <1>1, <1>2, Loaded DEF OwnInv
<1> DEFINE r == [Idle EXCEPT !.cmd = "scan", !.account = a, !.client = c, !.token = t, !.at = "file"]
<1>4. Command(issued, r)
  <2>1. /\ DOMAIN r = Fields /\ r.cmd = "scan" /\ r.account = a /\ r.client = c /\ r.token = t
        /\ r.mixed = {}
    BY DEF Idle, Fields
  <2> HIDE DEF r
  <2> QED
    BY <1>1, <1>3, <2>1 DEF Command, SaveSound, ScanSound, KeyOwned, Key
<1>5. Set(p, r) /\ UNCHANGED <<file, mixed, keyring, issued>>
  BY <1>2 DEF Scan
<1> HIDE DEF r
<1> QED
  BY <1>4, <1>5, OneCommand

LEMMA LoadLocalOwn ==
    ASSUME OwnInv, NEW p \in Procs, LoadLocal(p) PROVE OwnInv'
<1> DEFINE t == TokenOf(file, proc[p].account, proc[p].token)
           m == IF proc[p].token = None THEN mixed ELSE {}
           r == [proc[p] EXCEPT !.at = "ended", !.token = t, !.mixed = m]
<1>1. /\ Command(issued, proc[p]) /\ proc[p].cmd = "scan" /\ proc[p].at = "file"
      /\ file \notin {None, Garbled}
      /\ UNCHANGED <<file, mixed, keyring, issued>> /\ Set(p, r)
  BY DEF OwnInv, ProcInv, LoadLocal
<1>2. proc[p].account \notin m => t = proc[p].token \/ Owned(issued, t, proc[p].account)
  BY <1>1 DEF OwnInv, FileInv, Sections, TokenOf, Command, ScanSound
<1> HIDE DEF t, m
<1>3. Command(issued, r)
  <2>1. /\ DOMAIN r = Fields /\ r.cmd = "scan" /\ r.token = t /\ r.at = "ended" /\ r.mixed = m
        /\ r.account = proc[p].account /\ r.client = proc[p].client
    BY <1>1 DEF Command, Fields
  <2> HIDE DEF r
  <2> QED
    BY <1>1, <1>2, <2>1 DEF Command, SaveSound, ScanSound, Owned
<1> HIDE DEF r
<1> QED
  BY <1>1, <1>3, OneCommand

\* trivial info only reads
LEMMA InfoOwn ==
    ASSUME OwnInv, NEW p \in Procs, Info(p) \/ KeyringRow(p) \/ FileRow(p) PROVE OwnInv'
<1>1. UNCHANGED <<file, mixed, keyring, issued>>
  BY DEF Info, KeyringRow, FileRow
<1>2. ASSUME NEW r, DOMAIN r = Fields, r.cmd = "info", Set(p, r) PROVE OwnInv'
  BY <1>1, <1>2, Other, OneCommand
<1>3. DOMAIN proc[p] = Fields
  BY DEF OwnInv, ProcInv, Command
<1>4. CASE Info(p)
  <2> DEFINE r == [Idle EXCEPT !.cmd = "info", !.at = "rows", !.config = file,
                           !.todo = {a \in Accounts : file[a] # None}]
  <2>1. Set(p, r) /\ DOMAIN r = Fields /\ r.cmd = "info"
    BY <1>4 DEF Info, Idle, Fields
  <2> HIDE DEF r
  <2> QED
    BY <2>1, <1>2
<1>5. CASE KeyringRow(p)
  <2>1. PICK a : \E t \in LoadKeyring(a, proc[p].config[a].client) :
          IF t = None
          THEN Set(p, [proc[p] EXCEPT !.at = "file", !.account = a, !.token = None])
          ELSE \E answer \in CloudSyncStatus(a, proc[p].config[a].client, t) :
               LET row == Row(a, proc[p].config[a].client, t, answer, proc[p].authz)
               IN Set(p, [proc[p] EXCEPT !.at = "file", !.account = a, !.token = t,
                             !.authz = row.authz, !.rows = @ \cup {row}])
    BY <1>5 DEF KeyringRow
  <2>2. \/ Set(p, [proc[p] EXCEPT !.at = "file", !.account = a, !.token = None])
        \/ \E t, authz, rows : Set(p, [proc[p] EXCEPT !.at = "file", !.account = a, !.token = t,
                                              !.authz = authz, !.rows = rows])
    BY <2>1
  <2>3. PICK r : DOMAIN r = Fields /\ r.cmd = proc[p].cmd /\ Set(p, r)
    <3>1. CASE Set(p, [proc[p] EXCEPT !.at = "file", !.account = a, !.token = None])
      BY <3>1, <1>3 DEF Fields
    <3>2. ASSUME NEW t, NEW authz, NEW rows,
                 Set(p, [proc[p] EXCEPT !.at = "file", !.account = a, !.token = t,
                            !.authz = authz, !.rows = rows])
          PROVE  \E r : DOMAIN r = Fields /\ r.cmd = proc[p].cmd /\ Set(p, r)
      BY <3>2, <1>3 DEF Fields
    <3> QED
      BY <2>2, <3>1, <3>2
  <2>4. proc[p].cmd = "info"
    BY <1>5 DEF KeyringRow
  <2> QED
    BY <2>3, <2>4, <1>2
<1>6. CASE FileRow(p)
  BY <1>6, <1>2, <1>3 DEF FileRow, Fields
<1> QED
  BY <1>4, <1>5, <1>6

LEMMA NextOwn ==
    OwnInv /\ [Next]_vars => OwnInv'
<1> SUFFICES ASSUME OwnInv, [Next]_vars PROVE OwnInv'
  OBVIOUS
<1>1. CASE UNCHANGED vars
  BY <1>1 DEF vars, OwnInv, Issued, FileInv, KeyringInv, ProcInv
<1>2. CASE Next
  <2>1. PICK p \in Procs :
          \/ Register(p) \/ Auth(p) \/ SaveKeyring(p) \/ ReadConfig(p) \/ Open(p) \/ Close(p)
          \/ Scan(p) \/ LoadLocal(p)
          \/ Info(p) \/ KeyringRow(p) \/ FileRow(p)
          \/ Stop(p)
    BY <1>2 DEF Next
  <2>2. CASE Register(p)
    BY <2>2, RegisterOwn
  <2>3. CASE Auth(p)
    BY <2>3, AuthOwn
  <2>4. CASE SaveKeyring(p)
    BY <2>4, SaveKeyringOwn
  <2>5. CASE ReadConfig(p)
    BY <2>5, ReadConfigOwn
  <2>6. CASE Open(p)
    BY <2>6, OpenOwn
  <2>7. CASE Close(p)
    BY <2>7, CloseOwn
  <2>8. CASE Scan(p)
    BY <2>8, ScanOwn
  <2>9. CASE LoadLocal(p)
    BY <2>9, LoadLocalOwn
  <2>10. CASE Info(p) \/ KeyringRow(p) \/ FileRow(p)
    BY <2>10, InfoOwn
  <2>11. CASE Stop(p)
    BY <2>11, StopOwn
  <2> QED
    BY <2>1, <2>2, <2>3, <2>4, <2>5, <2>6, <2>7, <2>8, <2>9, <2>10, <2>11
<1> QED
  BY <1>1, <1>2 DEF Next

LEMMA OwnImplies ==
    OwnInv => OwnAccount
  BY DEF OwnInv, ProcInv, Command, ScanSound, OwnAccount

\* A scan never authenticates with a token that was issued to another account, for any
\* accounts, clients, shells and number of tokens and however the commands overlap, fail
\* or are stopped (load_local of cli/credentials.py), except through a keyring entry
\* whose name stands for both, or from a section of the file in which two commands that
\* both held it open wrote on top of each other.
THEOREM TokensOwn ==
    Spec => []OwnAccount
  BY InitOwn, NextOwn, OwnImplies, PTL DEF Spec

-----------------------------------------------------------------------------
(* trivial info.  Its rows stand for themselves, whatever sections it read.  *)

RowTrue(s, row) ==
    row.authz # "Unauthorized" =>
        row.token \in DOMAIN s /\ s[row.token] = [account |-> row.account, client |-> row.client]

InfoSound(s, r) == \A row \in r.rows : RowTrue(s, row)
InfoInv == \A p \in Procs : InfoSound(issued, proc[p])

LEMMA InfoLonger ==
    ASSUME NEW s, NEW l, NEW r, InfoSound(s, r),
           \A t \in DOMAIN s : t \in DOMAIN l /\ l[t] = s[t]
    PROVE  InfoSound(l, r)
  BY DEF InfoSound, RowTrue

\* A command without rows
LEMMA NoRows ==
    ASSUME NEW s, NEW r, r.rows = {} PROVE InfoSound(s, r)
  BY DEF InfoSound

LEMMA IdleInfo == ASSUME NEW s PROVE InfoSound(s, Idle)
<1>1. Idle.rows = {}
  BY DEF Idle
<1> QED
  BY <1>1, NoRows

LEMMA OneInfo ==
    ASSUME OwnInv, InfoInv, NEW p \in Procs, NEW r, InfoSound(issued, r), Set(p, r),
           UNCHANGED issued
    PROVE  InfoInv'
  BY DEF OwnInv, ProcInv, InfoInv, Set

\* A command that goes on with the rows it has
LEMMA SameRows ==
    ASSUME OwnInv, InfoInv, NEW p \in Procs, NEW r, r.rows = proc[p].rows, Set(p, r),
           UNCHANGED issued
    PROVE  InfoInv'
<1>1. InfoSound(issued, r)
  BY DEF InfoInv, InfoSound
<1> QED
  BY <1>1, OneInfo

\* The server's answer on a token found where it belongs makes a true row
LEMMA RowIsTrue ==
    ASSUME NEW a, NEW c, NEW t, NEW answer \in CloudSyncStatus(a, c, t), NEW authz
    PROVE  RowTrue(issued, Row(a, c, t, answer, authz))
<1> DEFINE row == Row(a, c, t, answer, authz)
<1>1. row.account = a /\ row.client = c /\ row.token = t /\ row.authz = AuthzResult(authz, answer)
  BY DEF Row
<1>2. answer \in {"valid", "deactivated", "unauthorized"}
  BY DEF CloudSyncStatus
<1>3. CASE answer = "unauthorized"
  BY <1>1, <1>3 DEF RowTrue, AuthzResult
<1>4. CASE answer # "unauthorized"
  <2>1. t \in DOMAIN issued /\ issued[t] = [account |-> a, client |-> c]
    BY <1>4 DEF CloudSyncStatus
  <2> HIDE DEF row
  <2>2. RowTrue(issued, row)
    BY <1>1, <2>1 DEF RowTrue
  <2> QED
    BY <2>2 DEF row
<1> QED
  BY <1>3, <1>4

LEMMA BeginSaveInfo ==
    ASSUME OwnInv, InfoInv, NEW p \in Procs, NEW cmd, NEW a, NEW c, NEW t,
           \A u \in DOMAIN issued : u \in DOMAIN issued' /\ issued'[u] = issued[u],
           BeginSave(p, cmd, a, c, t)
    PROVE  InfoInv'
<1> DEFINE r == [Idle EXCEPT !.cmd = cmd, !.account = a, !.client = c, !.token = t,
                             !.at = IF KeyringSupport THEN "keyring" ELSE "config",
                             !.alone = (Saving = {})]
           other(q) == [proc[q] EXCEPT !.alone = FALSE]
<1>1. proc' = [q \in Procs |-> IF q = p THEN r ELSE other(q)]
  BY DEF BeginSave
<1>2. InfoSound(issued', r)
  <2>1. r.rows = {}
    BY DEF Idle
  <2> HIDE DEF r
  <2> QED
    BY <2>1, NoRows
<1>3. ASSUME NEW q \in Procs PROVE InfoSound(issued', other(q))
  <2>1. InfoSound(issued', proc[q])
    BY InfoLonger DEF InfoInv
  <2>2. other(q).rows = proc[q].rows
    BY DEF OwnInv, ProcInv, Command, Fields
  <2> HIDE DEF other
  <2> QED
    BY <2>1, <2>2 DEF InfoSound
<1> HIDE DEF r, other
<1> QED
  BY <1>1, <1>2, <1>3 DEF InfoInv

LEMMA SavingInfo ==
    ASSUME OwnInv, InfoInv, NEW p \in Procs,
           Register(p) \/ Auth(p) \/ SaveKeyring(p) \/ ReadConfig(p) \/ Open(p) \/ Close(p) \/ Stop(p)
    PROVE  InfoInv'
<1>1. DOMAIN proc[p] = Fields
  BY DEF OwnInv, ProcInv, Command
<1>2. CASE Register(p)
  <2>1. PICK a \in Accounts, c \in Clients :
          /\ issued' = Append(issued, [account |-> a, client |-> c])
          /\ \/ BeginSave(p, "register", a, c, Len(issued'))
             \/ UNCHANGED <<proc, sound>>
    BY <1>2 DEF Register
  <2>2. \A t \in DOMAIN issued : t \in DOMAIN issued' /\ issued'[t] = issued[t]
    BY <2>1, Longer DEF OwnInv, Issued
  <2>3. CASE UNCHANGED proc
    BY <2>2, <2>3, InfoLonger DEF InfoInv
  <2> QED
    BY <2>1, <2>2, <2>3, BeginSaveInfo
<1>3. CASE Auth(p)
  BY <1>3, BeginSaveInfo DEF Auth
<1>4. CASE SaveKeyring(p)
  <2>1. PICK b \in BOOLEAN : Set(p, [proc[p] EXCEPT !.at = "config", !.inKeyring = b])
    BY <1>4 DEF SaveKeyring
  <2>2. [proc[p] EXCEPT !.at = "config", !.inKeyring = b].rows = proc[p].rows
    BY <1>1 DEF Fields
  <2> QED
    BY <2>1, <2>2, <1>4, SameRows DEF SaveKeyring
<1>5. CASE ReadConfig(p)
  <2>1. PICK m, f : Set(p, [proc[p] EXCEPT !.at = "open", !.mixed = m, !.config = f])
    BY <1>5 DEF ReadConfig
  <2>2. [proc[p] EXCEPT !.at = "open", !.mixed = m, !.config = f].rows = proc[p].rows
    BY <1>1 DEF Fields
  <2> QED
    BY <2>1, <2>2, <1>5, SameRows DEF ReadConfig
<1>6. CASE Open(p)
  <2>1. [proc[p] EXCEPT !.at = "write"].rows = proc[p].rows
    BY <1>1 DEF Fields
  <2> QED
    BY <2>1, <1>6, SameRows DEF Open
<1>7. CASE Close(p) \/ Stop(p)
  BY <1>7, IdleInfo, OneInfo DEF Close, Stop
<1> QED
  BY <1>2, <1>3, <1>4, <1>5, <1>6, <1>7

LEMMA ReadingInfo ==
    ASSUME OwnInv, InfoInv, NEW p \in Procs,
           Scan(p) \/ LoadLocal(p) \/ Info(p) \/ KeyringRow(p) \/ FileRow(p)
    PROVE  InfoInv'
<1>1. DOMAIN proc[p] = Fields /\ UNCHANGED issued
  BY DEF OwnInv, ProcInv, Command, Scan, LoadLocal, Info, KeyringRow, FileRow
<1>2. CASE Scan(p)
  <2>1. PICK a, c, t :
          Set(p, [Idle EXCEPT !.cmd = "scan", !.account = a, !.client = c, !.token = t, !.at = "file"])
    BY <1>2 DEF Scan
  <2>2. [Idle EXCEPT !.cmd = "scan", !.account = a, !.client = c, !.token = t, !.at = "file"].rows = {}
    BY DEF Idle
  <2> QED
    BY <2>1, <2>2, <1>1, NoRows, OneInfo
<1>3. CASE LoadLocal(p)
  <2>1. PICK t, m : Set(p, [proc[p] EXCEPT !.at = "ended", !.token = t, !.mixed = m])
    BY <1>3 DEF LoadLocal
  <2>2. [proc[p] EXCEPT !.at = "ended", !.token = t, !.mixed = m].rows = proc[p].rows
    BY <1>1 DEF Fields
  <2> QED
    BY <2>1, <2>2, <1>1, SameRows
<1>4. CASE Info(p)
  <2>1. PICK todo : Set(p, [Idle EXCEPT !.cmd = "info", !.at = "rows", !.config = file, !.todo = todo])
    BY <1>4 DEF Info
  <2>2. [Idle EXCEPT !.cmd = "info", !.at = "rows", !.config = file, !.todo = todo].rows = {}
    BY DEF Idle
  <2> QED
    BY <2>1, <2>2, <1>1, NoRows, OneInfo
<1>5. ASSUME NEW r, NEW row, r.rows = proc[p].rows \cup {row}, RowTrue(issued, row), Set(p, r)
      PROVE  InfoInv'
  <2>1. InfoSound(issued, r)
    BY <1>5 DEF InfoInv, InfoSound
  <2> QED
    BY <2>1, <1>1, <1>5, OneInfo
<1>6. CASE KeyringRow(p)
  <2>1. PICK a, t :
            IF t = None
            THEN Set(p, [proc[p] EXCEPT !.at = "file", !.account = a, !.token = None])
            ELSE \E answer \in CloudSyncStatus(a, proc[p].config[a].client, t) :
                 LET row == Row(a, proc[p].config[a].client, t, answer, proc[p].authz)
                 IN Set(p, [proc[p] EXCEPT !.at = "file", !.account = a, !.token = t,
                               !.authz = row.authz, !.rows = @ \cup {row}])
    BY <1>6 DEF KeyringRow
  <2>2. CASE Set(p, [proc[p] EXCEPT !.at = "file", !.account = a, !.token = None])
    <3>1. [proc[p] EXCEPT !.at = "file", !.account = a, !.token = None].rows = proc[p].rows
      BY <1>1 DEF Fields
    <3> QED
      BY <3>1, <2>2, <1>1, SameRows
  <2>3. ASSUME NEW c, NEW answer \in CloudSyncStatus(a, c, t), NEW row,
               row = Row(a, c, t, answer, proc[p].authz),
               Set(p, [proc[p] EXCEPT !.at = "file", !.account = a, !.token = t,
                               !.authz = row.authz, !.rows = @ \cup {row}])
        PROVE  InfoInv'
    <3>1. [proc[p] EXCEPT !.at = "file", !.account = a, !.token = t,
                               !.authz = row.authz, !.rows = @ \cup {row}].rows = proc[p].rows \cup {row}
      BY <1>1 DEF Fields
    <3>2. RowTrue(issued, row)
      BY <2>3, RowIsTrue
    <3> QED
      BY <3>1, <3>2, <2>3, <1>5
  <2> QED
    BY <2>1, <2>2, <2>3
<1>7. CASE FileRow(p)
  <2> PICK a : a = proc[p].account
    OBVIOUS
  <2> PICK section : section = proc[p].config[a]
    OBVIOUS
  <2> PICK next : next = [proc[p] EXCEPT !.at = "rows", !.todo = @ \ {a}]
    OBVIOUS
  <2>1. IF section.token \in {None, proc[p].token}
        THEN Set(p, next)
        ELSE \E answer \in CloudSyncStatus(a, section.client, section.token) :
             LET row == Row(a, section.client, section.token, answer, proc[p].authz)
             IN Set(p, [next EXCEPT !.authz = row.authz, !.rows = @ \cup {row}])
    BY <1>7 DEF FileRow
  <2>2. next.rows = proc[p].rows /\ DOMAIN next = Fields
    BY <1>1 DEF Fields
  <2>3. CASE Set(p, next)
    BY <2>2, <2>3, <1>1, SameRows
  <2>4. ASSUME NEW answer \in CloudSyncStatus(a, section.client, section.token), NEW row,
               row = Row(a, section.client, section.token, answer, proc[p].authz),
               Set(p, [next EXCEPT !.authz = row.authz, !.rows = @ \cup {row}])
        PROVE  InfoInv'
    <3>1. [next EXCEPT !.authz = row.authz, !.rows = @ \cup {row}].rows = proc[p].rows \cup {row}
      BY <2>2 DEF Fields
    <3>2. RowTrue(issued, row)
      BY <2>4, RowIsTrue
    <3> QED
      BY <3>1, <3>2, <2>4, <1>5
  <2> QED
    BY <2>1, <2>3, <2>4, ZenonT(60)
<1> QED
  BY <1>2, <1>3, <1>4, <1>6, <1>7

LEMMA OwnInvariant == Spec => []OwnInv
  BY InitOwn, NextOwn, PTL DEF Spec

LEMMA InitInfo == Init => InfoInv
  BY IdleInfo DEF Init, InfoInv

LEMMA NextInfo == OwnInv /\ InfoInv /\ [Next]_vars => InfoInv'
<1>1. OwnInv /\ InfoInv /\ Next => InfoInv'
  BY SavingInfo, ReadingInfo DEF Next
<1>2. InfoInv /\ UNCHANGED vars => InfoInv'
  BY DEF vars, InfoInv
<1> QED
  BY <1>1, <1>2

\* A row of trivial info says Validated or Deactivated only of a token that was issued to
\* the row's account and client, although authz_result outlives its turn of the loop and
\* other commands replace the file and the keyring's entries meanwhile.
THEOREM RowsTrue ==
    Spec => []InfoTruth
<1>1. InfoInv => InfoTruth
  BY DEF InfoInv, InfoSound, RowTrue, InfoTruth
<1> QED
  BY <1>1, OwnInvariant, InitInfo, NextInfo, PTL DEF Spec

-----------------------------------------------------------------------------
(* What the last save of an account stored is found again.  A save that is   *)
(* alone keeps in memory the file it will write; once two saves overlap, no  *)
(* save counts as completed until they are over.                             *)

Kept(f, a, s) == f[a] # None /\ f[a].token = s.token

FilesInv ==
    /\ file \in File \cup {None, Garbled}
    /\ \A p \in Saving :
        /\ proc[p].at \in {"open", "write"} => proc[p].config \in File
        /\ proc[p].at = "write" => file # None

\* A save that nothing has disturbed: k is the keyring, snd what earlier saves stored
SaverSound(k, snd, r) ==
    /\ r.at \in {"config", "open", "write"} /\ r.inKeyring => k[Key(r.account, r.client)] = r.token
    /\ r.at \in {"open", "write"} =>
        /\ r.config[r.account] = SectionFor(r)
        /\ \A a \in Accounts \ {r.account} :
            snd[a] # None /\ ~snd[a].inKeyring => Kept(r.config, a, snd[a])
SavesInv ==
    \A p \in Saving : IF proc[p].alone
                      THEN /\ Saving = {p} /\ SaverSound(keyring, sound, proc[p])
                           /\ proc[p].at = "write" => file = NoSections
                      ELSE sound = Disturbed

\* An account is in the keyring unless its next save may have replaced the entry, or in the
\* file unless a save has just emptied it
SoundInv ==
    /\ DOMAIN sound = Accounts
    /\ \A a \in Accounts : sound[a] # None =>
        /\ sound[a].client \in Clients /\ sound[a].token \in Nat
        /\ file \notin {None, Garbled}
        /\ sound[a].inKeyring /\ (\A p \in Saving : proc[p].account # a) =>
            keyring[Key(a, sound[a].client)] = sound[a].token \/ Collide(a, sound[a].client)
        /\ ~sound[a].inKeyring /\ (\A p \in Saving : proc[p].at # "write") => Kept(file, a, sound[a])

SaveInv == FilesInv /\ SavesInv /\ SoundInv

InSave(r) == r.at \in {"keyring", "config", "open", "write"} /\ r.cmd \in {"register", "auth"}

\* Who saves after the command of one process has changed
LEMMA SavingAfter ==
    ASSUME OwnInv, NEW p \in Procs, NEW r, Set(p, r)
    PROVE  /\ proc'[p] = r /\ \A q \in Procs \ {p} : proc'[q] = proc[q]
           /\ Saving \subseteq Procs /\ Saving' \subseteq Procs
           /\ p \in Saving <=> InSave(proc[p])
           /\ p \in Saving' <=> InSave(r)
           /\ \A q \in Procs \ {p} : q \in Saving' <=> q \in Saving
  BY DEF OwnInv, ProcInv, Set, Saving, InSave

LEMMA IssuedNumbers == ASSUME OwnInv PROVE DOMAIN issued \subseteq Nat
<1>1. issued \in Seq([account : Accounts, client : Clients])
  BY DEF OwnInv, Issued
<1> QED
  BY <1>1

\* What a command saves, and for whom
LEMMA Saver ==
    ASSUME OwnInv, NEW p \in Saving
    PROVE  /\ p \in Procs /\ proc[p].account \in Accounts /\ proc[p].client \in Clients
           /\ proc[p].token \in Nat
<1>1. p \in Procs /\ proc[p].cmd \in {"register", "auth"}
  BY DEF Saving
<1>2. SaveSound(issued, proc[p])
  BY <1>1 DEF OwnInv, ProcInv, Command
<1> QED
  BY <1>1, <1>2, IssuedNumbers DEF SaveSound

LEMMA FilesAfter ==
    ASSUME OwnInv, FilesInv, NEW p \in Procs, NEW r, Set(p, r), file' \in File \cup {None, Garbled},
           file # None => file' # None,
           InSave(r) /\ r.at \in {"open", "write"} => r.config \in File,
           InSave(r) /\ r.at = "write" => file' # None
    PROVE  FilesInv'
<1>1. ASSUME NEW q \in Saving'
      PROVE  /\ proc'[q].at \in {"open", "write"} => proc'[q].config \in File
             /\ proc'[q].at = "write" => file' # None
  <2>1. CASE q = p
    BY <1>1, <2>1, SavingAfter
  <2>2. CASE q # p
    <3>1. q \in Saving /\ proc'[q] = proc[q]
      BY <1>1, <2>2, SavingAfter
    <3> QED
      BY <3>1 DEF FilesInv
  <2> QED
    BY <2>1, <2>2
<1> QED
  BY <1>1 DEF FilesInv

\* A save that overlaps another, or has: none counts as completed
LEMMA Crowd ==
    ASSUME OwnInv, SaveInv, NEW p \in Saving, ~proc[p].alone, NEW r, Set(p, r), ~InSave(r) \/ ~r.alone,
           sound' \in {sound, Disturbed}
    PROVE  SavesInv' /\ SoundInv'
<1>1. p \in Procs
  BY DEF Saving
<1>2. sound' = Disturbed /\ \A q \in Saving : ~proc[q].alone
  BY DEF SaveInv, SavesInv
<1>3. \A q \in Saving' : ~proc'[q].alone
  BY <1>1, <1>2, SavingAfter
<1>4. DOMAIN Disturbed = Accounts /\ \A a \in Accounts : Disturbed[a] = None
  BY DEF Disturbed
<1>5. DOMAIN sound' = Accounts /\ \A a \in Accounts : sound'[a] = None
  BY <1>2, <1>4
<1>6. SavesInv'
  BY <1>2, <1>3, <1>4 DEF SavesInv, Disturbed
<1>7. SoundInv'
  BY <1>5 DEF SoundInv
<1> QED
  BY <1>6, <1>7

\* A save that is alone is the only one
LEMMA Single ==
    ASSUME OwnInv, SaveInv, NEW p \in Saving, proc[p].alone, NEW r, Set(p, r)
    PROVE  /\ Saving = {p} /\ SaverSound(keyring, sound, proc[p]) /\ p \in Procs
           /\ proc[p].at = "write" => file = NoSections
           /\ proc'[p] = r
           /\ InSave(r) => Saving' = {p}
           /\ ~InSave(r) => Saving' = {}
<1>1. /\ Saving = {p} /\ SaverSound(keyring, sound, proc[p]) /\ p \in Procs
      /\ proc[p].at = "write" => file = NoSections
  BY DEF SaveInv, SavesInv, Saving
<1> QED
  BY <1>1, SavingAfter

\* A command that saves nothing, before and after
LEMMA Bystander ==
    ASSUME OwnInv, SaveInv, NEW p \in Procs, p \notin Saving, NEW r, ~InSave(r), Set(p, r),
           UNCHANGED <<file, mixed, keyring, sound>>
    PROVE  SaveInv'
<1>1. Saving' = Saving /\ \A q \in Saving : proc'[q] = proc[q]
  BY SavingAfter
<1>2. FilesInv'
  BY FilesAfter DEF SaveInv, FilesInv
<1>3. SavesInv'
  BY <1>1 DEF SaveInv, SavesInv, Disturbed
<1>4. SoundInv'
  BY <1>1 DEF SaveInv, SoundInv
<1> QED
  BY <1>2, <1>3, <1>4 DEF SaveInv

LEMMA BeginSaveRecoverable ==
    ASSUME OwnInv, SaveInv, NEW p \in Procs, proc[p].cmd = "idle",
           NEW cmd \in {"register", "auth"}, NEW a, NEW c, NEW t, BeginSave(p, cmd, a, c, t),
           UNCHANGED <<file, mixed, keyring>>
    PROVE  SaveInv'
<1> DEFINE r == [Idle EXCEPT !.cmd = cmd, !.account = a, !.client = c, !.token = t,
                             !.at = IF KeyringSupport THEN "keyring" ELSE "config",
                             !.alone = (Saving = {})]
           other(q) == [proc[q] EXCEPT !.alone = FALSE]
<1>1. proc' = [q \in Procs |-> IF q = p THEN r ELSE other(q)]
  BY DEF BeginSave
<1>2. /\ r.cmd = cmd /\ r.at \in {"keyring", "config"} /\ r.inKeyring = FALSE
      /\ r.alone = (Saving = {})
  BY DEF Idle
<1>3. \A q \in Procs : /\ other(q).cmd = proc[q].cmd /\ other(q).at = proc[q].at
                       /\ other(q).config = proc[q].config /\ other(q).alone = FALSE
  BY DEF OwnInv, ProcInv, Command, Fields
<1> HIDE DEF r, other
<1>4. proc'[p] = r /\ \A q \in Procs \ {p} : proc'[q] = other(q)
  BY <1>1
<1>5. p \notin Saving /\ p \in Saving' /\ Saving \subseteq Procs /\ Saving' \subseteq Procs
  BY <1>2, <1>4 DEF Saving
<1>6. \A q \in Procs \ {p} : q \in Saving' <=> q \in Saving
  BY <1>3, <1>4 DEF Saving
<1>7. FilesInv'
  <2>1. file' \in File \cup {None, Garbled}
    BY DEF SaveInv, FilesInv
  <2>2. ASSUME NEW q \in Saving', proc'[q].at \in {"open", "write"}
        PROVE  proc'[q].config \in File /\ (proc'[q].at = "write" => file' # None)
    <3>1. q # p
      BY <2>2, <1>2, <1>4
    <3>2. q \in Saving /\ proc'[q].at = proc[q].at /\ proc'[q].config = proc[q].config
      BY <3>1, <1>3, <1>4, <1>5, <1>6
    <3> QED
      BY <3>2, <2>2 DEF SaveInv, FilesInv
  <2> QED
    BY <2>1, <2>2 DEF FilesInv
<1>8. CASE Saving = {}
  <2>1. Saving' = {p} /\ sound' = sound
    BY <1>5, <1>6, <1>8 DEF BeginSave
  <2>2. SaverSound(keyring', sound', r)
    BY <1>2 DEF SaverSound
  <2>3. SavesInv'
    BY <2>1, <2>2, <1>2, <1>4, <1>8 DEF SavesInv
  <2>4. SoundInv'
    BY <2>1, <1>8 DEF SaveInv, SoundInv
  <2> QED
    BY <1>7, <2>3, <2>4 DEF SaveInv
<1>9. CASE Saving # {}
  <2>1. sound' = Disturbed
    BY <1>9 DEF BeginSave
  <2>2. \A q \in Saving' : ~proc'[q].alone
    BY <1>2, <1>3, <1>4, <1>5, <1>9
  <2>3. SavesInv'
    BY <2>1, <2>2 DEF SavesInv, Disturbed
  <2>4. SoundInv'
    BY <2>1 DEF SoundInv, Disturbed
  <2> QED
    BY <1>7, <2>3, <2>4 DEF SaveInv
<1> QED
  BY <1>8, <1>9

LEMMA SaveKeyringRecoverable ==
    ASSUME OwnInv, SaveInv, NEW p \in Procs, SaveKeyring(p) PROVE SaveInv'
<1>1. PICK set \in BOOLEAN, confirmed \in BOOLEAN :
        /\ keyring' = IF set THEN [keyring EXCEPT ![Key(proc[p].account, proc[p].client)] = proc[p].token]
                      ELSE keyring
        /\ Set(p, [proc[p] EXCEPT !.at = "config", !.inKeyring = set /\ confirmed])
  BY DEF SaveKeyring
<1> PICK k : k = Key(proc[p].account, proc[p].client)
  OBVIOUS
<1> PICK r : r = [proc[p] EXCEPT !.at = "config", !.inKeyring = set /\ confirmed]
  OBVIOUS
<1>2. /\ p \in Saving /\ proc[p].at = "keyring" /\ UNCHANGED <<file, sound>> /\ Set(p, r)
      /\ proc[p].cmd \in {"register", "auth"}
  BY <1>1 DEF SaveKeyring, Saving
<1>3. /\ r.at = "config" /\ r.inKeyring = (set /\ confirmed) /\ r.account = proc[p].account
      /\ r.client = proc[p].client /\ r.token = proc[p].token /\ r.cmd = proc[p].cmd
      /\ r.alone = proc[p].alone
  BY DEF OwnInv, ProcInv, Command, Fields
<1>4. /\ proc[p].account \in Accounts /\ proc[p].client \in Clients
      /\ set => keyring'[k] = proc[p].token
      /\ \A l \in Keys : l # k => keyring'[l] = keyring[l]
  <2>1. proc[p].account \in Accounts /\ proc[p].client \in Clients
    BY <1>2, Saver
  <2>2. k \in Keys /\ DOMAIN keyring = Keys
    BY <2>1 DEF OwnInv, KeyringInv, Keys
  <2> QED
    BY <1>1, <2>1, <2>2
<1>5. FilesInv'
  BY <1>2, <1>3, FilesAfter DEF SaveInv, FilesInv
<1>6. CASE ~proc[p].alone
  BY <1>2, <1>3, <1>5, <1>6, Crowd DEF SaveInv
<1>7. CASE proc[p].alone
  <2>1. Saving = {p} /\ Saving' = {p} /\ proc'[p] = r
    BY <1>2, <1>3, <1>7, Single DEF InSave
  <2>2. SaverSound(keyring', sound', r)
    BY <1>3, <1>4 DEF SaverSound
  <2>3. SavesInv'
    BY <2>1, <2>2, <1>3, <1>7 DEF SavesInv
  <2>4. ASSUME NEW a \in Accounts, sound[a] # None, sound[a].inKeyring, proc[p].account # a
        PROVE  keyring'[Key(a, sound[a].client)] = sound[a].token \/ Collide(a, sound[a].client)
    <3>1. /\ sound[a].client \in Clients
          /\ keyring[Key(a, sound[a].client)] = sound[a].token \/ Collide(a, sound[a].client)
      BY <2>1, <2>4 DEF SaveInv, SoundInv
    <3>2. CASE Key(a, sound[a].client) = k
      BY <3>1, <3>2, <2>4, <1>4 DEF Collide, Key
    <3>3. CASE Key(a, sound[a].client) # k
      BY <3>1, <3>3, <1>4 DEF Keys
    <3> QED
      BY <3>2, <3>3
  <2>5. ASSUME NEW a \in Accounts, sound[a] # None
        PROVE  /\ sound[a].client \in Clients /\ sound[a].token \in Nat
               /\ file \notin {None, Garbled}
               /\ ~sound[a].inKeyring => Kept(file, a, sound[a])
    BY <2>1, <2>5, <1>2 DEF SaveInv, SoundInv
  <2>6. SoundInv'
    BY <2>1, <2>4, <2>5, <1>2, <1>3 DEF SaveInv, SoundInv
  <2> QED
    BY <1>5, <2>3, <2>6 DEF SaveInv
<1> QED
  BY <1>6, <1>7

LEMMA ReadConfigRecoverable ==
    ASSUME OwnInv, SaveInv, NEW p \in Procs, ReadConfig(p) PROVE SaveInv'
<1> PICK old : old = IF file = None THEN NoSections ELSE file
  OBVIOUS
<1> PICK new : new = [old EXCEPT ![proc[p].account] = SectionFor(proc[p])]
  OBVIOUS
<1> PICK r : r = [proc[p] EXCEPT !.at = "open", !.mixed = mixed \ {proc[p].account}, !.config = new]
  OBVIOUS
<1>1. /\ p \in Saving /\ proc[p].at = "config" /\ UNCHANGED <<file, mixed, keyring, sound>> /\ Set(p, r)
      /\ proc[p].cmd \in {"register", "auth"} /\ file # Garbled
  BY DEF ReadConfig, Saving
<1>2. /\ r.at = "open" /\ r.config = new /\ r.account = proc[p].account /\ r.client = proc[p].client
      /\ r.token = proc[p].token /\ r.cmd = proc[p].cmd
      /\ r.alone = proc[p].alone /\ r.inKeyring = proc[p].inKeyring
  BY DEF OwnInv, ProcInv, Command, Fields
<1>3. proc[p].account \in Accounts /\ proc[p].client \in Clients /\ proc[p].token \in Nat
  BY <1>1, Saver
<1>4. old \in File
  <2>1. NoSections \in File
    BY DEF NoSections, File
  <2> QED
    BY <2>1, <1>1 DEF SaveInv, FilesInv
<1>5. /\ new \in File /\ new[proc[p].account] = SectionFor(proc[p])
      /\ \A a \in Accounts \ {proc[p].account} : new[a] = old[a]
  <2>1. SectionFor(proc[p]) \in Section
    BY <1>3 DEF SectionFor, Section
  <2> HIDE DEF Section
  <2> QED
    BY <2>1, <1>3, <1>4 DEF File
<1>6. FilesInv'
  BY <1>1, <1>2, <1>5, FilesAfter DEF SaveInv, FilesInv
<1>7. CASE ~proc[p].alone
  BY <1>1, <1>2, <1>6, <1>7, Crowd DEF SaveInv
<1>8. CASE proc[p].alone
  <2>1. Saving = {p} /\ SaverSound(keyring, sound, proc[p]) /\ Saving' = {p} /\ proc'[p] = r
    BY <1>1, <1>2, <1>8, Single DEF InSave
  <2>2. ASSUME NEW a \in Accounts \ {proc[p].account}, sound[a] # None, ~sound[a].inKeyring
        PROVE  Kept(new, a, sound[a])
    <3>1. Kept(file, a, sound[a]) /\ file \notin {None, Garbled}
      BY <2>1, <2>2, <1>1 DEF SaveInv, SoundInv
    <3> QED
      BY <3>1, <1>5 DEF Kept
  <2>3. SectionFor(r) = SectionFor(proc[p])
    BY <1>2 DEF SectionFor
  <2>4. SaverSound(keyring, sound, r)
    BY <2>1, <2>2, <2>3, <1>1, <1>2, <1>5 DEF SaverSound
  <2>5. SavesInv'
    BY <2>1, <2>4, <1>1, <1>2, <1>8 DEF SavesInv
  <2>6. \A a : (\A q \in Saving' : proc'[q].account # a) => \A q \in Saving : proc[q].account # a
    BY <2>1, <1>2
  <2>7. \A q \in Saving : proc[q].at # "write"
    BY <2>1, <1>1
  <2>8. SoundInv'
    BY <2>6, <2>7, <1>1 DEF SaveInv, SoundInv
  <2> QED
    BY <1>6, <2>5, <2>8 DEF SaveInv
<1> QED
  BY <1>7, <1>8

LEMMA OpenRecoverable ==
    ASSUME OwnInv, SaveInv, NEW p \in Procs, Open(p) PROVE SaveInv'
<1> PICK r : r = [proc[p] EXCEPT !.at = "write"]
  OBVIOUS
<1>1. /\ p \in Saving /\ proc[p].at = "open" /\ UNCHANGED <<keyring, sound>> /\ file' = NoSections
      /\ Set(p, r) /\ proc[p].cmd \in {"register", "auth"}
  BY DEF Open, Saving
<1>2. /\ r.at = "write" /\ r.config = proc[p].config /\ r.account = proc[p].account
      /\ r.client = proc[p].client /\ r.token = proc[p].token /\ r.cmd = proc[p].cmd
      /\ r.alone = proc[p].alone /\ r.inKeyring = proc[p].inKeyring
  BY DEF OwnInv, ProcInv, Command, Fields
<1>3. file' \in File /\ file' \notin {None, Garbled}
  BY <1>1, NoneAssumption DEF NoSections, File
<1>4. FilesInv'
  BY <1>1, <1>2, <1>3, FilesAfter DEF SaveInv, FilesInv
<1>5. CASE ~proc[p].alone
  BY <1>1, <1>2, <1>4, <1>5, Crowd DEF SaveInv
<1>6. CASE proc[p].alone
  <2>1. Saving = {p} /\ SaverSound(keyring, sound, proc[p]) /\ Saving' = {p} /\ proc'[p] = r
    BY <1>1, <1>2, <1>6, Single DEF InSave
  <2>2. SectionFor(r) = SectionFor(proc[p])
    BY <1>2 DEF SectionFor
  <2>3. SaverSound(keyring, sound, r)
    BY <2>1, <2>2, <1>1, <1>2 DEF SaverSound
  <2>4. SavesInv'
    BY <2>1, <2>3, <1>1, <1>2, <1>6 DEF SavesInv
  <2>5. proc'[p].at = "write" /\ proc'[p].account = proc[p].account
    BY <2>1, <1>2
  <2>6. ~\A q \in Saving' : proc'[q].at # "write"
    BY <2>1, <2>5
  <2>7. \A a : (\A q \in Saving' : proc'[q].account # a) => a # proc[p].account
    BY <2>1, <2>5
  <2>8. ASSUME NEW a \in Accounts, sound[a] # None
        PROVE  /\ sound[a].client \in Clients /\ sound[a].token \in Nat
               /\ sound[a].inKeyring /\ a # proc[p].account =>
                    keyring[Key(a, sound[a].client)] = sound[a].token \/ Collide(a, sound[a].client)
    BY <2>1, <2>8 DEF SaveInv, SoundInv
  <2>9. SoundInv'
    BY <2>6, <2>7, <2>8, <1>1, <1>3 DEF SaveInv, SoundInv
  <2> QED
    BY <1>4, <2>4, <2>9 DEF SaveInv
<1> QED
  BY <1>5, <1>6

\* Whatever is written over a file leaves one, or a garbled one; over an emptied file, itself
LEMMA OverlayFile ==
    ASSUME OwnInv, NEW new \in File, NEW old \in File \cup {Garbled}, NEW f \in Overlay(new, old)
    PROVE  /\ f \in File \cup {Garbled}
           /\ old = NoSections => f = new
<1>1. ASSUME NEW was \in File, NEW last \in Accounts, new[last] # None,
             NEW section \in RunsInto(new[last], was)
      PROVE  section \in Section
  <2>1. new[last] \in Section
    BY <1>1 DEF File
  <2>2. ASSUME NEW a \in Accounts PROVE TokenIn(was, a) \in Nat \cup {None, Garbled}
    BY <1>1 DEF TokenIn, File, Section
  <2>3. ASSUME NEW s \in Section, NEW t \in Nat \cup {None, Garbled}
        PROVE  [s EXCEPT !.token = t] \in Section /\ [s EXCEPT !.client = Garbled] \in Section
    BY DEF Section
  <2>4. \/ section = new[last]
        \/ section = [new[last] EXCEPT !.token = Garbled]
        \/ section = [new[last] EXCEPT !.client = Garbled]
        \/ \E a \in Accounts : section = [new[last] EXCEPT !.token = TokenIn(was, a)]
    BY <1>1 DEF RunsInto
  <2> HIDE DEF Section, File
  <2> QED
    BY <2>1, <2>2, <2>3, <2>4
<1>2. Before(old) \subseteq File
  <2>1. CASE old # Garbled
    BY <2>1 DEF Before
  <2>2. CASE old = Garbled
    BY <2>2, IssuedNumbers DEF Before, File, Section
  <2> QED
    BY <2>1, <2>2
<1>3. ASSUME NEW was \in File, NEW last, NEW section \in Section, NEW more
      PROVE  [a \in Accounts |-> IF a = last THEN section ELSE IF a \in more THEN was[a] ELSE new[a]] \in File
  BY DEF File
<1>4. ASSUME old # NoSections, new # NoSections, f # new, f # Garbled PROVE f \in File
  <2>1. PICK last \in Accounts, was \in Before(old) : \E section, more :
          /\ new[last] # None /\ section \in RunsInto(new[last], was)
          /\ f = [a \in Accounts |-> IF a = last THEN section ELSE IF a \in more THEN was[a] ELSE new[a]]
    BY <1>4 DEF Overlay
  <2>2. was \in File
    BY <1>2
  <2>3. PICK section, more :
          /\ new[last] # None /\ section \in RunsInto(new[last], was)
          /\ f = [a \in Accounts |-> IF a = last THEN section ELSE IF a \in more THEN was[a] ELSE new[a]]
    BY <2>1
  <2>4. section \in Section
    BY <2>2, <2>3, <1>1
  <2> QED
    BY <2>2, <2>3, <2>4, <1>3
<1> QED
  BY <1>4 DEF Overlay

LEMMA PartsFile ==
    ASSUME NEW f \in File, NEW part \in Parts(f) PROVE part \in File
<1>1. ASSUME NEW s \in Section PROVE [s EXCEPT !.token = None] \in Section
  BY DEF Section
<1>2. ASSUME NEW a \in Accounts, f[a] # None PROVE f[a] \in Section
  BY <1>2 DEF File
<1> QED
  BY <1>1, <1>2 DEF Parts, File

LEMMA FlushFile ==
    ASSUME OwnInv, SaveInv, NEW p \in Saving, proc[p].at = "write", NEW part \in File, Flush(p, part)
    PROVE  /\ file' \in File \cup {Garbled} /\ file' # None
           /\ file = NoSections => file' = part
<1>1. file \in File \cup {Garbled}
  BY DEF SaveInv, FilesInv
<1>2. file' \in Overlay(part, file)
  BY DEF Flush
<1> QED
  BY <1>1, <1>2, OverlayFile, NoneAssumption

LEMMA CloseRecoverable ==
    ASSUME OwnInv, SaveInv, NEW p \in Procs, Close(p) PROVE SaveInv'
<1>1. /\ p \in Saving /\ proc[p].at = "write" /\ UNCHANGED keyring /\ Flush(p, proc[p].config)
      /\ Set(p, Idle) /\ proc[p].cmd \in {"register", "auth"} /\ ~InSave(Idle)
  BY DEF Close, Saving, InSave, Idle
<1>2. /\ proc[p].config \in File
      /\ file' \in File \cup {Garbled} /\ file' # None
      /\ file = NoSections => file' = proc[p].config
  <2>1. proc[p].config \in File
    BY <1>1 DEF SaveInv, FilesInv
  <2> QED
    BY <1>1, <2>1, FlushFile
<1>3. FilesInv'
  BY <1>1, <1>2, FilesAfter DEF SaveInv, FilesInv
<1>4. CASE ~proc[p].alone
  <2>1. sound' = sound
    BY <1>4 DEF Close
  <2> QED
    BY <1>1, <1>3, <1>4, <2>1, Crowd DEF SaveInv
<1>5. CASE proc[p].alone
  <2> PICK b : b = proc[p].account
    OBVIOUS
  <2>1. /\ Saving = {p} /\ SaverSound(keyring, sound, proc[p]) /\ Saving' = {}
        /\ file = NoSections
    BY <1>1, <1>5, Single
  <2>w. file' = proc[p].config /\ file' \notin {None, Garbled}
    BY <2>1, <1>2, NoneAssumption
  <2>2. SavesInv'
    BY <2>1 DEF SavesInv
  <2>3. /\ b \in Accounts /\ proc[p].client \in Clients /\ proc[p].token \in Nat
    BY <1>1, Saver
  <2> PICK s : s = [client |-> proc[p].client, token |-> proc[p].token, inKeyring |-> proc[p].inKeyring]
    OBVIOUS
  <2>4. /\ DOMAIN sound' = Accounts /\ sound'[b] = s
        /\ \A a \in Accounts \ {b} : sound'[a] = sound[a]
    BY <1>5, <2>3 DEF Close, SaveInv, SoundInv
  <2>5. SectionFor(proc[p]) \in Section /\ SectionFor(proc[p]) # None
    BY <2>3, NoneAssumption DEF SectionFor, Section
  <2>6. /\ s.client \in Clients /\ s.token \in Nat
        /\ s.inKeyring => keyring[Key(b, s.client)] = s.token
        /\ ~s.inKeyring => Kept(file', b, s)
    BY <2>1, <2>3, <2>5, <2>w, <1>1 DEF SaverSound, SectionFor, Kept
  <2>7. ASSUME NEW a \in Accounts \ {b}, sound[a] # None
        PROVE  /\ sound[a].client \in Clients /\ sound[a].token \in Nat
               /\ sound[a].inKeyring =>
                    keyring[Key(a, sound[a].client)] = sound[a].token \/ Collide(a, sound[a].client)
               /\ ~sound[a].inKeyring => Kept(file', a, sound[a])
    BY <2>1, <2>7, <2>w, <1>1 DEF SaveInv, SoundInv, SaverSound
  <2>8. SoundInv'
    BY <2>4, <2>6, <2>7, <2>w, <1>1 DEF SoundInv
  <2> QED
    BY <1>3, <2>2, <2>8 DEF SaveInv
<1> QED
  BY <1>4, <1>5

LEMMA StopRecoverable ==
    ASSUME OwnInv, SaveInv, NEW p \in Procs, Stop(p) PROVE SaveInv'
<1>1. /\ UNCHANGED keyring /\ Set(p, Idle) /\ ~InSave(Idle)
      /\ ~(p \in Saving /\ proc[p].at = "write") => UNCHANGED file
  BY DEF Stop, InSave, Idle
<1>2. CASE p \notin Saving
  BY <1>1, <1>2, Bystander DEF Stop
<1>f. FilesInv'
  <2>1. CASE p \in Saving /\ proc[p].at = "write"
    <3>1. PICK part \in Parts(proc[p].config) : Flush(p, part)
      BY <2>1 DEF Stop
    <3>2. part \in File
      BY <2>1, PartsFile DEF SaveInv, FilesInv
    <3>3. file' \in File \cup {Garbled} /\ file' # None
      BY <2>1, <3>1, <3>2, FlushFile
    <3> QED
      BY <3>3, <1>1, FilesAfter DEF SaveInv, FilesInv
  <2>2. CASE ~(p \in Saving /\ proc[p].at = "write")
    BY <2>2, <1>1, FilesAfter DEF SaveInv, FilesInv
  <2> QED
    BY <2>1, <2>2
<1>3. ASSUME p \in Saving, ~proc[p].alone PROVE SaveInv'
  <2>1. sound' = Disturbed
    BY <1>3 DEF Stop
  <2> QED
    BY <1>1, <1>f, <1>3, <2>1, Crowd DEF SaveInv
<1>4. ASSUME p \in Saving, proc[p].alone PROVE SaveInv'
  <2>1. Saving = {p} /\ Saving' = {}
    BY <1>1, <1>4, Single
  <2>2. FilesInv' /\ SavesInv'
    BY <2>1, <1>f DEF SavesInv
  <2>3. CASE proc[p].at = "write"
    <3>1. sound' = Disturbed
      BY <1>4, <2>3 DEF Stop
    <3> QED
      BY <2>2, <3>1 DEF SaveInv, SoundInv, Disturbed
  <2>4. CASE proc[p].at # "write"
    <3>1. sound' = [sound EXCEPT ![proc[p].account] = None]
      BY <1>4, <2>4 DEF Stop
    <3>2. SoundInv'
      BY <3>1, <2>1, <2>4, <1>1 DEF SaveInv, SoundInv
    <3> QED
      BY <2>2, <3>2 DEF SaveInv
  <2> QED
    BY <2>3, <2>4
<1> QED
  BY <1>2, <1>3, <1>4

LEMMA OthersRecoverable ==
    ASSUME OwnInv, SaveInv, NEW p \in Procs,
           Scan(p) \/ LoadLocal(p) \/ Info(p) \/ KeyringRow(p) \/ FileRow(p)
    PROVE  SaveInv'
<1>1. proc[p].cmd \in {"idle", "scan", "info"} /\ UNCHANGED <<file, mixed, keyring, sound>>
  BY DEF Scan, LoadLocal, Info, KeyringRow, FileRow
<1>2. p \notin Saving
  BY <1>1 DEF Saving
<1>3. ASSUME NEW r, Set(p, r), r.cmd \in {"scan", "info"} PROVE SaveInv'
  BY <1>1, <1>2, <1>3, Bystander DEF InSave
<1>4. DOMAIN proc[p] = Fields
  BY DEF OwnInv, ProcInv, Command
<1>5. CASE Scan(p)
  <2>1. PICK a, c, t :
          Set(p, [Idle EXCEPT !.cmd = "scan", !.account = a, !.client = c, !.token = t, !.at = "file"])
    BY <1>5 DEF Scan
  <2>2. [Idle EXCEPT !.cmd = "scan", !.account = a, !.client = c, !.token = t, !.at = "file"].cmd = "scan"
    BY DEF Idle
  <2> QED
    BY <2>1, <2>2, <1>3
<1>6. CASE LoadLocal(p)
  <2> PICK r : r = [proc[p] EXCEPT !.at = "ended",
                                   !.token = TokenOf(file, proc[p].account, proc[p].token),
                                   !.mixed = IF proc[p].token = None THEN mixed ELSE {}]
    OBVIOUS
  <2>1. r.cmd = "scan" /\ Set(p, r)
    BY <1>4, <1>6 DEF LoadLocal, Fields
  <2> QED
    BY <2>1, <1>3
<1>7. CASE Info(p)
  <2> PICK r : r = [Idle EXCEPT !.cmd = "info", !.at = "rows", !.config = file,
                           !.todo = {a \in Accounts : file[a] # None}]
    OBVIOUS
  <2>1. r.cmd = "info" /\ Set(p, r)
    BY <1>7 DEF Info, Idle
  <2> QED
    BY <2>1, <1>3
<1>8. CASE KeyringRow(p)
  <2>1. PICK r : Set(p, r) /\ r.cmd = "info"
    <3>1. proc[p].cmd = "info"
      BY <1>8 DEF KeyringRow
    <3>2. PICK a, t :
            IF t = None
            THEN Set(p, [proc[p] EXCEPT !.at = "file", !.account = a, !.token = None])
            ELSE \E answer \in CloudSyncStatus(a, proc[p].config[a].client, t) :
                 LET row == Row(a, proc[p].config[a].client, t, answer, proc[p].authz)
                 IN Set(p, [proc[p] EXCEPT !.at = "file", !.account = a, !.token = t,
                               !.authz = row.authz, !.rows = @ \cup {row}])
      BY <1>8 DEF KeyringRow
    <3>3. \E row : \/ Set(p, [proc[p] EXCEPT !.at = "file", !.account = a, !.token = None])
                   \/ Set(p, [proc[p] EXCEPT !.at = "file", !.account = a, !.token = t,
                               !.authz = row.authz, !.rows = @ \cup {row}])
      BY <3>2
    <3>4. \A row : /\ [proc[p] EXCEPT !.at = "file", !.account = a, !.token = None].cmd = "info"
                   /\ [proc[p] EXCEPT !.at = "file", !.account = a, !.token = t,
                               !.authz = row.authz, !.rows = @ \cup {row}].cmd = "info"
      BY <3>1, <1>4 DEF Fields
    <3> QED
      BY <3>3, <3>4
  <2> QED
    BY <2>1, <1>3
<1>9. CASE FileRow(p)
  <2> PICK next : next = [proc[p] EXCEPT !.at = "rows", !.todo = @ \ {proc[p].account}]
    OBVIOUS
  <2>1. proc[p].cmd = "info" /\ \E row : Set(p, next)
          \/ Set(p, [next EXCEPT !.authz = row.authz, !.rows = @ \cup {row}])
    BY <1>9 DEF FileRow
  <2>2. DOMAIN next = Fields /\ next.cmd = "info"
    BY <2>1, <1>4 DEF Fields
  <2>3. \A row : [next EXCEPT !.authz = row.authz, !.rows = @ \cup {row}].cmd = "info"
    BY <2>2 DEF Fields
  <2> QED
    BY <2>1, <2>2, <2>3, <1>3
<1> QED
  BY <1>5, <1>6, <1>7, <1>8, <1>9

LEMMA InitRecoverable == Init => SaveInv
  BY DEF Init, SaveInv, FilesInv, SavesInv, SoundInv, Saving, Idle, Disturbed

LEMMA NextRecoverable == OwnInv /\ SaveInv /\ [Next]_vars => SaveInv'
<1> SUFFICES ASSUME OwnInv, SaveInv, [Next]_vars PROVE SaveInv'
  OBVIOUS
<1>1. CASE UNCHANGED vars
  BY <1>1 DEF vars, SaveInv, FilesInv, SavesInv, SoundInv, Saving, Disturbed
<1>2. ASSUME NEW p \in Procs, Register(p) PROVE SaveInv'
  <2>1. UNCHANGED <<file, mixed, keyring>> /\ proc[p].cmd = "idle"
    BY <1>2 DEF Register
  <2>2. CASE UNCHANGED <<proc, sound>>
    BY <2>1, <2>2 DEF SaveInv, FilesInv, SavesInv, SoundInv, Saving, Disturbed
  <2>3. ASSUME NEW a, NEW c, NEW t, BeginSave(p, "register", a, c, t) PROVE SaveInv'
    BY <2>1, <2>3, BeginSaveRecoverable
  <2>4. (\E a, c, t : BeginSave(p, "register", a, c, t)) \/ UNCHANGED <<proc, sound>>
    BY <1>2 DEF Register
  <2> QED
    BY <2>2, <2>3, <2>4
<1>3. ASSUME NEW p \in Procs, Auth(p) PROVE SaveInv'
  BY <1>3, BeginSaveRecoverable DEF Auth
<1> QED
  BY <1>1, <1>2, <1>3, SaveKeyringRecoverable, ReadConfigRecoverable, OpenRecoverable,
     CloseRecoverable, StopRecoverable, OthersRecoverable DEF Next

\* Once a save has ended undisturbed, and while none runs, a scan of its account and client
\* finds its token, whatever saves of other accounts, failing keyrings and stopped
\* commands came before and after, except where Recoverable says so.
THEOREM SavedStays ==
    Spec => []Recoverable
<1>1. SaveInv => Recoverable
  <2> SUFFICES ASSUME SaveInv, Saving = {}, NEW a \in Accounts, sound[a] # None,
                      NEW entry, entry = keyring[Key(a, sound[a].client)]
               PROVE  \/ TokenOf(file, a, entry) = sound[a].token
                      \/ ~sound[a].inKeyring /\ entry \notin {None, sound[a].token}
                      \/ Collide(a, sound[a].client)
    BY DEF Recoverable
  <2>1. sound[a].token # None
    BY CredentialsAssumption DEF SaveInv, SoundInv
  <2>2. CASE sound[a].inKeyring
    BY <2>1, <2>2 DEF SaveInv, SoundInv, TokenOf
  <2>3. CASE ~sound[a].inKeyring
    BY <2>1, <2>3 DEF SaveInv, SoundInv, TokenOf, Kept
  <2> QED
    BY <2>2, <2>3
<1> QED
  BY <1>1, OwnInvariant, InitRecoverable, NextRecoverable, PTL DEF Spec
=============================================================================
