----------------------------- MODULE Pop3Server ----------------------------
(***************************************************************************)
(* The server as its users meet it: POP3 connections (server/src/pop3.c    *)
(* and states/), the accounts and locks they share (UserManager), the      *)
(* maildrop directories, and the administrator's commands                  *)
(* (monitor-commands.c), all served by one event loop.  A handler runs to  *)
(* its end before the next event is looked at, so each action below is one *)
(* handler, and the interleaving is that of the events of the connections. *)
(*                                                                         *)
(* Commands that change nothing (CAPA, NOOP, STAT, LIST, RETR, LISTUSERS,  *)
(* METRICS, LOGS, unknown and refused ones) are stuttering steps.          *)
(***************************************************************************)
EXTENDS UserManager, Monitor

CONSTANTS
    Connections,     \* the POP3 connections that may be open
    ArgNames,        \* usernames a USER argument can spell: the parser lowers it
    ArgPasswords,    \* passwords a PASS argument can spell
    NoUser,          \* client->user == NULL
    NoManager,       \* client->message_manager == NULL
    InitUsers,       \* the list load_users read
    InitDrops,       \* the directories found beside it
    InitMaxUsers, InitMaxConns,
    Limits,          \* arguments of MAXUSERS and MAXCONNS
    AdminCommands,   \* the account commands the administrator uses
    OpenFaults,      \* whether opening a maildrop that exists may fail
    LogFaults        \* whether monitor_add_log may run out of memory

ASSUME NoUserAssumption == NoUser \notin Names
ASSUME ArgAssumption == ArgNames \subseteq Names /\ ArgPasswords \subseteq Passwords \ {NoPassword}
ASSUME LoginFaultAssumption == OpenFaults \in BOOLEAN /\ LogFaults \in BOOLEAN
ASSUME LimitAssumption == InitMaxUsers \in Nat /\ InitMaxConns \in Nat /\ Limits \subseteq Nat

\* load_users leaves every account unlocked.
ASSUME InitAssumption ==
    /\ \A s \in InitUsers : s \in Seq(User) /\ \A i \in DOMAIN s : ~s[i].locked
    /\ InitDrops \subseteq [Names -> {NoDrop} \cup SUBSET Mails]

\* What a sound users file and its directories look like: every name once,
\* and a maildrop for each.
SoundStart ==
    \A s \in InitUsers, d \in InitDrops :
        /\ \A i, j \in DOMAIN s : s[i].username = s[j].username => i = j
        /\ \A i \in DOMAIN s : d[s[i].username] # NoDrop

VARIABLES
    phase,           \* state of the connection's state machine
    user,            \* client->user
    authenticated,   \* client->authenticated
    manager          \* client->message_manager

clientVars == <<phase, user, authenticated, manager>>
vars == <<umVars, monitorVars, clientVars>>

Phases == {"FREE", "GREETING", "AUTHORIZATION", "TRANSACTION", "UPDATE"}
Manager == [path : Names, messages : SUBSET Mails, marked : SUBSET Mails]

TypeOK ==
    /\ UMTypeOK
    /\ maxUsers \in Nat /\ maxConns \in Nat /\ currentConns \in Nat
    /\ logged \subseteq Names
    /\ phase \in [Connections -> Phases]
    /\ user \in [Connections -> Names \cup {NoUser}]
    /\ authenticated \in [Connections -> BOOLEAN]
    /\ manager \in [Connections -> {NoManager} \cup Manager]

Init ==
    /\ users \in InitUsers
    /\ userCount = Len(users)
    /\ drops \in InitDrops
    /\ MonitorInit(InitMaxUsers, InitMaxConns)
    /\ phase = [c \in Connections |-> "FREE"]
    /\ user = [c \in Connections |-> NoUser]
    /\ authenticated = [c \in Connections |-> FALSE]
    /\ manager = [c \in Connections |-> NoManager]

----------------------------------------------------------------------------
\* Faulty variant: one connection more than the limit gets in.
AcceptOneMore(c) ==
    /\ phase[c] = "FREE"
    /\ maxConns >= currentConns
    /\ AddConnection
    /\ phase' = [phase EXCEPT ![c] = "GREETING"]
    /\ UNCHANGED <<umVars, maxUsers, maxConns, logged, user, authenticated, manager>>

\* pop3_server_accept; at the limit the socket is closed at once.
Accept(c) ==
    /\ phase[c] = "FREE"
    /\ maxConns > currentConns
    /\ AddConnection
    /\ phase' = [phase EXCEPT ![c] = "GREETING"]
    /\ UNCHANGED <<umVars, maxUsers, maxConns, logged, user, authenticated, manager>>

\* pop3_client_close and close_connection: the lock goes back only if the
\* client is authenticated.
Close(c) ==
    /\ IF authenticated[c] THEN \E r \in {"OK", "ENOENT"} : Logout(user[c], r) ELSE UNCHANGED umVars
    /\ phase' = [phase EXCEPT ![c] = "FREE"]
    /\ user' = [user EXCEPT ![c] = NoUser]
    /\ authenticated' = [authenticated EXCEPT ![c] = FALSE]
    /\ manager' = [manager EXCEPT ![c] = NoManager]
    /\ RemoveConnection
    /\ UNCHANGED <<maxUsers, maxConns, logged>>

\* The peer closes, or an I/O error: recv() <= 0 or send() <= 0, in any state.
Disconnect(c) == phase[c] # "FREE" /\ Close(c)

\* greeting_write once the greeting has left.
GreetingSent(c) ==
    /\ phase[c] = "GREETING"
    /\ phase' = [phase EXCEPT ![c] = "AUTHORIZATION"]
    /\ UNCHANGED <<umVars, monitorVars, user, authenticated, manager>>

----------------------------------------------------------------------------
(* AUTHORIZATION *)

\* handle_user: the first name given counts; an empty one leaves NULL.
UserCommand(c, n) ==
    /\ phase[c] = "AUTHORIZATION"
    /\ user[c] = NoUser
    /\ user' = [user EXCEPT ![c] = n]
    /\ UNCHANGED <<umVars, monitorVars, phase, authenticated, manager>>

\* handle_pass, user_manager_login refused it: the name is forgotten.
PassRefused(c, p) ==
    /\ phase[c] = "AUTHORIZATION"
    /\ user[c] # NoUser
    /\ \E r \in {"ENOENT", "EACCES", "EBUSY"} : Login(user[c], p, r)
    /\ user' = [user EXCEPT ![c] = NoUser]
    /\ UNCHANGED <<monitorVars, phase, authenticated, manager>>

\* handle_pass, logged in: the maildrop is photographed (MaildropSession has
\* the steps of it).
PassAccepted(c, p) ==
    /\ phase[c] = "AUTHORIZATION"
    /\ user[c] # NoUser
    /\ Login(user[c], p, "OK")
    /\ DropExists(user[c])
    /\ manager' = [manager EXCEPT ![c] = [path |-> user[c], messages |-> drops[user[c]], marked |-> {}]]
    /\ authenticated' = [authenticated EXCEPT ![c] = TRUE]
    /\ AddLog(user[c])
    /\ phase' = [phase EXCEPT ![c] = "TRANSACTION"]
    /\ UNCHANGED <<maxUsers, maxConns, currentConns, user>>

\* handle_pass, logged in but message_manager_create returned NULL: ERROR,
\* close_connection, with authenticated still false.
PassWithoutMaildrop(c, p) ==
    /\ phase[c] = "AUTHORIZATION"
    /\ user[c] # NoUser
    /\ Login(user[c], p, "OK")
    /\ OpenFaults \/ ~DropExists(user[c])
    /\ phase' = [phase EXCEPT ![c] = "FREE"]
    /\ user' = [user EXCEPT ![c] = NoUser]
    /\ RemoveConnection
    /\ UNCHANGED <<maxUsers, maxConns, logged, authenticated, manager>>

\* Faulty variant: the session is marked as the owner of the lock only once
\* it is logged.
PassUnloggedUnowned(c, p) ==
    /\ LogFaults
    /\ phase[c] = "AUTHORIZATION"
    /\ user[c] # NoUser
    /\ Login(user[c], p, "OK")
    /\ DropExists(user[c])
    /\ phase' = [phase EXCEPT ![c] = "FREE"]
    /\ user' = [user EXCEPT ![c] = NoUser]
    /\ RemoveConnection
    /\ UNCHANGED <<maxUsers, maxConns, logged, authenticated, manager>>

\* handle_pass, monitor_add_log out of memory: authenticated is already set,
\* so the lock is taken and, on the way through ERROR, given back.
PassUnlogged(c, p) ==
    /\ LogFaults
    /\ phase[c] = "AUTHORIZATION"
    /\ user[c] # NoUser
    /\ LoginResult(user[c], p) = "OK"
    /\ DropExists(user[c])
    /\ Close(c)

\* handle_quit
QuitAuthorization(c) == phase[c] = "AUTHORIZATION" /\ Close(c)

----------------------------------------------------------------------------
(* TRANSACTION and UPDATE *)

Dele(c, m) ==
    /\ phase[c] = "TRANSACTION"
    /\ m \in manager[c].messages \ manager[c].marked
    /\ manager' = [manager EXCEPT ![c].marked = @ \cup {m}]
    /\ UNCHANGED <<umVars, monitorVars, phase, user, authenticated>>

Rset(c) ==
    /\ phase[c] = "TRANSACTION"
    /\ manager' = [manager EXCEPT ![c].marked = {}]
    /\ UNCHANGED <<umVars, monitorVars, phase, user, authenticated>>

\* The paths are those of the photograph, the files those on disk now.
RemoveFiles(path, gone) ==
    drops' = [drops EXCEPT ![path] = IF DropExists(path) THEN @ \ gone ELSE @]

\* Faulty variant: the whole photograph is removed.
QuitRemovingAll(c) ==
    /\ phase[c] = "TRANSACTION"
    /\ RemoveFiles(manager[c].path, manager[c].messages)
    /\ phase' = [phase EXCEPT ![c] = "UPDATE"]
    /\ UNCHANGED <<users, userCount, monitorVars, user, authenticated, manager>>

\* handle_quit and update_on_arrival; remove(3) may fail on some files.
QuitTransaction(c) ==
    /\ phase[c] = "TRANSACTION"
    /\ \E kept \in IF DiskFaults THEN SUBSET manager[c].marked ELSE {{}} :
          RemoveFiles(manager[c].path, manager[c].marked \ kept)
    /\ phase' = [phase EXCEPT ![c] = "UPDATE"]
    /\ UNCHANGED <<users, userCount, monitorVars, user, authenticated, manager>>

\* update_write once the answer to QUIT has left.
UpdateSent(c) == phase[c] = "UPDATE" /\ Close(c)

----------------------------------------------------------------------------
(* The administrator, and the world outside *)

HandleAdduser(n, p) ==
    /\ "ADDUSER" \in AdminCommands
    /\ \E r \in {"OK", "EFBIG", "EINVAL", "EEXIST", "EIO"} : CreateUser(n, p, maxUsers, r)
    /\ UNCHANGED <<monitorVars, clientVars>>

HandleDeluser(n) ==
    /\ "DELUSER" \in AdminCommands
    /\ \E r \in {"OK", "ENOENT", "EBUSY", "EIO"} : DeleteUser(n, r)
    /\ UNCHANGED <<monitorVars, clientVars>>

HandleUpdatepass(n, p) ==
    /\ "UPDATEPASS" \in AdminCommands
    /\ \E r \in {"OK", "ENOENT", "ENOMEM"} : ChangePassword(n, p, r)
    /\ UNCHANGED <<monitorVars, clientVars>>

HandleUpdatename(old, new) ==
    /\ "UPDATENAME" \in AdminCommands
    /\ \E r \in {"OK", "ENOENT", "EIO"} : ChangeUsername(old, new, r)
    /\ UNCHANGED <<monitorVars, clientVars>>

HandleMaxusers(k) == SetMaxUsers(k) /\ UNCHANGED <<umVars, clientVars>>
HandleMaxconns(k) == SetMaxConns(k) /\ UNCHANGED <<umVars, clientVars>>

\* External: a mail transfer agent drops a file into a maildrop.
Deliver(n, m) ==
    /\ DropExists(n)
    /\ drops' = [drops EXCEPT ![n] = @ \cup {m}]
    /\ UNCHANGED <<users, userCount, monitorVars, clientVars>>

Session(c) ==
    \/ Accept(c)
    \/ GreetingSent(c)
    \/ Disconnect(c)
    \/ \E n \in ArgNames : UserCommand(c, n)
    \/ \E p \in ArgPasswords :
          \/ PassRefused(c, p)
          \/ PassAccepted(c, p)
          \/ PassWithoutMaildrop(c, p)
          \/ PassUnlogged(c, p)
    \/ QuitAuthorization(c)
    \/ \E m \in Mails : Dele(c, m)
    \/ Rset(c)
    \/ QuitTransaction(c)
    \/ UpdateSent(c)

Administrator ==
    \/ \E n \in Names, p \in Passwords \ {NoPassword} : HandleAdduser(n, p) \/ HandleUpdatepass(n, p)
    \/ \E n \in Names : HandleDeluser(n)
    \/ \E old, new \in Names : HandleUpdatename(old, new)
    \/ \E k \in Limits : HandleMaxusers(k) \/ HandleMaxconns(k)

Next ==
    \/ \E c \in Connections : Session(c)
    \/ Administrator
    \/ \E n \in Names, m \in Mails : Deliver(n, m)

Spec == Init /\ [][Next]_vars

\* Every connection ends some day; the server itself has no inactivity
\* timer, so this is an assumption about the peers and the network.
FairSpec == Spec /\ \A c \in Connections : WF_vars(Disconnect(c))

----------------------------------------------------------------------------
(* Properties *)

InSession(c) == phase[c] \in {"TRANSACTION", "UPDATE"}

\* user-manager.h:94: while a session has a maildrop open no other session
\* has it open.
MaildropExclusive ==
    \A c, d \in Connections :
        InSession(c) /\ InSession(d) /\ manager[c].path = manager[d].path => c = d

\* The session that holds a maildrop is the owner of the account's lock.
SessionHoldsLock ==
    \A c \in Connections : InSession(c) =>
        /\ authenticated[c] /\ manager[c].path = user[c]
        /\ GetUser(user[c]) # 0 /\ users[GetUser(user[c])].locked

\* user-manager.h:75: "The users maildrop is locked, this means the user is
\* logged in".
LockMeansSession ==
    \A i \in DOMAIN users : users[i].locked =>
        \E c \in Connections : InSession(c) /\ user[c] = users[i].username

\* What a session has photographed stays on disk until the session quits,
\* whatever the administrator and the other sessions do; after QUIT only
\* marked messages may be gone.
SessionMailsStay ==
    \A c \in Connections : InSession(c) =>
        LET keeps == IF phase[c] = "UPDATE" THEN manager[c].messages \ manager[c].marked
                                            ELSE manager[c].messages
        IN DropExists(manager[c].path) /\ keeps \subseteq drops[manager[c].path]

\* RFC 1939 section 6: a session that ends without QUIT removes nothing.
\* No step takes a mail from under an open session but the session's own
\* QUIT, and that takes marked mails only.
OnlyQuitRemovesMail ==
    [][\A c \in Connections : phase[c] = "TRANSACTION" =>
          LET before == drops[manager[c].path]
              after == drops'[manager[c].path]
              lost == manager[c].messages \cap (before \ after)
          IN before # NoDrop =>
                /\ after # NoDrop
                /\ lost \subseteq IF phase'[c] = "UPDATE" THEN manager[c].marked ELSE {}]_vars

\* METRICS and the accept test count the open connections, through every
\* way a connection can end.
OpenConnections == {c \in Connections : phase[c] # "FREE"}
ConnectionsCounted == currentConns = Cardinality(OpenConnections)

\* MAXCONNS bounds the connections that are really open, not the counter:
\* none is let in above it, also after it was lowered below their number,
\* whatever ways the others have ended in.
LimitRespected ==
    [][~(OpenConnections' \subseteq OpenConnections) => Cardinality(OpenConnections') <= maxConns]_vars

\* A mail is lost for good only if a session marked it and quit, or if its
\* account was deleted: a rename moves maildrops and never loses one.
OnDisk(m) == \E n \in Names : DropExists(n) /\ m \in drops[n]
KeepsMails ==
    \A m \in Mails : OnDisk(m) /\ ~OnDisk(m)' =>
        \/ Len(users') < Len(users)
        \/ \E c \in Connections :
              phase[c] = "TRANSACTION" /\ phase'[c] = "UPDATE" /\ m \in manager[c].marked
MailSurvives == [][KeepsMails]_vars

\* No account stays locked for ever.
LockReleased ==
    \A n \in Names : []<>(GetUser(n) = 0 \/ ~users[GetUser(n)].locked)
=============================================================================
