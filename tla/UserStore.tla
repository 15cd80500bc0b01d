----------------------------- MODULE UserStore -----------------------------
(***************************************************************************)
(* The accounts across the lives of the server process: the users file is  *)
(* read when the user manager is created and written when it is freed      *)
(* (server/src/user-manager.c:46-127 and 480-637, server.c:75-98 and       *)
(* 202-209), while the maildrop directories change with every command.     *)
(* Between the two the process may be killed, and the disk may fail.       *)
(***************************************************************************)
EXTENDS UserManager

CONSTANTS
    Unfit,          \* names and passwords parse_line refuses: empty, or 32 characters
                    \* and more, where create_user takes 32
    Delimited,      \* names and passwords with a ':' in them
    BeforeColon,    \* the part of each before its first ':', maybe unfit
    AfterColon,     \* the part of a name behind it, up to a second ':'
    NoFile,         \* there is no users file
    InitFiles,      \* the users files a first start may find
    StartMaxUsers,  \* MAX_USERS, the limit of every new process
    Limits,         \* arguments of MAXUSERS
    RenameTaken     \* whether UPDATENAME may take the name of another account

Line == [username : Names, password : Passwords]

ASSUME DelimitedAssumption ==
    /\ Delimited \cap Names \cap ValidNames = {}
    /\ \A x \in Delimited : BeforeColon[x] \notin Delimited
    /\ \A x \in Delimited \cap Names : BeforeColon[x] \in Names /\ AfterColon[x] \in Passwords
    /\ \A x \in Delimited \cap Passwords : BeforeColon[x] \in Passwords
ASSUME StoreAssumption ==
    /\ StartMaxUsers \in Nat \ {0} /\ Limits \subseteq Nat /\ RenameTaken \in BOOLEAN
    /\ ~MemoryFaults
ASSUME FilesAssumption ==
    NoFile \notin Seq(Line) /\ \A f \in InitFiles : f = NoFile \/ f \in Seq(Line)

\* No name is twice in the users file of a first start.
SoundFiles ==
    \A f \in InitFiles \ {NoFile} : \A i, j \in DOMAIN f : f[i].username = f[j].username => i = j

VARIABLES
    file,       \* the users file
    process,    \* "up", "down", or "failed": died while it was starting
    limit,      \* monitor_get_max_users()
    \* observed
    saved,      \* the accounts the last complete save was for
    damage      \* "none", "killed": ended without a save, "torn": the file is not as saved

storeVars == <<umVars, file, process, limit, saved, damage>>

Accounts == [i \in DOMAIN users |-> [username |-> users[i].username, password |-> users[i].password]]

TypeOK ==
    /\ UMTypeOK
    /\ file = NoFile \/ file \in Seq(Line)
    /\ process \in {"up", "down", "failed"}
    /\ limit \in Nat
    /\ saved \in Seq(Line)
    /\ damage \in {"none", "killed", "torn"}

----------------------------------------------------------------------------
\* parse_line on the line save_users writes for an account: the first ':'
\* ends the name, a second one the password, and what is behind that one is
\* not looked at.  (No name is so long behind its ':' that fgets cuts the
\* line in two.)
ParseLine(line) ==
    IF line.username \in Delimited
    THEN [username |-> BeforeColon[line.username], password |-> AfterColon[line.username]]
    ELSE [line EXCEPT !.password = IF @ \in Delimited THEN BeforeColon[@] ELSE @]

\* parse_line refuses a line for an empty or a long name or password.
Readable(line) == ParseLine(line).username \notin Unfit /\ ParseLine(line).password \notin Unfit

\* Read back as it was written.
Plain(line) == Readable(line) /\ ParseLine(line) = line

\* load_users: a line it cannot read, or one too many, makes it fail, and
\* an empty file makes it follow a null pointer.  Each ends the process: in
\* the failing cases free_user_list and user_manager_free go on to use
\* memory that is not theirs, which the sanitizer of the build stops.
Loadable(lines) ==
    /\ lines # <<>>
    /\ \A i \in DOMAIN lines : Readable(lines[i])
    /\ Len(lines) <= StartMaxUsers

\* Faulty variant: every node is put in front of the one before.
LoadedBackwards(lines) ==
    [i \in DOMAIN lines |->
        LET line == ParseLine(lines[Len(lines) + 1 - i])
        IN  [username |-> line.username, password |-> line.password, locked |-> FALSE]]

Loaded(lines) ==
    [i \in DOMAIN lines |->
        LET line == ParseLine(lines[i])
        IN  [username |-> line.username, password |-> line.password, locked |-> FALSE]]

Start ==
    /\ process # "up"
    /\ limit' = StartMaxUsers
    /\ IF file = NoFile \/ Loadable(file)
       THEN /\ process' = "up"
            /\ users' = IF file = NoFile THEN <<>> ELSE Loaded(file)
            /\ userCount' = Len(users')
            /\ damage' = IF file = NoFile \/ \A i \in DOMAIN file : Plain(file[i])
                         THEN damage ELSE "torn"
       ELSE process' = "failed" /\ UNCHANGED <<users, userCount, damage>>
    /\ UNCHANGED <<drops, file, saved>>

Ends == process' = "down" /\ users' = <<>> /\ userCount' = 0 /\ UNCHANGED <<drops, limit>>

EndsUnsaved ==
    /\ Ends
    /\ damage' = IF damage = "none" THEN "killed" ELSE damage
    /\ UNCHANGED <<file, saved>>

\* SIGTERM or SIGINT: user_manager_free truncates the file and writes it
\* anew.  When it cannot be opened, the old file stays as it is.  The writing
\* may fail (fclose is not looked at), or the process be killed at it.
Stop ==
    /\ process = "up"
    /\ \/ Ends /\ file' = Accounts /\ saved' = Accounts /\ UNCHANGED damage
       \/ DiskFaults /\ EndsUnsaved
       \/ /\ DiskFaults
          /\ Ends
          /\ \E n \in 0..(Len(users) - 1) : file' = SubSeq(Accounts, 1, n)
          /\ damage' = "torn"
          /\ UNCHANGED saved

\* SIGKILL, a power failure, an abort: the list is lost.
Kill == process = "up" /\ EndsUnsaved

\* The calls of a running server that change what is saved.
Command ==
    /\ process = "up"
    /\ \/ \E n \in Names, p \in Passwords, r \in {"OK", "EFBIG", "EINVAL", "EEXIST", "EIO"} :
             CreateUser(n, p, limit, r)
       \/ \E n \in Names, r \in {"OK", "ENOENT", "EBUSY", "EIO"} : DeleteUser(n, r)
       \/ \E n \in Names, p \in Passwords, r \in {"OK", "ENOENT"} : ChangePassword(n, p, r)
       \/ \E old, new \in Names, r \in {"OK", "ENOENT", "EIO"} :
             /\ RenameTaken \/ new = old \/ GetUser(new) = 0
             /\ ChangeUsername(old, new, r)
    /\ UNCHANGED <<file, process, limit, saved, damage>>

SetLimit(k) == process = "up" /\ limit' = k /\ UNCHANGED <<umVars, file, process, saved, damage>>

\* The names in the users file.
FileNames == IF file = NoFile THEN {} ELSE {file[i].username : i \in DOMAIN file}

Init ==
    /\ users = <<>> /\ userCount = 0
    /\ file \in InitFiles
    /\ drops = [n \in Names |-> IF n \in FileNames THEN Mails ELSE NoDrop]
    /\ process = "down" /\ limit = StartMaxUsers
    /\ saved = (IF file = NoFile THEN <<>> ELSE file) /\ damage = "none"

Next == Start \/ Stop \/ Kill \/ Command \/ \E k \in Limits : SetLimit(k)

Spec == Init /\ [][Next]_storeVars

----------------------------------------------------------------------------
(* Properties *)

\* user-manager.h:13: the file written when the user manager is freed is
\* the one it is created from.  A kill costs the changes since the last
\* stop, never the accounts saved before; as long as the lines saved can be
\* read back.
RestoresSaved ==
    Start /\ damage # "torn" /\ Loadable(saved) /\ (\A i \in DOMAIN saved : Plain(saved[i]))
        => process' = "up" /\ Accounts' = saved

Restored == [][RestoresSaved]_storeVars

\* Memory and disk agree through restarts: every account has a maildrop
\* directory and every directory an account, unless the process was killed
\* or the file was damaged.
DropsMatchAccounts ==
    process = "up" /\ damage = "none" =>
        \A n \in Names : DropExists(n) <=> \E i \in DOMAIN users : users[i].username = n

\* No account is added, by a command or from the file, above the limit.
UserLimitRespected == [][Len(users') > Len(users) => Len(users') <= limit']_storeVars

\* user-manager.h:13: a server that has saved its accounts can be started.
CleanStopRestarts == damage = "none" => process # "failed"
=============================================================================
