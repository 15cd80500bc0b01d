---------------------------- MODULE UserManager ----------------------------
(***************************************************************************)
(* The user manager of the POP3 server (server/src/user-manager.c): a      *)
(* singleton linked list of accounts in memory and one maildrop directory  *)
(* per account on disk.  Every operation is one call; the server is a      *)
(* single thread, so a call is one step.  The parameter r of an operation  *)
(* is what the call returns: "OK" for 0, the errno for -1.                 *)
(*                                                                         *)
(* Names and passwords are model values.  ValidNames and ValidPasswords    *)
(* are those that pass the length, delimiter and whitespace tests of       *)
(* user_manager_create_user; no other operation makes those tests.         *)
(*                                                                         *)
(* A malloc that fails is followed only where it changes an account, in    *)
(* user_manager_change_password; elsewhere the call returns ENOMEM having  *)
(* changed nothing, and that return is left out.                           *)
(***************************************************************************)
EXTENDS Naturals, Sequences, SequencesExt

CONSTANTS
    Names,            \* usernames, the malformed ones too
    Passwords,        \* passwords, the malformed ones too
    ValidNames,       \* usernames create_user accepts
    ValidPasswords,   \* passwords create_user accepts
    Mails,            \* regular files a maildrop directory may hold
    NoDrop,           \* "there is no such directory"
    NoPassword,       \* NULL in the place of a password: no argument spells it
    DiskFaults,       \* whether a file-system call may fail for outside reasons
    MemoryFaults      \* whether malloc may fail

ASSUME NameAssumption == ValidNames \subseteq Names
ASSUME PasswordAssumption == ValidPasswords \subseteq Passwords
ASSUME DropAssumption == \A S \in SUBSET Mails : S # NoDrop
ASSUME FaultAssumption == DiskFaults \in BOOLEAN
ASSUME MemoryAssumption ==
    /\ MemoryFaults \in BOOLEAN
    /\ MemoryFaults => NoPassword \in Passwords \ ValidPasswords

VARIABLES
    users,        \* user_manager_user_list, first node first
    userCount,    \* user_manager_user_count
    drops         \* the maildrop directories under the parent path

umVars == <<users, userCount, drops>>

User == [username : Names, password : Passwords, locked : BOOLEAN]

UMTypeOK ==
    /\ users \in Seq(User)
    /\ userCount \in Nat
    /\ drops \in [Names -> {NoDrop} \cup SUBSET Mails]

----------------------------------------------------------------------------
\* get_user and the search loop of every operation: the position of the
\* first node with that name, 0 when there is none.
GetUser(n) == SelectInSeq(users, LAMBDA u : u.username = n)

DropExists(n) == drops[n] # NoDrop

\* A call that depends on the disk may return EIO although it could have
\* succeeded.
Faulty(result) == IF DiskFaults /\ result = "OK" THEN {"OK", "EIO"} ELSE {result}

SetLocked(n, value) == users' = [users EXCEPT ![GetUser(n)].locked = value]

----------------------------------------------------------------------------
\* Faulty variant: one account more than the limit.
CreateUserOneMore(n, p, max) ==
    IF userCount > max THEN "EFBIG"
    ELSE IF n \notin ValidNames \/ p \notin ValidPasswords THEN "EINVAL"
    ELSE IF GetUser(n) # 0 THEN "EEXIST"
    ELSE IF DropExists(n) THEN "EIO"
    ELSE "OK"

\* user_manager_create_user: the checks in their order, mkdir last.
CreateUserResult(n, p, max) ==
    IF userCount >= max THEN "EFBIG"
    ELSE IF n \notin ValidNames \/ p \notin ValidPasswords THEN "EINVAL"
    ELSE IF GetUser(n) # 0 THEN "EEXIST"
    ELSE IF DropExists(n) THEN "EIO"
    ELSE "OK"

\* Faulty variant: the directory is made before the search for the name.
CreateUserMkdirFirst(n, p, max, r) ==
    /\ r \in Faulty(CreateUserResult(n, p, max))
    /\ drops' = [drops EXCEPT ![n] = IF @ = NoDrop THEN {} ELSE @]
    /\ IF r = "OK"
       THEN /\ users' = Cons([username |-> n, password |-> p, locked |-> FALSE], users)
            /\ userCount' = userCount + 1
       ELSE UNCHANGED <<users, userCount>>

\* Faulty variant: a directory that is already there is taken over, and its
\* absence is what says that the name is free.
CreateUserTakingDrop(n, p, max, r) ==
    /\ r \in Faulty(IF userCount >= max THEN "EFBIG"
                    ELSE IF n \notin ValidNames \/ p \notin ValidPasswords THEN "EINVAL"
                    ELSE "OK")
    /\ IF r = "OK"
       THEN /\ users' = Cons([username |-> n, password |-> p, locked |-> FALSE], users)
            /\ userCount' = userCount + 1
            /\ drops' = [drops EXCEPT ![n] = IF @ = NoDrop THEN {} ELSE @]
       ELSE UNCHANGED umVars

\* Faulty variant: the counter is not incremented.
CreateUserUncounted(n, p, max, r) ==
    /\ r = CreateUserResult(n, p, max)
    /\ IF r = "OK"
       THEN /\ users' = Cons([username |-> n, password |-> p, locked |-> FALSE], users)
            /\ drops' = [drops EXCEPT ![n] = {}]
            /\ UNCHANGED userCount
       ELSE UNCHANGED umVars

CreateUser(n, p, max, r) ==
    /\ r \in Faulty(CreateUserResult(n, p, max))
    /\ IF r = "OK"
       THEN /\ users' = Cons([username |-> n, password |-> p, locked |-> FALSE], users)
            /\ userCount' = userCount + 1
            /\ drops' = [drops EXCEPT ![n] = {}]
       ELSE UNCHANGED umVars

----------------------------------------------------------------------------
\* user_manager_delete_user; delete_directory fails when the directory is
\* missing, and may fail after it has unlinked any of the files.
DeleteUserResult(n) ==
    IF GetUser(n) = 0 THEN "ENOENT"
    ELSE IF users[GetUser(n)].locked THEN "EBUSY"
    ELSE IF ~DropExists(n) THEN "EIO"
    ELSE "OK"

\* Faulty variant: the lock is not looked at.
DeleteUserIgnoringLock(n, r) ==
    /\ r = (IF GetUser(n) = 0 THEN "ENOENT" ELSE IF ~DropExists(n) THEN "EIO" ELSE "OK")
    /\ IF r = "OK"
       THEN /\ users' = RemoveAt(users, GetUser(n))
            /\ userCount' = userCount - 1
            /\ drops' = [drops EXCEPT ![n] = NoDrop]
       ELSE UNCHANGED umVars

\* Faulty variant: the node goes although its directory could not.
DeleteUserKeepingDrop(n, r) ==
    /\ r \in Faulty(DeleteUserResult(n))
    /\ IF r \in {"OK", "EIO"}
       THEN /\ users' = RemoveAt(users, GetUser(n))
            /\ userCount' = userCount - 1
            /\ drops' = [drops EXCEPT ![n] = IF r = "OK" THEN NoDrop ELSE @]
       ELSE UNCHANGED umVars

DeleteUser(n, r) ==
    /\ r \in Faulty(DeleteUserResult(n))
    /\ \/ /\ r = "OK"
          /\ users' = RemoveAt(users, GetUser(n))
          /\ userCount' = userCount - 1
          /\ drops' = [drops EXCEPT ![n] = NoDrop]
       \/ /\ r = "EIO"
          /\ DropExists(n)
          /\ \E left \in SUBSET drops[n] : drops' = [drops EXCEPT ![n] = left]
          /\ UNCHANGED <<users, userCount>>
       \/ /\ r # "OK"
          /\ r = "EIO" => ~DropExists(n)
          /\ UNCHANGED umVars

----------------------------------------------------------------------------
\* user_manager_login.  strcmp on the password of an account that has none
\* follows a null pointer: such a call does not return.
LoginResult(n, p) ==
    IF GetUser(n) = 0 THEN "ENOENT"
    ELSE IF users[GetUser(n)].password # p THEN "EACCES"
    ELSE IF users[GetUser(n)].locked THEN "EBUSY"
    ELSE "OK"

\* Faulty variant: a locked account can be entered again.
LoginIgnoringLock(n, p, r) ==
    /\ r = (IF LoginResult(n, p) = "EBUSY" THEN "OK" ELSE LoginResult(n, p))
    /\ IF r = "OK" THEN SetLocked(n, TRUE) ELSE UNCHANGED users
    /\ UNCHANGED <<userCount, drops>>

\* Faulty variant: the lock is left open.
LoginWithoutLocking(n, p, r) == r = LoginResult(n, p) /\ UNCHANGED umVars

Login(n, p, r) ==
    /\ GetUser(n) # 0 => users[GetUser(n)].password # NoPassword
    /\ r = LoginResult(n, p)
    /\ IF r = "OK" THEN SetLocked(n, TRUE) ELSE UNCHANGED users
    /\ UNCHANGED <<userCount, drops>>

----------------------------------------------------------------------------
\* user_manager_logout: whoever calls it, the first node of that name is
\* unlocked.
LogoutResult(n) == IF GetUser(n) = 0 THEN "ENOENT" ELSE "OK"

\* Faulty variant: the account stays locked.
LogoutLeavingLock(n, r) == r = LogoutResult(n) /\ UNCHANGED umVars

Logout(n, r) ==
    /\ r = LogoutResult(n)
    /\ IF r = "OK" THEN SetLocked(n, FALSE) ELSE UNCHANGED users
    /\ UNCHANGED <<userCount, drops>>

----------------------------------------------------------------------------
\* user_manager_change_username: neither the new name nor the lock is
\* looked at.  rename(2) fails when there is no old directory, or when the
\* new one exists and holds files; it replaces an empty one.
ChangeUsernameResult(old, new) ==
    IF GetUser(old) = 0 THEN "ENOENT"
    ELSE IF ~DropExists(old) \/ (new # old /\ drops[new] \notin {NoDrop, {}}) THEN "EIO"
    ELSE "OK"

\* Faulty variant: the directory keeps the old name.
ChangeUsernameWithoutRename(old, new, r) ==
    /\ r = ChangeUsernameResult(old, new)
    /\ IF r = "OK"
       THEN users' = [users EXCEPT ![GetUser(old)].username = new]
       ELSE UNCHANGED users
    /\ UNCHANGED <<userCount, drops>>

\* Faulty variant: whatever has the new name is replaced.
ChangeUsernameOverwriting(old, new, r) ==
    /\ r = (IF GetUser(old) = 0 THEN "ENOENT" ELSE IF ~DropExists(old) THEN "EIO" ELSE "OK")
    /\ IF r = "OK"
       THEN /\ users' = [users EXCEPT ![GetUser(old)].username = new]
            /\ drops' = [drops EXCEPT ![old] = NoDrop, ![new] = drops[old]]
       ELSE UNCHANGED <<users, drops>>
    /\ UNCHANGED userCount

ChangeUsername(old, new, r) ==
    /\ r \in Faulty(ChangeUsernameResult(old, new))
    /\ IF r = "OK"
       THEN /\ users' = [users EXCEPT ![GetUser(old)].username = new]
            /\ drops' = [drops EXCEPT ![old] = NoDrop, ![new] = drops[old]]
       ELSE UNCHANGED <<users, drops>>
    /\ UNCHANGED userCount

SetPassword(n, p) == users' = [users EXCEPT ![GetUser(n)].password = p]

\* user_manager_change_password: any password will do.  The old one is freed
\* before the new one is allocated: out of memory, the account is left with
\* a null pointer.
ChangePassword(n, p, r) ==
    /\ \/ GetUser(n) = 0 /\ r = "ENOENT" /\ UNCHANGED users
       \/ GetUser(n) # 0 /\ r = "OK" /\ SetPassword(n, p)
       \/ GetUser(n) # 0 /\ MemoryFaults /\ r = "ENOMEM" /\ SetPassword(n, NoPassword)
    /\ UNCHANGED <<userCount, drops>>

----------------------------------------------------------------------------
\* user_manager_get_usernames: the list LISTUSERS prints.
GetUsernames == [i \in DOMAIN users |-> users[i].username]

UniqueNames == IsInjective(GetUsernames)
=============================================================================
