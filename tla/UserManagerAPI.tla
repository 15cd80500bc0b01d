--------------------------- MODULE UserManagerAPI --------------------------
(***************************************************************************)
(* The user manager under every sequence of calls its callers may make:    *)
(* POP3 sessions log in and out, the monitor adds, deletes, renames and    *)
(* changes passwords.  Callers are not assumed to hold what they release:  *)
(* any name may be logged out at any time, as in test-user-manager.c.      *)
(***************************************************************************)
EXTENDS UserManager

CONSTANTS
    InitUsers,    \* lists load_users may have read
    InitDrops,    \* the directories it may find beside them
    MaxUsers,     \* values of monitor_get_max_users()
    RenameTaken   \* whether a caller may rename onto an account that exists

VARIABLE errno    \* what the last call returned

umaVars == <<users, userCount, drops, errno>>

ASSUME MaxUsersAssumption == MaxUsers \subseteq Nat
ASSUME RenameAssumption == RenameTaken \in BOOLEAN
ASSUME InitAssumption ==
    /\ InitUsers \subseteq Seq(User)
    /\ InitDrops \subseteq [Names -> {NoDrop} \cup SUBSET Mails]

\* What a sound users file and its directories look like: every name once,
\* and a maildrop for each.
SoundStart ==
    \A s \in InitUsers, d \in InitDrops :
        /\ \A i, j \in DOMAIN s : s[i].username = s[j].username => i = j
        /\ \A i \in DOMAIN s : d[s[i].username] # NoDrop

Returns == {"OK", "EFBIG", "EINVAL", "EEXIST", "EIO", "ENOENT", "EACCES", "EBUSY", "ENOMEM"}

Init ==
    /\ users \in InitUsers
    /\ userCount = Len(users)
    /\ drops \in InitDrops
    /\ errno = "OK"

Call(r) ==
    \/ \E n \in Names, p \in Passwords \ {NoPassword} :
          \/ \E max \in MaxUsers : CreateUser(n, p, max, r)
          \/ Login(n, p, r)
          \/ ChangePassword(n, p, r)
    \/ \E n \in Names : DeleteUser(n, r) \/ Logout(n, r)
    \/ \E old, new \in Names :
          /\ RenameTaken \/ new = old \/ GetUser(new) = 0
          /\ ChangeUsername(old, new, r)

\* External: a mail transfer agent drops a file into a maildrop.
Deliver(n, m) ==
    /\ DropExists(n)
    /\ drops' = [drops EXCEPT ![n] = @ \cup {m}]
    /\ UNCHANGED <<users, userCount, errno>>

Next ==
    \/ \E r \in Returns : Call(r) /\ errno' = r
    \/ \E n \in Names, m \in Mails : Deliver(n, m)

Spec == Init /\ [][Next]_umaVars

----------------------------------------------------------------------------
TypeOK == UMTypeOK /\ errno \in Returns

\* The counter that MAXUSERS is compared with is the length of the list.
CountIsLength == userCount = Len(users)

\* The name a session or an administrator gives means one account.
NamesUnique == UniqueNames

\* Memory and disk agree: an account always has its directory, whatever
\* calls failed half way.
EveryAccountHasDrop == \A i \in DOMAIN users : DropExists(users[i].username)

\* The list refines the registry of the header, but for two departures that
\* are named: otherwise every call has the outcome promised, and a call that
\* fails leaves nothing behind.  user_manager_change_username returns EIO
\* when rename(2) fails (user-manager.c:410), which the header does not list
\* for it; user_manager_change_password, out of memory, leaves the account
\* without a password (user-manager.c:439-445).
Accounts == [n \in ToSet(GetUsernames) |->
               [password |-> users[GetUser(n)].password,
                loggedIn |-> users[GetUser(n)].locked]]

Registry == INSTANCE AccountRegistry WITH
    accounts <- Accounts,
    Undocumented <- {"EIO"},
    Unset <- IF MemoryFaults THEN {NoPassword} ELSE {}

ImplementsRegistry == Registry!Spec
=============================================================================
