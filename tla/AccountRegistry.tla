-------------------------- MODULE AccountRegistry --------------------------
(***************************************************************************)
(* What server/include/user-manager.h promises its callers, without the    *)
(* list: a partial function from usernames to accounts, each with a        *)
(* maildrop of its own.  A call either does all of its work and returns    *)
(* "OK", or returns one of the errors the header lists for it (in no       *)
(* particular order) and changes nothing; only a deletion that fails on    *)
(* the disk may have removed mails.                                        *)
(*                                                                         *)
(* The header lists EINVAL, ENOENT and ENOMEM for a change of username     *)
(* (lines 129-132), and says of no failed call that it changes an account. *)
(* With Undocumented and Unset empty this is the registry of the header;   *)
(* whoever instantiates it with anything else says where the code departs. *)
(***************************************************************************)
EXTENDS FiniteSets, Naturals, Functions

CONSTANTS
    Names, Passwords, ValidNames, ValidPasswords, Mails, NoDrop, MaxUsers,
    Undocumented,  \* errors of a change of username that the header does not list
    Unset          \* passwords an account may be left with out of memory

VARIABLES
    accounts,   \* [some Names -> [password, loggedIn]]
    drops,      \* [Names -> maildrop]
    errno       \* what the last call returned

arVars == <<accounts, drops, errno>>

Account == [password : Passwords, loggedIn : BOOLEAN]
Exists(n) == n \in DOMAIN accounts
Put(n, account) ==
    accounts' = [m \in DOMAIN accounts \cup {n} |-> IF m = n THEN account ELSE accounts[m]]

Fails(e) == errno' = e /\ UNCHANGED <<accounts, drops>>

AddUser(n, p, max) ==
    \/ /\ ~Exists(n) /\ n \in ValidNames /\ p \in ValidPasswords
       /\ Cardinality(DOMAIN accounts) < max
       /\ drops[n] = NoDrop
       /\ Put(n, [password |-> p, loggedIn |-> FALSE])
       /\ drops' = [drops EXCEPT ![n] = {}]
       /\ errno' = "OK"
    \/ Exists(n) /\ Fails("EEXIST")
    \/ (n \notin ValidNames \/ p \notin ValidPasswords) /\ Fails("EINVAL")
    \/ Cardinality(DOMAIN accounts) >= max /\ Fails("EFBIG")
    \/ Fails("EIO")
    \/ Fails("ENOMEM")

DelUser(n) ==
    \/ /\ Exists(n) /\ ~accounts[n].loggedIn
       /\ accounts' = Restrict(accounts, DOMAIN accounts \ {n})
       /\ drops' = [drops EXCEPT ![n] = NoDrop]
       /\ errno' = "OK"
    \/ /\ Exists(n) /\ ~accounts[n].loggedIn
       /\ \E left \in SUBSET (IF drops[n] = NoDrop THEN {} ELSE drops[n]) :
             drops' = [drops EXCEPT ![n] = IF @ = NoDrop THEN NoDrop ELSE left]
       /\ errno' = "EIO"
       /\ UNCHANGED accounts
    \/ Exists(n) /\ accounts[n].loggedIn /\ Fails("EBUSY")
    \/ ~Exists(n) /\ Fails("ENOENT")

LogIn(n, p) ==
    \/ /\ Exists(n) /\ accounts[n] = [password |-> p, loggedIn |-> FALSE]
       /\ Put(n, [password |-> p, loggedIn |-> TRUE])
       /\ errno' = "OK"
       /\ UNCHANGED drops
    \/ Exists(n) /\ accounts[n].loggedIn /\ Fails("EBUSY")
    \/ Exists(n) /\ accounts[n].password # p /\ Fails("EACCES")
    \/ ~Exists(n) /\ Fails("ENOENT")

LogOut(n) ==
    \/ /\ Exists(n)
       /\ Put(n, [accounts[n] EXCEPT !.loggedIn = FALSE])
       /\ errno' = "OK"
       /\ UNCHANGED drops
    \/ ~Exists(n) /\ Fails("ENOENT")

\* The account keeps its password, its lock and its mails under a name
\* that was free.
Rename(old, new) ==
    \/ /\ Exists(old) /\ (Exists(new) => new = old)
       /\ accounts' = [n \in (DOMAIN accounts \ {old}) \cup {new} |->
                          accounts[IF n = new THEN old ELSE n]]
       /\ drops' = [drops EXCEPT ![old] = NoDrop, ![new] = drops[old]]
       /\ errno' = "OK"
    \/ Fails("ENOMEM")
    \/ ~Exists(old) /\ Fails("ENOENT")
    \/ Exists(old) /\ \E e \in Undocumented : Fails(e)

SetPassword(n, p) ==
    \/ /\ Exists(n)
       /\ Put(n, [accounts[n] EXCEPT !.password = p])
       /\ errno' = "OK"
       /\ UNCHANGED drops
    \/ Fails("ENOMEM")
    \/ /\ Exists(n)
       /\ \E q \in Unset : Put(n, [accounts[n] EXCEPT !.password = q])
       /\ errno' = "ENOMEM"
       /\ UNCHANGED drops
    \/ ~Exists(n) /\ Fails("ENOENT")

\* Mail arrives in any maildrop that exists, from outside.
Deliver(n, m) ==
    /\ drops[n] # NoDrop
    /\ drops' = [drops EXCEPT ![n] = @ \cup {m}]
    /\ UNCHANGED <<accounts, errno>>

Init ==
    /\ accounts \in UNION {[S -> Account] : S \in SUBSET Names}
    /\ drops \in [Names -> {NoDrop} \cup SUBSET Mails]
    /\ errno = "OK"

Next ==
    \/ \E n \in Names, p \in Passwords :
          \/ \E max \in MaxUsers : AddUser(n, p, max)
          \/ LogIn(n, p)
          \/ SetPassword(n, p)
    \/ \E n \in Names : DelUser(n) \/ LogOut(n)
    \/ \E old, new \in Names : Rename(old, new)
    \/ \E n \in Names, m \in Mails : Deliver(n, m)

Spec == Init /\ [][Next]_arVars
=============================================================================
