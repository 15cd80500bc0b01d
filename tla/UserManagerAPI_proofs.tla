----------------------- MODULE UserManagerAPI_proofs -----------------------
(***************************************************************************)
(* The user manager under any sequence of calls, for any names, passwords, *)
(* mails and limits: its types, its counter, its names, its directories,   *)
(* and that it implements the registry its header promises.                *)
(*                                                                         *)
(* Two hypotheses say where names are distinct to begin with: SoundStart   *)
(* (the users file names every account once and each has its directory)    *)
(* and ~RenameTaken (no caller renames onto an account that exists;        *)
(* user_manager_change_username does not look).                            *)
(***************************************************************************)
EXTENDS UserManagerAPI, UserManager_proofs, FiniteSetTheorems

\* The types alone need no hypothesis.
UMAInv == UMInv /\ errno \in Returns

\* The types hold at the start.
LEMMA UMAInit == Init => UMAInv
BY InitAssumption DEF Init, UMAInv, UMInv, UMTypeOK, Returns

\* A delivery changes no account.
LEMMA DeliverKeeps ==
    ASSUME UMInv, NEW n \in Names, NEW m \in Mails, Deliver(n, m)
    PROVE  UMInv' /\ UNCHANGED <<users, errno>> /\ (Housed => Housed')
<1>1. drops' = [drops EXCEPT ![n] = @ \cup {m}] /\ UNCHANGED <<users, userCount, errno>>
  BY DEF Deliver
<1>2. drops[n] \in SUBSET Mails
  BY DEF Deliver, DropExists, UMInv, UMTypeOK
<1>3. drops[n] \cup {m} \in SUBSET Mails /\ drops[n] \cup {m} # NoDrop
  BY <1>2, DropAssumption
<1>4. drops' \in [Names -> {NoDrop} \cup SUBSET Mails]
  BY <1>1, <1>3 DEF UMInv, UMTypeOK
<1>5. ASSUME Housed PROVE Housed'
  BY <1>1, <1>3, <1>5 DEF Housed, UMInv, UMTypeOK
<1>. QED BY <1>1, <1>4, <1>5 DEF UMInv, UMTypeOK

\* Every call keeps the types.
LEMMA UMAStep == UMAInv /\ [Next]_umaVars => UMAInv'
<1>. SUFFICES ASSUME UMAInv, [Next]_umaVars PROVE UMAInv'
  OBVIOUS
<1>. USE DEF UMAInv
<1>1. ASSUME NEW r \in Returns, Call(r), errno' = r PROVE UMInv'
  <2>1. ASSUME NEW n \in Names, NEW p \in Passwords, NEW max \in MaxUsers,
               CreateUser(n, p, max, r)
        PROVE  UMInv'
    BY <2>1, CreateUserKeeps
  <2>2. ASSUME NEW n \in Names, NEW p \in Passwords, Login(n, p, r) PROVE UMInv'
    BY <2>2, LoginKeeps
  <2>3. ASSUME NEW n \in Names, NEW p \in Passwords, ChangePassword(n, p, r) PROVE UMInv'
    BY <2>3, ChangePasswordKeeps
  <2>4. ASSUME NEW n \in Names, DeleteUser(n, r) PROVE UMInv'
    BY <2>4, DeleteUserKeeps
  <2>5. ASSUME NEW n \in Names, Logout(n, r) PROVE UMInv'
    BY <2>5, LogoutKeeps
  <2>6. ASSUME NEW old \in Names, NEW new \in Names, ChangeUsername(old, new, r) PROVE UMInv'
    BY <2>6, ChangeUsernameKeeps
  <2>. QED BY <1>1, <2>1, <2>2, <2>3, <2>4, <2>5, <2>6 DEF Call
<1>2. ASSUME NEW n \in Names, NEW m \in Mails, Deliver(n, m) PROVE UMInv' /\ errno' = errno
  BY <1>2, DeliverKeeps
<1>3. CASE UNCHANGED umaVars
  BY <1>3 DEF umaVars, UMInv, UMTypeOK
<1>. QED BY <1>1, <1>2, <1>3 DEF Next

\* Every list, counter, directory and result has its type, whatever is
\* called.
THEOREM UserManagerTypes == Spec => []TypeOK
<1>1. UMAInv => TypeOK
  BY DEF UMAInv, TypeOK, UMInv
<1>. QED BY <1>1, UMAInit, UMAStep, PTL DEF Spec

\* The counter create_user compares with MAXUSERS is the number of accounts,
\* after any calls and whichever of them failed.
THEOREM CounterIsLength == Spec => []CountIsLength
<1>1. UMAInv => CountIsLength
  BY DEF UMAInv, CountIsLength, UMInv
<1>. QED BY <1>1, UMAInit, UMAStep, PTL DEF Spec

----------------------------------------------------------------------------
\* The accounts of the start are sound.
LEMMA SoundInit == SoundStart /\ Init => SoundList
<1>. SUFFICES ASSUME SoundStart, Init PROVE SoundList
  OBVIOUS
<1>1. users \in Seq(User)
  BY InitAssumption DEF Init
<1>2. DOMAIN users = 1..Len(users)
  BY <1>1
<1>. QED BY <1>2 DEF SoundStart, Init, SoundList, Distinct, Housed, NamesOf

\* Every step keeps names distinct and every account housed.
LEMMA SoundStep == ~RenameTaken /\ UMAInv /\ SoundList /\ [Next]_umaVars => SoundList'
<1>. SUFFICES ASSUME ~RenameTaken, UMInv, SoundList, [Next]_umaVars PROVE SoundList'
  BY DEF UMAInv
<1>1. ASSUME NEW r \in Returns, Call(r) PROVE SoundList'
  <2>1. ASSUME NEW n \in Names, NEW p \in Passwords, NEW max \in MaxUsers,
               CreateUser(n, p, max, r)
        PROVE  SoundList'
    BY <2>1, CreateSound
  <2>2. ASSUME NEW n \in Names, NEW p \in Passwords, Login(n, p, r) PROVE SoundList'
    BY <2>2, LoginSound
  <2>3. ASSUME NEW n \in Names, NEW p \in Passwords, ChangePassword(n, p, r) PROVE SoundList'
    BY <2>3, PasswordSound
  <2>4. ASSUME NEW n \in Names, DeleteUser(n, r) PROVE SoundList'
    BY <2>4, DeleteSound
  <2>5. ASSUME NEW n \in Names, Logout(n, r) PROVE SoundList'
    BY <2>5, LogoutSound
  <2>6. ASSUME NEW old \in Names, NEW new \in Names, new = old \/ GetUser(new) = 0,
               ChangeUsername(old, new, r)
        PROVE  SoundList'
    BY <2>6, UsernameSound
  <2>. QED BY <1>1, <2>1, <2>2, <2>3, <2>4, <2>5, <2>6 DEF Call
<1>2. ASSUME NEW n \in Names, NEW m \in Mails, Deliver(n, m) PROVE SoundList'
  BY <1>2, DeliverKeeps DEF SoundList
<1>3. CASE UNCHANGED umaVars
  BY <1>3 DEF umaVars, SoundList, Housed
<1>. QED BY <1>1, <1>2, <1>3 DEF Next

\* From a sound file on, and unless someone renames onto a taken name, no
\* call, failed or not, gives two accounts one name.
THEOREM NamesStayUnique == SoundStart /\ ~RenameTaken => (Spec => []NamesUnique)
<1>. SUFFICES ASSUME SoundStart, ~RenameTaken PROVE Spec => []NamesUnique
  OBVIOUS
<1>1. UMAInv /\ SoundList => NamesUnique
  <2>. SUFFICES ASSUME UMInv, Distinct(users) PROVE NamesUnique
    BY DEF UMAInv, SoundList
  <2>1. users \in Seq(User) /\ DOMAIN users = 1..Len(users)
    BY DEF UMInv, UMTypeOK
  <2>. QED BY <2>1 DEF NamesUnique, UniqueNames, IsInjective, GetUsernames, Distinct
<1>2. Init => SoundList
  BY SoundInit
<1>3. UMAInv /\ SoundList /\ [Next]_umaVars => SoundList'
  BY SoundStep
<1>. QED BY <1>1, <1>2, <1>3, UMAInit, UMAStep, PTL DEF Spec

\* Under the same hypotheses every account keeps a directory: none is left
\* without one by a call that fails half way.
THEOREM AccountsStayHoused == SoundStart /\ ~RenameTaken => (Spec => []EveryAccountHasDrop)
<1>. SUFFICES ASSUME SoundStart, ~RenameTaken PROVE Spec => []EveryAccountHasDrop
  OBVIOUS
<1>1. UMAInv /\ SoundList => EveryAccountHasDrop
  <2>. SUFFICES ASSUME UMInv, Housed PROVE EveryAccountHasDrop
    BY DEF UMAInv, SoundList
  <2>1. users \in Seq(User) /\ DOMAIN users = 1..Len(users)
    BY DEF UMInv, UMTypeOK
  <2>. QED BY <2>1 DEF EveryAccountHasDrop, DropExists, Housed, NamesOf
<1>2. Init => SoundList
  BY SoundInit
<1>3. UMAInv /\ SoundList /\ [Next]_umaVars => SoundList'
  BY SoundStep
<1>. QED BY <1>1, <1>2, <1>3, UMAInit, UMAStep, PTL DEF Spec

----------------------------------------------------------------------------
\* What the list says, as a function of the list.
AccountsOf(s) ==
    [n \in NamesOf(s) |-> [password |-> AccountOf(s, n).password,
                           loggedIn |-> AccountOf(s, n).locked]]

\* The accounts the registry sees are those of the list.
LEMMA AccountsAre == UMInv => Accounts = AccountsOf(users)
<1>. SUFFICES ASSUME users \in Seq(User) PROVE Accounts = AccountsOf(users)
  BY DEF UMInv, UMTypeOK
<1>1. ToSet(GetUsernames) = NamesOf(users)
  <2>1. DOMAIN users = 1..Len(users)
    OBVIOUS
  <2>. QED BY <2>1 DEF ToSet, GetUsernames, NamesOf
<1>. QED BY <1>1, GetUserIsIndex DEF Accounts, AccountsOf, AccountOf

\* The counter counts names.
LEMMA CountNames ==
    ASSUME NEW s \in Seq(User), Distinct(s)
    PROVE  Cardinality(NamesOf(s)) = Len(s)
<1>. DEFINE f == [i \in 1..Len(s) |-> s[i].username]
<1>1. Len(s) \in Nat
  OBVIOUS
<1>2. f \in Bijection(1..Len(s), NamesOf(s))
  BY DEF Bijection, Injection, Surjection, IsInjective, Distinct, NamesOf
<1>3. ExistsBijection(1..Len(s), NamesOf(s))
  BY <1>2 DEF ExistsBijection
<1>. QED BY <1>1, <1>3, FS_CountingElements

\* The same after a step.
LEMMA AccountsAreNext == UMInv' => Accounts' = AccountsOf(users')
<1>1. (UMInv => Accounts = AccountsOf(users))'
  BY AccountsAre, PTL
<1>. QED BY <1>1

\* What the registry sees of the list.
LEMMA Seen ==
    ASSUME UMInv, UMInv'
    PROVE  /\ Accounts = AccountsOf(users) /\ Accounts' = AccountsOf(users')
           /\ DOMAIN Accounts = NamesOf(users)
           /\ \A n : Registry!Exists(n) <=> n \in NamesOf(users)
           /\ \A n : GetUser(n) # 0 <=> n \in NamesOf(users)
           /\ \A n \in NamesOf(users) : /\ users[GetUser(n)] = AccountOf(users, n)
                                        /\ Accounts[n].password = AccountOf(users, n).password
                                        /\ Accounts[n].loggedIn = AccountOf(users, n).locked
                                        /\ Accounts[n] = [password |-> AccountOf(users, n).password,
                                                          loggedIn |-> AccountOf(users, n).locked]
<1>1. Accounts = AccountsOf(users) /\ Accounts' = AccountsOf(users')
  BY AccountsAre, AccountsAreNext
<1>2. DOMAIN Accounts = NamesOf(users)
  BY <1>1 DEF AccountsOf
<1>3. \A n : GetUser(n) # 0 <=> n \in NamesOf(users)
  BY GetUserIsIndex, AccountFound DEF UMInv, UMTypeOK
<1>4. \A n : users[GetUser(n)] = AccountOf(users, n)
  BY GetUserIsIndex DEF AccountOf
<1>. QED BY <1>1, <1>2, <1>3, <1>4 DEF AccountsOf, Registry!Exists

\* Writing one account under its own name is a Put in the registry.
LEMMA PutAccount ==
    ASSUME UMInv, UMInv', NEW n, NEW u, Becomes(n, u), u.username = n
    PROVE  Registry!Put(n, [password |-> u.password, loggedIn |-> u.locked])
<1>. DEFINE account == [password |-> u.password, loggedIn |-> u.locked]
<1>1. /\ NamesOf(users') = NamesOf(users) \cup {n}
      /\ AccountOf(users', n) = u
      /\ \A m \in NamesOf(users) \ {n} : AccountOf(users', m) = AccountOf(users, m)
  BY DEF Becomes, SameBut
<1>2. /\ Accounts = AccountsOf(users) /\ Accounts' = AccountsOf(users')
      /\ DOMAIN Accounts = NamesOf(users)
  BY Seen
<1>3. \A m \in NamesOf(users) \cup {n} :
         AccountsOf(users')[m] = IF m = n THEN account ELSE AccountsOf(users)[m]
  BY <1>1 DEF AccountsOf
<1>4. AccountsOf(users') = [m \in NamesOf(users') |-> AccountsOf(users')[m]]
  BY DEF AccountsOf
<1>. QED BY <1>1, <1>2, <1>3, <1>4 DEF Registry!Put

\* A call that changes nothing is a refusal of the registry.
LEMMA Failing ==
    ASSUME UMInv, UMInv', UNCHANGED umVars, NEW e, errno' = e
    PROVE  Registry!Fails(e)
<1>1. Accounts' = Accounts /\ drops' = drops
  BY Seen DEF umVars
<1>. QED BY <1>1 DEF Registry!Fails

\* The registry counts with the same operator.
LEMMA SameCardinality == \A S : Registry!Cardinality(S) = Cardinality(S)
BY DEF Registry!Cardinality, Cardinality

\* user_manager_create_user is AddUser.
LEMMA CreateUserRefines ==
    ASSUME UMInv, UMInv', SoundList, NEW n \in Names, NEW p \in Passwords, NEW max \in MaxUsers,
           NEW r \in Returns, CreateUser(n, p, max, r), errno' = r
    PROVE  Registry!AddUser(n, p, max)
<1>1. CASE r = "OK"
  <2>. DEFINE u == [username |-> n, password |-> p, locked |-> FALSE]
  <2>1. /\ n \notin NamesOf(users) /\ n \in ValidNames /\ p \in ValidPasswords
        /\ ~(userCount >= max) /\ drops[n] = NoDrop
        /\ Becomes(n, u) /\ drops' = [drops EXCEPT ![n] = {}]
    BY <1>1, CreateUserEffect DEF SoundList
  <2>2. Registry!Put(n, [password |-> p, loggedIn |-> FALSE])
    <3>1. u.username = n /\ u.password = p /\ u.locked = FALSE
      OBVIOUS
    <3>. HIDE DEF u
    <3>. QED BY <2>1, <3>1, PutAccount
  <2>3. Registry!Cardinality(DOMAIN Accounts) < max
    <3>1. Registry!Cardinality(DOMAIN Accounts) = userCount
      BY SameCardinality, CountNames, Seen DEF UMInv, UMTypeOK, SoundList
    <3>2. userCount \in Nat /\ max \in Nat
      BY MaxUsersAssumption DEF UMInv, UMTypeOK
    <3>. QED BY <2>1, <3>1, <3>2
  <2>. QED BY <1>1, <2>1, <2>2, <2>3, Seen DEF Registry!AddUser
<1>2. CASE r # "OK"
  <2>1. Registry!Fails(r)
    BY <1>2, Failing DEF CreateUser
  <2>2. r = CreateUserResult(n, p, max) \/ r = "EIO"
    BY <1>2 DEF CreateUser, Faulty
  <2>3. CASE r = "EIO"
    BY <2>1, <2>3 DEF Registry!AddUser
  <2>4. CASE r = "EFBIG" /\ userCount >= max
    <3>1. Registry!Cardinality(DOMAIN Accounts) = userCount
      BY SameCardinality, CountNames, Seen DEF UMInv, UMTypeOK, SoundList
    <3>. QED BY <2>1, <2>4, <3>1 DEF Registry!AddUser
  <2>5. CASE r = "EINVAL" /\ (n \notin ValidNames \/ p \notin ValidPasswords)
    BY <2>1, <2>5 DEF Registry!AddUser
  <2>6. CASE r = "EEXIST" /\ GetUser(n) # 0
    BY <2>1, <2>6, Seen DEF Registry!AddUser
  <2>. QED BY <1>2, <2>2, <2>3, <2>4, <2>5, <2>6 DEF CreateUserResult
<1>. QED BY <1>1, <1>2

\* user_manager_delete_user is DelUser.
LEMMA DeleteUserRefines ==
    ASSUME UMInv, UMInv', SoundList, NEW n \in Names, NEW r, DeleteUser(n, r), errno' = r
    PROVE  Registry!DelUser(n)
<1>1. CASE r = "OK"
  <2>1. /\ n \in NamesOf(users) /\ ~AccountOf(users, n).locked
        /\ NamesOf(users') = NamesOf(users) \ {n} /\ SameBut({n})
        /\ drops' = [drops EXCEPT ![n] = NoDrop]
    BY <1>1, DeleteUserEffect DEF SoundList
  <2>2. Accounts' = Registry!Restrict(Accounts, DOMAIN Accounts \ {n})
    BY <2>1, Seen DEF Registry!Restrict, AccountsOf, SameBut
  <2>3. Registry!Exists(n) /\ ~Accounts[n].loggedIn
    BY <2>1, Seen
  <2>. QED BY <1>1, <2>1, <2>2, <2>3 DEF Registry!DelUser
<1>2. CASE r # "OK" /\ drops' # drops
  <2>1. /\ UNCHANGED users /\ r = "EIO"
        /\ n \in NamesOf(users) /\ ~AccountOf(users, n).locked /\ drops[n] # NoDrop
        /\ \E left \in SUBSET drops[n] : drops' = [drops EXCEPT ![n] = left]
    BY <1>2, DeleteUserPartly
  <2>2. Accounts' = Accounts /\ Registry!Exists(n) /\ ~Accounts[n].loggedIn
    BY <2>1, Seen
  <2>3. PICK left \in SUBSET drops[n] : drops' = [drops EXCEPT ![n] = left]
    BY <2>1
  <2>4. \E l \in SUBSET (IF drops[n] = NoDrop THEN {} ELSE drops[n]) :
           drops' = [drops EXCEPT ![n] = IF @ = NoDrop THEN NoDrop ELSE l]
    <3>1. left \in SUBSET (IF drops[n] = NoDrop THEN {} ELSE drops[n])
      BY <2>1
    <3>2. drops' = [drops EXCEPT ![n] = IF @ = NoDrop THEN NoDrop ELSE left]
      BY <2>1, <2>3
    <3>. QED BY <3>1, <3>2
  <2>. QED BY <2>1, <2>2, <2>4 DEF Registry!DelUser
<1>3. CASE r # "OK" /\ drops' = drops
  <2>1. UNCHANGED umVars
    BY <1>3, DeleteUserPartly DEF umVars
  <2>2. Registry!Fails(r)
    BY <2>1, Failing
  <2>3. r = DeleteUserResult(n) \/ (r = "EIO" /\ DeleteUserResult(n) = "OK")
    BY <1>3 DEF DeleteUser, Faulty
  <2>4. CASE r = "ENOENT" /\ GetUser(n) = 0
    BY <2>2, <2>4, Seen DEF Registry!DelUser
  <2>5. CASE r = "EBUSY" /\ GetUser(n) # 0 /\ users[GetUser(n)].locked
    BY <2>2, <2>5, Seen DEF Registry!DelUser
  <2>6. CASE r = "EIO" /\ GetUser(n) # 0 /\ ~users[GetUser(n)].locked
    <3>1. Registry!Exists(n) /\ ~Accounts[n].loggedIn /\ Accounts' = Accounts
      BY <2>1, <2>6, Seen DEF umVars
    <3>2. drops' = [drops EXCEPT ![n] = IF @ = NoDrop THEN NoDrop ELSE drops[n]]
      BY <1>3 DEF UMInv, UMTypeOK
    <3>3. \E l \in SUBSET (IF drops[n] = NoDrop THEN {} ELSE drops[n]) :
             drops' = [drops EXCEPT ![n] = IF @ = NoDrop THEN NoDrop ELSE l]
      <4>1. CASE drops[n] = NoDrop
        <5>1. drops' = [drops EXCEPT ![n] = IF @ = NoDrop THEN NoDrop ELSE {}]
          BY <1>3, <4>1 DEF UMInv, UMTypeOK
        <5>. QED BY <4>1, <5>1
      <4>2. CASE drops[n] # NoDrop
        BY <3>2, <4>2
      <4>. QED BY <4>1, <4>2
    <3>. QED BY <2>6, <3>1, <3>3 DEF Registry!DelUser
  <2>. QED BY <1>3, <2>3, <2>4, <2>5, <2>6 DEF DeleteUserResult
<1>. QED BY <1>1, <1>2, <1>3

\* user_manager_login is LogIn.
LEMMA LoginRefines ==
    ASSUME UMInv, UMInv', SoundList, NEW n \in Names, NEW p, NEW r, Login(n, p, r), errno' = r
    PROVE  Registry!LogIn(n, p)
<1>. DEFINE a == AccountOf(users, n)
<1>1. CASE r = "OK"
  <2>. DEFINE u == [a EXCEPT !.locked = TRUE]
  <2>1. /\ GetUser(n) # 0 /\ users[GetUser(n)].password = p /\ ~users[GetUser(n)].locked
        /\ SetLocked(n, TRUE) /\ drops' = drops
    BY <1>1 DEF Login, LoginResult
  <2>2. n \in NamesOf(users) /\ a \in User /\ a.username = n /\ Becomes(n, u)
    BY <2>1, SetLockedAccount DEF SoundList
  <2>3. a.password = p /\ ~a.locked /\ Accounts[n] = [password |-> a.password, loggedIn |-> a.locked]
    BY <2>1, <2>2, Seen
  <2>. HIDE DEF a
  <2>4. u.username = n /\ u.password = p /\ u.locked = TRUE
    BY <2>2, <2>3 DEF User
  <2>. HIDE DEF u
  <2>5. Registry!Put(n, [password |-> p, loggedIn |-> TRUE])
    BY <2>2, <2>4, PutAccount
  <2>6. Accounts[n] = [password |-> p, loggedIn |-> FALSE]
    BY <2>2, <2>3 DEF User
  <2>. QED BY <1>1, <2>1, <2>2, <2>5, <2>6, Seen DEF Registry!LogIn
<1>2. CASE r # "OK"
  <2>1. Registry!Fails(r) /\ r = LoginResult(n, p)
    BY <1>2, Failing DEF Login, umVars
  <2>2. CASE r = "ENOENT" /\ GetUser(n) = 0
    BY <2>1, <2>2, Seen DEF Registry!LogIn
  <2>3. CASE r = "EACCES" /\ GetUser(n) # 0 /\ users[GetUser(n)].password # p
    BY <2>1, <2>3, Seen DEF Registry!LogIn
  <2>4. CASE r = "EBUSY" /\ GetUser(n) # 0 /\ users[GetUser(n)].locked
    BY <2>1, <2>4, Seen DEF Registry!LogIn
  <2>. QED BY <1>2, <2>1, <2>2, <2>3, <2>4 DEF LoginResult
<1>. QED BY <1>1, <1>2

\* A record with its lock opened.
LEMMA UnlockSeen ==
    ASSUME NEW p, NEW l, NEW x, x = [password |-> p, loggedIn |-> l]
    PROVE  [x EXCEPT !.loggedIn = FALSE] = [password |-> p, loggedIn |-> FALSE]
<1>1. \A v : [x EXCEPT !.loggedIn = v] = [password |-> p, loggedIn |-> v]
  OBVIOUS
<1>. QED BY <1>1, Zenon

\* user_manager_logout is LogOut.
LEMMA LogoutRefines ==
    ASSUME UMInv, UMInv', SoundList, NEW n \in Names, NEW r, Logout(n, r), errno' = r
    PROVE  Registry!LogOut(n)
<1>. DEFINE a == AccountOf(users, n)
<1>1. CASE r = "OK"
  <2>. DEFINE u == [a EXCEPT !.locked = FALSE]
  <2>1. GetUser(n) # 0 /\ SetLocked(n, FALSE) /\ drops' = drops
    BY <1>1 DEF Logout, LogoutResult
  <2>2. n \in NamesOf(users) /\ a \in User /\ a.username = n /\ Becomes(n, u)
    BY <2>1, SetLockedAccount DEF SoundList
  <2>3. Accounts[n] = [password |-> a.password, loggedIn |-> a.locked]
    BY <2>2, Seen
  <2>. HIDE DEF a
  <2>4. u.username = n /\ u.password = a.password /\ u.locked = FALSE
    BY <2>2 DEF User
  <2>. HIDE DEF u
  <2>5. Registry!Put(n, [password |-> a.password, loggedIn |-> FALSE])
    BY <2>2, <2>4, PutAccount
  <2>6. [Accounts[n] EXCEPT !.loggedIn = FALSE] = [password |-> a.password, loggedIn |-> FALSE]
    BY <2>3, UnlockSeen
  <2>. QED BY <1>1, <2>1, <2>2, <2>5, <2>6, Seen DEF Registry!LogOut
<1>2. CASE r # "OK"
  <2>1. Registry!Fails(r) /\ r = "ENOENT" /\ GetUser(n) = 0
    BY <1>2, Failing DEF Logout, LogoutResult, umVars
  <2>. QED BY <2>1, Seen DEF Registry!LogOut
<1>. QED BY <1>1, <1>2

\* user_manager_change_password is SetPassword.
LEMMA PasswordRefines ==
    ASSUME UMInv, UMInv', SoundList, NEW n \in Names, NEW p \in Passwords, NEW r,
           ChangePassword(n, p, r), errno' = r
    PROVE  Registry!SetPassword(n, p)
<1>. DEFINE a == AccountOf(users, n)
<1>1. CASE r # "ENOENT"
  <2>. DEFINE q == Given(p, r)
              u == [a EXCEPT !.password = q]
  <2>1. /\ n \in NamesOf(users) /\ a \in User /\ a.username = n /\ Becomes(n, u)
        /\ drops' = drops
    BY <1>1, ChangePasswordEffect DEF SoundList
  <2>2. Accounts[n] = [password |-> a.password, loggedIn |-> a.locked]
    BY <2>1, Seen
  <2>. HIDE DEF a, q
  <2>3. u.username = n /\ u.password = q /\ u.locked = a.locked
    BY <2>1 DEF User
  <2>. HIDE DEF u
  <2>4. Registry!Put(n, [password |-> q, loggedIn |-> a.locked])
    BY <2>1, <2>3, PutAccount
  <2>5. [Accounts[n] EXCEPT !.password = q] = [password |-> q, loggedIn |-> a.locked]
    BY <2>2
  <2>6. Registry!Exists(n) /\ Registry!Put(n, [Accounts[n] EXCEPT !.password = q])
    BY <2>1, <2>4, <2>5, Seen
  <2>7. CASE r = "OK"
    BY <2>1, <2>6, <2>7 DEF Registry!SetPassword, q, Given
  <2>8. CASE r = "ENOMEM" /\ MemoryFaults
    <3>1. q = NoPassword
      BY <2>8 DEF q, Given
    <3>. QED BY <2>1, <2>6, <2>8, <3>1 DEF Registry!SetPassword
  <2>. QED BY <1>1, <2>7, <2>8 DEF ChangePassword
<1>2. CASE r = "ENOENT"
  <2>1. Registry!Fails(r) /\ GetUser(n) = 0
    BY <1>2, Failing DEF ChangePassword, umVars
  <2>. QED BY <1>2, <2>1, Seen DEF Registry!SetPassword
<1>. QED BY <1>1, <1>2

\* user_manager_change_username is Rename, as long as it takes no name in use.
LEMMA UsernameRefines ==
    ASSUME UMInv, UMInv', SoundList, NEW old \in Names, NEW new \in Names, NEW r,
           new = old \/ GetUser(new) = 0, ChangeUsername(old, new, r), errno' = r
    PROVE  Registry!Rename(old, new)
<1>. DEFINE a == AccountOf(users, old)
<1>1. CASE r = "OK"
  <2>. DEFINE u == [a EXCEPT !.username = new]
              seen == [n \in (DOMAIN Accounts \ {old}) \cup {new} |->
                          Accounts[IF n = new THEN old ELSE n]]
  <2>1. /\ old \in NamesOf(users) /\ (new \in NamesOf(users) => new = old)
        /\ a \in User /\ Becomes(old, u)
        /\ drops' = [drops EXCEPT ![old] = NoDrop, ![new] = drops[old]]
    BY <1>1, ChangeUsernameEffect DEF SoundList
  <2>2. Accounts[old] = [password |-> a.password, loggedIn |-> a.locked]
    BY <2>1, Seen
  <2>3. u.username = new /\ u.password = a.password /\ u.locked = a.locked
    BY <2>1 DEF User
  <2>. HIDE DEF u, a
  <2>4. /\ NamesOf(users') = (NamesOf(users) \ {old}) \cup {new}
        /\ AccountOf(users', new) = u
        /\ \A n \in NamesOf(users) \ {old, new} : AccountOf(users', n) = AccountOf(users, n)
    BY <2>1, <2>3 DEF Becomes, SameBut
  <2>5. \A n \in NamesOf(users') : AccountsOf(users')[n] = seen[n]
    BY <2>2, <2>3, <2>4, Seen DEF AccountsOf
  <2>6. Accounts' = seen
    BY <2>4, <2>5, Seen DEF AccountsOf
  <2>. QED BY <1>1, <2>1, <2>6, Seen DEF Registry!Rename
<1>2. CASE r # "OK"
  <2>1. Registry!Fails(r)
    BY <1>2, Failing DEF ChangeUsername, umVars
  <2>2. \/ r = "ENOENT" /\ GetUser(old) = 0
        \/ r = "EIO" /\ GetUser(old) # 0
    BY <1>2 DEF ChangeUsername, ChangeUsernameResult, Faulty
  <2>. QED BY <2>1, <2>2, Seen DEF Registry!Rename
<1>. QED BY <1>1, <1>2

\* A delivery is one.
LEMMA DeliverRefines ==
    ASSUME UMInv, NEW n \in Names, NEW m \in Mails, Deliver(n, m)
    PROVE  Registry!Deliver(n, m)
<1>1. UMInv' /\ UNCHANGED <<users, errno>>
  BY DeliverKeeps
<1>2. Accounts' = Accounts
  BY <1>1, Seen
<1>. QED BY <1>1, <1>2 DEF Deliver, DropExists, Registry!Deliver

\* The start of the one is a start of the other.
LEMMA RefinesInit == UMAInv /\ SoundList /\ Init => Registry!Init
<1>. SUFFICES ASSUME UMInv, Init PROVE Registry!Init
  BY DEF UMAInv
<1>1. users \in Seq(User) /\ Accounts = AccountsOf(users) /\ NamesOf(users) \in SUBSET Names
  BY AccountsAre, NamesAreNames DEF UMInv, UMTypeOK
<1>2. \A n \in NamesOf(users) : AccountOf(users, n) \in User
  BY <1>1, AccountFound
<1>3. Accounts \in [NamesOf(users) -> Registry!Account]
  BY <1>1, <1>2 DEF AccountsOf, User, Registry!Account
<1>. QED BY <1>1, <1>3, InitAssumption DEF Init, Registry!Init

\* Every step of the one is a step of the other, or none.
LEMMA RefinesStep ==
    ASSUME ~RenameTaken, UMAInv, SoundList, UMAInv', [Next]_umaVars
    PROVE  [Registry!Next]_Registry!arVars
<1>. USE DEF UMAInv
<1>1. ASSUME NEW r \in Returns, Call(r), errno' = r PROVE Registry!Next
  <2>1. ASSUME NEW n \in Names, NEW p \in Passwords, NEW max \in MaxUsers,
               CreateUser(n, p, max, r)
        PROVE  Registry!Next
    BY <1>1, <2>1, CreateUserRefines DEF Registry!Next
  <2>2. ASSUME NEW n \in Names, NEW p \in Passwords, Login(n, p, r) PROVE Registry!Next
    BY <1>1, <2>2, LoginRefines DEF Registry!Next
  <2>3. ASSUME NEW n \in Names, NEW p \in Passwords, ChangePassword(n, p, r) PROVE Registry!Next
    BY <1>1, <2>3, PasswordRefines DEF Registry!Next
  <2>4. ASSUME NEW n \in Names, DeleteUser(n, r) PROVE Registry!Next
    BY <1>1, <2>4, DeleteUserRefines DEF Registry!Next
  <2>5. ASSUME NEW n \in Names, Logout(n, r) PROVE Registry!Next
    BY <1>1, <2>5, LogoutRefines DEF Registry!Next
  <2>6. ASSUME NEW old \in Names, NEW new \in Names, new = old \/ GetUser(new) = 0,
               ChangeUsername(old, new, r)
        PROVE  Registry!Next
    BY <1>1, <2>6, UsernameRefines DEF Registry!Next
  <2>. QED BY <1>1, <2>1, <2>2, <2>3, <2>4, <2>5, <2>6 DEF Call
<1>2. ASSUME NEW n \in Names, NEW m \in Mails, Deliver(n, m) PROVE Registry!Next
  BY <1>2, DeliverRefines DEF Registry!Next
<1>3. CASE UNCHANGED umaVars
  <2>1. Accounts' = Accounts
    BY <1>3, Seen DEF umaVars
  <2>. QED BY <1>3, <2>1 DEF umaVars, Registry!arVars
<1>. QED BY <1>1, <1>2, <1>3 DEF Next

\* From a sound file on, and unless someone renames onto a taken name, every
\* call has one of the outcomes the header promises for it, and a call that
\* fails leaves nothing behind, but for the EIO of a change of username and
\* the password lost by a change of password out of memory.
THEOREM RefinesRegistry == SoundStart /\ ~RenameTaken => (Spec => ImplementsRegistry)
<1>. SUFFICES ASSUME SoundStart, ~RenameTaken PROVE Spec => Registry!Spec
  BY DEF ImplementsRegistry
<1>1. Init => SoundList
  BY SoundInit
<1>2. UMAInv /\ SoundList /\ [Next]_umaVars => SoundList'
  BY SoundStep
<1>3. UMAInv /\ SoundList /\ UMAInv' /\ [Next]_umaVars => [Registry!Next]_Registry!arVars
  BY RefinesStep
<1>. QED BY <1>1, <1>2, <1>3, UMAInit, UMAStep, RefinesInit, PTL DEF Spec, Registry!Spec
=============================================================================
