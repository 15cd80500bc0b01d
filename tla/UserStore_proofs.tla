------------------------- MODULE UserStore_proofs --------------------------
(***************************************************************************)
(* The accounts through starts, stops and kills, for any names, passwords, *)
(* users files and limits: what a start reads is what the last complete    *)
(* save wrote, the limit holds for what is read as for what is created,    *)
(* and the maildrop directories are those of the accounts.                 *)
(***************************************************************************)
EXTENDS UserStore, UserManager_proofs

\* A file that is not there counts as one without lines.
LinesOf(f) == IF f = NoFile THEN <<>> ELSE f

\* Types, and: a process that is not up has no accounts in memory.
StoreTyped ==
    /\ UMInv
    /\ file = NoFile \/ file \in Seq(Line)
    /\ process \in {"up", "down", "failed"} /\ (process # "up" => users = <<>>)
    /\ limit \in Nat /\ saved \in Seq(Line) /\ damage \in {"none", "killed", "torn"}

----------------------------------------------------------------------------
(* What is written and read. *)

\* parse_line gives a name and a password for every line of save_users.
LEMMA ParseLineTyped ==
    ASSUME NEW line \in Line
    PROVE  ParseLine(line) \in Line
<1>1. line.username \in Names /\ line.password \in Passwords
  BY DEF Line
<1>2. CASE line.username \in Delimited
  BY <1>1, <1>2, DelimitedAssumption DEF ParseLine, Line
<1>3. CASE line.username \notin Delimited
  <2>. DEFINE p == IF line.password \in Delimited THEN BeforeColon[line.password]
                                                  ELSE line.password
  <2>1. p \in Passwords
    BY <1>1, DelimitedAssumption
  <2>2. ParseLine(line) = [line EXCEPT !.password = p]
    BY <1>3 DEF ParseLine
  <2>. HIDE DEF p
  <2>. QED BY <2>1, <2>2 DEF Line
<1>. QED BY <1>2, <1>3

\* What load_users makes of each line.
LEMMA LoadedIs ==
    ASSUME NEW lines \in Seq(Line)
    PROVE  /\ Loaded(lines) \in Seq(User) /\ Len(Loaded(lines)) = Len(lines)
           /\ \A i \in 1..Len(lines) :
                 /\ Loaded(lines)[i].username = ParseLine(lines[i]).username
                 /\ Loaded(lines)[i].password = ParseLine(lines[i]).password
<1>. DEFINE node(i) == [username |-> ParseLine(lines[i]).username,
                        password |-> ParseLine(lines[i]).password, locked |-> FALSE]
            t == [i \in 1..Len(lines) |-> node(i)]
<1>1. \A i \in 1..Len(lines) : ParseLine(lines[i]) \in Line
  BY ParseLineTyped
<1>2. \A i \in 1..Len(lines) : node(i) \in User
  BY <1>1 DEF Line, User
<1>3. Loaded(lines) = t
  BY DEF Loaded
<1>4. \A i \in 1..Len(lines) : /\ node(i).username = ParseLine(lines[i]).username
                               /\ node(i).password = ParseLine(lines[i]).password
  OBVIOUS
<1>. HIDE DEF node
<1>5. t \in Seq(User) /\ Len(t) = Len(lines) /\ \A i \in 1..Len(lines) : t[i] = node(i)
  BY <1>2
<1>. QED BY <1>3, <1>4, <1>5

\* What save_users writes of each account.
LEMMA AccountsAre ==
    ASSUME users \in Seq(User)
    PROVE  /\ Accounts \in Seq(Line) /\ Len(Accounts) = Len(users)
           /\ \A i \in 1..Len(users) : /\ Accounts[i].username = users[i].username
                                       /\ Accounts[i].password = users[i].password
<1>. DEFINE line(i) == [username |-> users[i].username, password |-> users[i].password]
            t == [i \in 1..Len(users) |-> line(i)]
<1>1. \A i \in 1..Len(users) : users[i] \in User
  OBVIOUS
<1>2. \A i \in 1..Len(users) : line(i) \in Line
  BY <1>1 DEF Line, User
<1>3. Accounts = t
  BY DEF Accounts
<1>4. \A i \in 1..Len(users) : /\ line(i).username = users[i].username
                               /\ line(i).password = users[i].password
  OBVIOUS
<1>. HIDE DEF line
<1>5. t \in Seq(Line) /\ Len(t) = Len(users) /\ \A i \in 1..Len(users) : t[i] = line(i)
  BY <1>2
<1>. QED BY <1>3, <1>4, <1>5

\* Lines that are read back as they were written come back as they were.
LEMMA ReadBack ==
    ASSUME NEW lines \in Seq(Line), \A i \in DOMAIN lines : Plain(lines[i]),
           users' = Loaded(lines)
    PROVE  Accounts' = lines
<1>1. \A i \in 1..Len(lines) : ParseLine(lines[i]) = lines[i]
  BY DEF Plain
<1>2. /\ users' \in Seq(User) /\ Len(users') = Len(lines)
      /\ \A i \in 1..Len(lines) : /\ users'[i].username = lines[i].username
                                  /\ users'[i].password = lines[i].password
  BY <1>1, LoadedIs
<1>3. (users \in Seq(User)
        => /\ Accounts \in Seq(Line) /\ Len(Accounts) = Len(users)
           /\ \A i \in 1..Len(users) : /\ Accounts[i].username = users[i].username
                                       /\ Accounts[i].password = users[i].password)'
  BY AccountsAre, PTL
<1>. DEFINE a == Accounts'
<1>4. /\ a \in Seq(Line) /\ Len(a) = Len(lines)
      /\ \A i \in 1..Len(lines) : /\ a[i].username = lines[i].username
                                  /\ a[i].password = lines[i].password
  BY <1>2, <1>3
<1>. HIDE DEF a
<1>5. \A i \in 1..Len(lines) : a[i] \in Line /\ lines[i] \in Line
  BY <1>4
<1>6. \A i \in 1..Len(lines) : a[i] = lines[i]
  BY <1>4, <1>5 DEF Line
<1>. QED BY <1>4, <1>6 DEF a

----------------------------------------------------------------------------
(* The calls of a running server. *)

\* No call changes the file; the list and its counter stay sound.
LEMMA CommandKeeps ==
    ASSUME UMInv, Command
    PROVE  UMInv' /\ UNCHANGED <<file, process, limit, saved, damage>>
<1>1. ASSUME NEW n \in Names, NEW p \in Passwords, NEW r, CreateUser(n, p, limit, r) PROVE UMInv'
  BY <1>1, CreateUserKeeps
<1>2. ASSUME NEW n \in Names, NEW r, DeleteUser(n, r) PROVE UMInv'
  BY <1>2, DeleteUserKeeps
<1>3. ASSUME NEW n \in Names, NEW p \in Passwords, NEW r, ChangePassword(n, p, r) PROVE UMInv'
  BY <1>3, ChangePasswordKeeps
<1>4. ASSUME NEW old \in Names, NEW new \in Names, NEW r, ChangeUsername(old, new, r) PROVE UMInv'
  BY <1>4, ChangeUsernameKeeps
<1>. QED BY <1>1, <1>2, <1>3, <1>4 DEF Command

\* Only a creation makes the list longer, and it looks at the limit.
LEMMA CommandRespectsLimit ==
    ASSUME UMInv, limit \in Nat, Command, Len(users') > Len(users)
    PROVE  Len(users') <= limit
<1>1. UMInv'
  BY CommandKeeps
<1>2. /\ users \in Seq(User) /\ userCount = Len(users)
      /\ users' \in Seq(User) /\ userCount' = Len(users')
  BY <1>1 DEF UMInv, UMTypeOK
<1>3. userCount \in Nat /\ userCount' \in Nat /\ userCount' > userCount
  BY <1>2
<1>4. PICK n \in Names, p \in Passwords, r \in {"OK", "EFBIG", "EINVAL", "EEXIST", "EIO"} :
         CreateUser(n, p, limit, r)
  BY <1>3 DEF Command, DeleteUser, ChangePassword, ChangeUsername, umVars
<1>5. r = "OK" /\ userCount' = userCount + 1
  BY <1>3, <1>4 DEF CreateUser, umVars
<1>6. ~(userCount >= limit)
  BY <1>4, <1>5 DEF CreateUser, Faulty, CreateUserResult
<1>. QED BY <1>2, <1>3, <1>5, <1>6

----------------------------------------------------------------------------
(* Types. *)

\* The types hold at the start.
LEMMA StoreInit == Init => StoreTyped
<1>. SUFFICES ASSUME Init PROVE StoreTyped
  OBVIOUS
<1>1. file = NoFile \/ file \in Seq(Line)
  BY FilesAssumption DEF Init
<1>2. saved \in Seq(Line)
  BY <1>1 DEF Init
<1>3. drops \in [Names -> {NoDrop} \cup SUBSET Mails]
  BY DEF Init
<1>4. users = <<>> /\ userCount = 0 /\ limit \in Nat
  BY StoreAssumption DEF Init
<1>5. users \in Seq(User) /\ Len(users) = 0
  BY <1>4
<1>6. process = "down" /\ damage = "none"
  BY DEF Init
<1>. QED BY <1>1, <1>2, <1>3, <1>4, <1>5, <1>6 DEF StoreTyped, UMInv, UMTypeOK

\* A start reads a list, or none, or fails and leaves memory as it was.
LEMMA StartReads ==
    ASSUME StoreTyped, Start
    PROVE  /\ UNCHANGED <<drops, file, saved>> /\ limit' = StartMaxUsers
           /\ users' \in Seq(User) /\ userCount' = Len(users')
           /\ \/ process' = "failed" /\ users' = <<>> /\ damage' = damage
              \/ /\ process' = "up"
                 /\ \/ file = NoFile /\ users' = <<>> /\ damage' = damage
                    \/ /\ file \in Seq(Line) /\ file # NoFile /\ Loadable(file)
                       /\ users' = Loaded(file)
                       /\ damage' = IF \A i \in DOMAIN file : Plain(file[i])
                                    THEN damage ELSE "torn"
<1>. USE DEF StoreTyped, UMInv, UMTypeOK
<1>1. CASE file = NoFile
  BY <1>1 DEF Start
<1>2. CASE file # NoFile /\ Loadable(file)
  BY <1>2, LoadedIs DEF Start
<1>3. CASE file # NoFile /\ ~Loadable(file)
  BY <1>3 DEF Start
<1>. QED BY <1>1, <1>2, <1>3

\* A start keeps them, whatever is in the file.
LEMMA StartKeeps ==
    ASSUME StoreTyped, Start
    PROVE  StoreTyped'
<1>1. users' \in Seq(User) /\ userCount' = Len(users') /\ UNCHANGED <<drops, file, saved>>
  BY StartReads
<1>2. /\ process' \in {"up", "failed"} /\ (process' # "up" => users' = <<>>)
      /\ limit' = StartMaxUsers
  BY StartReads
<1>3. damage' \in {damage, "torn"}
  BY StartReads
<1>4. Len(users') \in Nat
  BY <1>1
<1>. QED BY <1>1, <1>2, <1>3, <1>4, StoreAssumption DEF StoreTyped, UMInv, UMTypeOK

\* However a process ends, its list is gone; a part of it may be in the file.
LEMMA EndKeeps ==
    ASSUME StoreTyped, Stop \/ Kill
    PROVE  StoreTyped' /\ process' = "down" /\ users' = <<>> /\ UNCHANGED <<drops, limit>>
<1>. USE DEF StoreTyped, UMInv, UMTypeOK
<1>1. Ends
  BY DEF Stop, Kill, EndsUnsaved
<1>2. process' = "down" /\ users' = <<>> /\ userCount' = 0 /\ UNCHANGED <<drops, limit>>
  BY <1>1 DEF Ends
<1>3. users' \in Seq(User) /\ Len(users') = 0
  BY <1>2
<1>4. Accounts \in Seq(Line) /\ Len(Accounts) = Len(users)
  BY AccountsAre
<1>. DEFINE a == Accounts
<1>5. \A n \in 0..(Len(users) - 1) : SubSeq(a, 1, n) \in Seq(Line)
  <2>. HIDE DEF a
  <2>. SUFFICES ASSUME NEW n \in 0..(Len(users) - 1) PROVE SubSeq(a, 1, n) \in Seq(Line)
    OBVIOUS
  <2>1. a \in Seq(Line) /\ Len(a) = Len(users)
    BY <1>4 DEF a
  <2>. QED BY <2>1
<1>6. /\ file' = NoFile \/ file' \in Seq(Line)
      /\ saved' \in Seq(Line) /\ damage' \in {"none", "killed", "torn"}
  BY <1>4, <1>5 DEF Stop, Kill, EndsUnsaved
<1>. QED BY <1>2, <1>3, <1>6

\* Every step keeps them.
LEMMA StoreStep == StoreTyped /\ [Next]_storeVars => StoreTyped'
<1>. SUFFICES ASSUME StoreTyped, [Next]_storeVars PROVE StoreTyped'
  OBVIOUS
<1>1. CASE Start
  BY <1>1, StartKeeps
<1>2. CASE Stop \/ Kill
  BY <1>2, EndKeeps
<1>3. CASE Command
  <2>1. UMInv' /\ process = "up" /\ UNCHANGED <<file, process, limit, saved, damage>>
    BY <1>3, CommandKeeps DEF StoreTyped, Command
  <2>. QED BY <2>1 DEF StoreTyped
<1>4. ASSUME NEW k \in Limits, SetLimit(k) PROVE StoreTyped'
  <2>1. k \in Nat
    BY StoreAssumption
  <2>. QED BY <1>4, <2>1 DEF SetLimit, umVars, StoreTyped, UMInv, UMTypeOK
<1>5. CASE UNCHANGED storeVars
  BY <1>5 DEF storeVars, umVars, StoreTyped, UMInv, UMTypeOK
<1>. QED BY <1>1, <1>2, <1>3, <1>4, <1>5 DEF Next

\* Accounts, file and limit have their types through every start and end,
\* torn files and failing starts included.
THEOREM StoreTypes == Spec => []TypeOK
<1>1. StoreTyped => TypeOK
  BY DEF StoreTyped, TypeOK, UMInv
<1>. QED BY <1>1, StoreInit, StoreStep, PTL DEF Spec

\* No account comes in above the limit, neither from the file nor by a call:
\* the counter create_user looks at is the length of the list, and load_users
\* stops at MAX_USERS.
THEOREM LimitRespected == Spec => UserLimitRespected
<1>1. ASSUME StoreTyped, [Next]_storeVars
      PROVE  [Len(users') > Len(users) => Len(users') <= limit']_storeVars
  <2>. SUFFICES ASSUME Next, Len(users') > Len(users) PROVE Len(users') <= limit'
    BY <1>1
  <2>. USE DEF StoreTyped, UMInv, UMTypeOK
  <2>1. CASE Start
    <3>1. users' = <<>> \/ (file \in Seq(Line) /\ Loadable(file) /\ users' = Loaded(file))
      BY <1>1, <2>1, StartReads
    <3>2. limit' = StartMaxUsers
      BY <2>1 DEF Start
    <3>3. CASE users' = <<>>
      BY <3>2, <3>3, StoreAssumption
    <3>4. CASE file \in Seq(Line) /\ Loadable(file) /\ users' = Loaded(file)
      BY <3>2, <3>4, LoadedIs DEF Loadable
    <3>. QED BY <3>1, <3>3, <3>4
  <2>2. CASE Stop \/ Kill
    <3>1. users' = <<>> /\ users \in Seq(User)
      BY <1>1, <2>2, EndKeeps
    <3>2. Len(users') = 0 /\ Len(users) \in Nat
      BY <3>1
    <3>. QED BY <3>2
  <2>3. CASE Command
    <3>1. limit' = limit /\ limit \in Nat /\ UMInv
      BY <1>1, <2>3 DEF Command
    <3>. QED BY <2>3, <3>1, CommandRespectsLimit
  <2>4. CASE \E k \in Limits : SetLimit(k)
    BY <1>1, <2>4 DEF SetLimit, umVars
  <2>. QED BY <2>1, <2>2, <2>3, <2>4 DEF Next
<1>. QED BY <1>1, StoreInit, StoreStep, PTL DEF Spec, UserLimitRespected

----------------------------------------------------------------------------
(* The file. *)

\* Unless a save was cut short, the file is what the last save wrote.
Stored == damage # "torn" => saved = LinesOf(file)

\* At the start nothing has been saved.
LEMMA StoredInit == Init => Stored
BY DEF Init, Stored, LinesOf

\* What was saved is what the file has, until the next save.
LEMMA StoredStep == StoreTyped /\ Stored /\ [Next]_storeVars => Stored'
<1>. SUFFICES ASSUME StoreTyped, Stored, [Next]_storeVars PROVE Stored'
  OBVIOUS
<1>1. CASE Start
  <2>1. UNCHANGED <<file, saved>> /\ damage' \in {damage, "torn"}
    BY <1>1, StartReads
  <2>. QED BY <2>1 DEF Stored, LinesOf
<1>2. CASE Stop
  <2>1. \/ damage' = "torn" \/ (file' = Accounts /\ saved' = Accounts)
        \/ UNCHANGED <<file, saved>> /\ (damage = "torn" => damage' = "torn")
    BY <1>2 DEF Stop, EndsUnsaved
  <2>2. Accounts \in Seq(Line)
    BY AccountsAre DEF StoreTyped, UMInv, UMTypeOK
  <2>3. Accounts # NoFile
    BY <2>2, FilesAssumption
  <2>. QED BY <2>1, <2>3 DEF Stored, LinesOf
<1>3. CASE Kill
  BY <1>3 DEF Kill, EndsUnsaved, Stored, LinesOf
<1>4. CASE Command
  BY <1>4 DEF Command, Stored, LinesOf
<1>5. CASE \E k \in Limits : SetLimit(k)
  BY <1>5 DEF SetLimit, Stored, LinesOf
<1>6. CASE UNCHANGED storeVars
  BY <1>6 DEF storeVars, Stored, LinesOf
<1>. QED BY <1>1, <1>2, <1>3, <1>4, <1>5, <1>6 DEF Next

\* A kill, and any number of starts, cost what happened since the last save
\* and nothing else: a start gives back every account that save was for.
THEOREM SavedAccountsRestored == Spec => Restored
<1>1. ASSUME StoreTyped, Stored, Start, damage # "torn", Loadable(saved),
             \A i \in DOMAIN saved : Plain(saved[i])
      PROVE  process' = "up" /\ Accounts' = saved
  <2>1. saved = LinesOf(file) /\ saved # <<>>
    BY <1>1 DEF Stored, Loadable
  <2>2. file # NoFile /\ file = saved
    BY <2>1 DEF LinesOf
  <2>3. file \in Seq(Line)
    BY <1>1, <2>2 DEF StoreTyped
  <2>4. process' = "up" /\ users' = Loaded(file)
    BY <1>1, <2>2 DEF Start
  <2>. QED BY <1>1, <2>2, <2>3, <2>4, ReadBack
<1>2. StoreTyped /\ Stored => RestoresSaved
  BY <1>1 DEF RestoresSaved
<1>. QED BY <1>2, StoreInit, StoreStep, StoredInit, StoredStep, PTL DEF Spec, Restored

----------------------------------------------------------------------------
(* The directories. *)

\* A list of nodes, or of lines, names every account once, and its names
\* are those that have a directory.
Owned(s) == Distinct(s) /\ \A n \in Names : drops[n] # NoDrop <=> n \in NamesOf(s)

Matched == damage = "none" => IF process = "up" THEN Owned(users) ELSE Owned(LinesOf(file))

\* Two lists with the same names.
LEMMA SameNames ==
    ASSUME NEW s, NEW t, Len(t) = Len(s), \A i \in 1..Len(s) : t[i].username = s[i].username
    PROVE  NamesOf(t) = NamesOf(s) /\ (Distinct(s) => Distinct(t))
<1>1. NamesOf(t) = NamesOf(s)
  BY DEF NamesOf
<1>2. Distinct(s) => Distinct(t)
  BY DEF Distinct
<1>. QED BY <1>1, <1>2

\* user_manager_create_user gives an account a maildrop.
LEMMA CreateOwned ==
    ASSUME UMInv, Owned(users), NEW n \in Names, NEW p \in Passwords, NEW max, NEW r,
           CreateUser(n, p, max, r)
    PROVE  Owned(users)'
<1>1. CASE r = "OK"
  <2>. DEFINE u == [username |-> n, password |-> p, locked |-> FALSE]
  <2>1. Becomes(n, u) /\ drops' = [drops EXCEPT ![n] = {}] /\ n \notin NamesOf(users)
    BY <1>1, CreateUserEffect DEF Owned
  <2>2. u.username = n
    OBVIOUS
  <2>. HIDE DEF u
  <2>3. Distinct(users') /\ NamesOf(users') = NamesOf(users) \cup {n}
    BY <2>1, <2>2 DEF Becomes
  <2>4. {} # NoDrop
    BY DropAssumption
  <2>5. \A m \in Names : drops'[m] = IF m = n THEN {} ELSE drops[m]
    BY <2>1 DEF UMInv, UMTypeOK
  <2>. QED BY <2>3, <2>4, <2>5 DEF Owned
<1>2. CASE r # "OK"
  BY <1>2 DEF CreateUser, umVars, Owned
<1>. QED BY <1>1, <1>2

\* user_manager_delete_user takes both away.
LEMMA DeleteOwned ==
    ASSUME UMInv, Owned(users), NEW n \in Names, NEW r, DeleteUser(n, r)
    PROVE  Owned(users)'
<1>. USE DEF UMInv, UMTypeOK
<1>1. CASE r = "OK"
  <2>1. /\ drops' = [drops EXCEPT ![n] = NoDrop] /\ Distinct(users')
        /\ NamesOf(users') = NamesOf(users) \ {n}
    BY <1>1, DeleteUserEffect DEF Owned
  <2>. QED BY <2>1 DEF Owned
<1>2. CASE r # "OK"
  <2>1. /\ UNCHANGED <<users, userCount>>
        /\ \/ drops' = drops
           \/ /\ drops[n] # NoDrop
              /\ \E left \in SUBSET drops[n] : drops' = [drops EXCEPT ![n] = left]
    BY <1>2, DeleteUserPartly
  <2>2. CASE drops' = drops
    BY <2>1, <2>2 DEF Owned
  <2>3. CASE drops[n] # NoDrop /\ \E left \in SUBSET drops[n] : drops' = [drops EXCEPT ![n] = left]
    <3>1. drops[n] \in SUBSET Mails
      BY <2>3
    <3>2. PICK left \in SUBSET drops[n] : drops' = [drops EXCEPT ![n] = left]
      BY <2>3
    <3>3. left # NoDrop
      BY <3>1, DropAssumption
    <3>4. \A m \in Names : drops'[m] = IF m = n THEN left ELSE drops[m]
      BY <3>2
    <3>. QED BY <2>1, <2>3, <3>3, <3>4 DEF Owned
  <2>. QED BY <2>1, <2>2, <2>3
<1>. QED BY <1>1, <1>2

\* user_manager_change_password touches no maildrop.
LEMMA PasswordOwned ==
    ASSUME UMInv, Owned(users), NEW n, NEW p \in Passwords, NEW r, ChangePassword(n, p, r)
    PROVE  Owned(users)'
<1>1. CASE r # "ENOENT"
  <2>. DEFINE u == [AccountOf(users, n) EXCEPT !.password = Given(p, r)]
  <2>1. /\ n \in NamesOf(users) /\ AccountOf(users, n) \in User
        /\ AccountOf(users, n).username = n /\ Becomes(n, u) /\ drops' = drops
    BY <1>1, ChangePasswordEffect DEF Owned
  <2>2. u.username = n
    BY <2>1 DEF User
  <2>. HIDE DEF u
  <2>3. Distinct(users') /\ NamesOf(users') = NamesOf(users)
    BY <2>1, <2>2 DEF Becomes
  <2>. QED BY <2>1, <2>3 DEF Owned
<1>2. CASE r = "ENOENT"
  BY <1>2 DEF ChangePassword, Owned
<1>. QED BY <1>1, <1>2

\* user_manager_change_username moves the maildrop with the name.
LEMMA UsernameOwned ==
    ASSUME UMInv, Owned(users), NEW old \in Names, NEW new \in Names, NEW r,
           new = old \/ GetUser(new) = 0, ChangeUsername(old, new, r)
    PROVE  Owned(users)'
<1>1. CASE r = "OK"
  <2>. DEFINE u == [AccountOf(users, old) EXCEPT !.username = new]
  <2>1. /\ Becomes(old, u) /\ AccountOf(users, old) \in User
        /\ drops[old] # NoDrop /\ drops' = [drops EXCEPT ![old] = NoDrop, ![new] = drops[old]]
    BY <1>1, ChangeUsernameEffect DEF Owned
  <2>2. u.username = new
    BY <2>1 DEF User
  <2>. HIDE DEF u
  <2>3. Distinct(users') /\ NamesOf(users') = (NamesOf(users) \ {old}) \cup {new}
    BY <2>1, <2>2 DEF Becomes
  <2>4. \A n \in Names : drops'[n] = IF n = new THEN drops[old]
                                       ELSE IF n = old THEN NoDrop ELSE drops[n]
    BY <2>1 DEF UMInv, UMTypeOK
  <2>. QED BY <2>1, <2>3, <2>4 DEF Owned
<1>2. CASE r # "OK"
  BY <1>2 DEF ChangeUsername, Owned
<1>. QED BY <1>1, <1>2

\* Every call of a running server keeps list and directories together.
LEMMA CommandOwned ==
    ASSUME ~RenameTaken, UMInv, Owned(users), Command
    PROVE  Owned(users)'
<1>1. ASSUME NEW n \in Names, NEW p \in Passwords, NEW r, CreateUser(n, p, limit, r)
      PROVE  Owned(users)'
  BY <1>1, CreateOwned
<1>2. ASSUME NEW n \in Names, NEW r, DeleteUser(n, r) PROVE Owned(users)'
  BY <1>2, DeleteOwned
<1>3. ASSUME NEW n \in Names, NEW p \in Passwords, NEW r, ChangePassword(n, p, r)
      PROVE  Owned(users)'
  BY <1>3, PasswordOwned
<1>4. ASSUME NEW old \in Names, NEW new \in Names, NEW r, new = old \/ GetUser(new) = 0,
             ChangeUsername(old, new, r)
      PROVE  Owned(users)'
  BY <1>4, UsernameOwned
<1>. QED BY <1>1, <1>2, <1>3, <1>4 DEF Command

\* The files of the start match the directories.
LEMMA MatchedInit == SoundFiles /\ Init => Matched
<1>. SUFFICES ASSUME SoundFiles, Init PROVE Owned(LinesOf(file))
  BY DEF Init, Matched
<1>1. ASSUME NEW n \in Names PROVE drops[n] # NoDrop <=> n \in FileNames
  <2>1. Mails # NoDrop
    BY DropAssumption
  <2>. QED BY <2>1 DEF Init
<1>2. CASE file = NoFile
  <2>1. NamesOf(<<>>) = {} /\ Distinct(<<>>)
    BY DEF NamesOf, Distinct
  <2>. QED BY <1>1, <1>2, <2>1 DEF LinesOf, FileNames, Owned
<1>3. CASE file # NoFile
  <2>1. file \in InitFiles \ {NoFile} /\ file \in Seq(Line)
    BY <1>3, FilesAssumption DEF Init
  <2>2. DOMAIN file = 1..Len(file)
    BY <2>1
  <2>3. FileNames = NamesOf(file) /\ Distinct(file)
    BY <1>3, <2>1, <2>2 DEF FileNames, NamesOf, Distinct, SoundFiles
  <2>. QED BY <1>1, <1>3, <2>3 DEF LinesOf, Owned
<1>. QED BY <1>2, <1>3

\* Every step keeps accounts and directories matched.
LEMMA MatchedStep == ~RenameTaken /\ StoreTyped /\ Matched /\ [Next]_storeVars => Matched'
<1>. SUFFICES ASSUME ~RenameTaken, StoreTyped, Matched, [Next]_storeVars, damage' = "none"
              PROVE  IF process' = "up" THEN Owned(users)' ELSE Owned(LinesOf(file))'
  BY DEF Matched
<1>1. CASE Start
  <2>1. /\ damage = "none" /\ process # "up" /\ Owned(LinesOf(file))
        /\ UNCHANGED <<drops, file>>
    BY <1>1, StartReads DEF Start, Matched
  <2>2. CASE process' # "up"
    BY <2>1, <2>2 DEF Owned, LinesOf
  <2>3. CASE process' = "up" /\ file = NoFile /\ users' = <<>>
    BY <2>1, <2>3 DEF Owned, LinesOf
  <2>4. CASE process' = "up" /\ file # NoFile /\ users' = Loaded(file)
    <3>1. file \in Seq(Line) /\ \A i \in DOMAIN file : Plain(file[i])
      BY <1>1, <2>1, <2>4, StartReads
    <3>2. \A i \in 1..Len(file) : ParseLine(file[i]) = file[i]
      BY <3>1 DEF Plain
    <3>3. Len(users') = Len(file) /\ \A i \in 1..Len(file) : users'[i].username = file[i].username
      BY <2>4, <3>1, <3>2, LoadedIs
    <3>4. NamesOf(users') = NamesOf(file) /\ (Distinct(file) => Distinct(users'))
      BY <3>3, SameNames
    <3>. QED BY <2>1, <2>4, <3>4 DEF Owned, LinesOf
  <2>. QED BY <1>1, <2>2, <2>3, <2>4, StartReads
<1>2. CASE Stop
  <2>1. /\ damage = "none" /\ process = "up" /\ Owned(users) /\ process' = "down"
        /\ drops' = drops /\ file' = Accounts
    BY <1>2 DEF Stop, Ends, EndsUnsaved, Matched
  <2>2. /\ Accounts \in Seq(Line) /\ Len(Accounts) = Len(users)
        /\ \A i \in 1..Len(users) : Accounts[i].username = users[i].username
    BY AccountsAre DEF StoreTyped, UMInv, UMTypeOK
  <2>3. NamesOf(Accounts) = NamesOf(users) /\ (Distinct(users) => Distinct(Accounts))
    BY <2>2, SameNames
  <2>4. LinesOf(file') = Accounts
    BY <2>1, <2>2, FilesAssumption DEF LinesOf
  <2>. QED BY <2>1, <2>3, <2>4 DEF Owned
<1>3. CASE Kill
  BY <1>3 DEF Kill, EndsUnsaved
<1>4. CASE Command
  <2>1. damage = "none" /\ process = "up" /\ process' = process /\ UMInv
    BY <1>4 DEF Command, StoreTyped
  <2>. QED BY <1>4, <2>1, CommandOwned DEF Matched
<1>5. CASE \E k \in Limits : SetLimit(k)
  BY <1>5 DEF SetLimit, umVars, Matched, Owned, LinesOf
<1>6. CASE UNCHANGED storeVars
  BY <1>6 DEF storeVars, umVars, Matched, Owned, LinesOf
<1>. QED BY <1>1, <1>2, <1>3, <1>4, <1>5, <1>6 DEF Next

\* From a users file that names every account once, and unless someone
\* renames onto a taken name, list and directories agree in every life of
\* the server: after any calls that failed half way, any number of stops and
\* starts, and starts that failed.
THEOREM DropsFollowAccounts == SoundFiles /\ ~RenameTaken => (Spec => []DropsMatchAccounts)
<1>. SUFFICES ASSUME SoundFiles, ~RenameTaken PROVE Spec => []DropsMatchAccounts
  OBVIOUS
<1>1. StoreTyped /\ Matched => DropsMatchAccounts
  <2>. SUFFICES ASSUME StoreTyped, Matched, process = "up", damage = "none", NEW n \in Names
                PROVE  DropExists(n) <=> \E i \in DOMAIN users : users[i].username = n
    BY DEF DropsMatchAccounts
  <2>1. DOMAIN users = 1..Len(users)
    BY DEF StoreTyped, UMInv, UMTypeOK
  <2>2. drops[n] # NoDrop <=> n \in NamesOf(users)
    BY DEF Matched, Owned
  <2>. QED BY <2>1, <2>2 DEF DropExists, NamesOf
<1>2. Init => Matched
  BY MatchedInit
<1>3. StoreTyped /\ Matched /\ [Next]_storeVars => Matched'
  BY MatchedStep
<1>. QED BY <1>1, <1>2, <1>3, StoreInit, StoreStep, PTL DEF Spec
=============================================================================
