------------------------- MODULE UserManager_proofs ------------------------
(***************************************************************************)
(* What each call of the user manager does to the types, to the counter    *)
(* and to the locks, for any list of accounts.  Pop3Server_proofs rests on *)
(* these lemmas.                                                           *)
(***************************************************************************)
EXTENDS UserManager, TLAPS, WellFoundedInduction, SequenceTheorems

\* The numbers of a set that is not empty have a least one.
LEMMA MinExists ==
    ASSUME NEW S \in SUBSET Nat, S # {}
    PROVE  Min(S) \in S /\ \A y \in S : Min(S) =< y
<1>. DEFINE R == {ss \in Nat \X Nat : ss[1] < ss[2]}
<1>1. IsWellFoundedOn(R, Nat)
  BY NatLessThanWellFounded DEF OpToRel
<1>. HIDE DEF R
<1>2. \E x \in S : \A y \in S : ~(<<y, x>> \in R)
  BY <1>1, WFMin
<1>3. PICK x \in S : \A y \in S : ~(<<y, x>> \in R)
  BY <1>2
<1>4. ASSUME NEW y \in S PROVE x =< y
  <2>1. x \in Nat /\ y \in Nat
    OBVIOUS
  <2>2. ~(y < x)
    BY <1>3, <2>1 DEF R
  <2>. QED BY <2>1, <2>2
<1>. QED BY <1>4 DEF Min


\* The position of the first node of that name in any list: get_user as a
\* function of the list, so that it can be asked of the list before and
\* after a call.
IndexIn(s, n) == SelectInSeq(s, LAMBDA u : u.username = n)

\* get_user finds the first node of that name, and 0 when there is none.
LEMMA IndexFound ==
    ASSUME NEW s \in Seq(User), NEW n
    PROVE  /\ IndexIn(s, n) \in 0..Len(s)
           /\ IndexIn(s, n) # 0 => /\ s[IndexIn(s, n)].username = n
                                   /\ \A j \in 1..(IndexIn(s, n) - 1) : s[j].username # n
           /\ IndexIn(s, n) = 0 => \A j \in 1..Len(s) : s[j].username # n
<1>. DEFINE I == {i \in 1..Len(s) : s[i].username = n}
<1>1. IndexIn(s, n) = IF I # {} THEN Min(I) ELSE 0
  BY DEF IndexIn, SelectInSeq
<1>2. Len(s) \in Nat
  OBVIOUS
<1>3. I \in SUBSET Nat
  BY <1>2
<1>4. CASE I = {}
  BY <1>1, <1>2, <1>4
<1>5. CASE I # {}
  <2>1. IndexIn(s, n) = Min(I)
    BY <1>1, <1>5
  <2>. HIDE DEF I
  <2>2. Min(I) \in I /\ \A y \in I : Min(I) =< y
    BY <1>3, <1>5, MinExists
  <2>. USE DEF I
  <2>3. IndexIn(s, n) \in 1..Len(s) /\ s[IndexIn(s, n)].username = n
    BY <2>1, <2>2
  <2>4. ASSUME NEW j \in 1..(IndexIn(s, n) - 1) PROVE s[j].username # n
    BY <1>2, <2>1, <2>2, <2>3
  <2>. QED BY <1>2, <2>3, <2>4
<1>. QED BY <1>4, <1>5

\* The converse: the first node of that name is the one get_user returns.
LEMMA IndexIs ==
    ASSUME NEW s \in Seq(User), NEW n, NEW i \in 1..Len(s),
           s[i].username = n, \A j \in 1..(i - 1) : s[j].username # n
    PROVE  IndexIn(s, n) = i
<1>1. IndexIn(s, n) \in 1..Len(s)
  BY IndexFound
<1>2. /\ s[IndexIn(s, n)].username = n
      /\ \A j \in 1..(IndexIn(s, n) - 1) : s[j].username # n
  BY <1>1, IndexFound
<1>3. ~(IndexIn(s, n) < i) /\ ~(i < IndexIn(s, n))
  BY <1>1, <1>2
<1>. QED BY <1>1, <1>3

\* user_manager_create_user puts the new node in front of the others.
LEMMA ConsNode ==
    ASSUME NEW s \in Seq(User), NEW u \in User
    PROVE  /\ Cons(u, s) \in Seq(User)
           /\ Len(Cons(u, s)) = Len(s) + 1
           /\ Cons(u, s)[1] = u
           /\ \A i \in 1..Len(s) : Cons(u, s)[i + 1] = s[i]
BY DEF Cons

\* user_manager_delete_user takes one node out and keeps the order.
LEMMA RemoveNode ==
    ASSUME NEW s \in Seq(User), NEW k \in 1..Len(s)
    PROVE  /\ RemoveAt(s, k) \in Seq(User)
           /\ Len(RemoveAt(s, k)) = Len(s) - 1
           /\ \A i \in 1..(k - 1) : RemoveAt(s, k)[i] = s[i]
           /\ \A i \in k..(Len(s) - 1) : RemoveAt(s, k)[i] = s[i + 1]
<1>. DEFINE a == SubSeq(s, 1, k - 1)
            b == SubSeq(s, k + 1, Len(s))
<1>1. /\ a \in Seq(User) /\ Len(a) = k - 1
      /\ \A i \in 1..(k - 1) : a[i] = s[i]
  OBVIOUS
<1>2. /\ b \in Seq(User) /\ Len(b) = Len(s) - k
      /\ \A i \in 1..(Len(s) - k) : b[i] = s[k + i]
  OBVIOUS
<1>. HIDE DEF a, b
<1>3. /\ a \o b \in Seq(User)
      /\ Len(a \o b) = Len(s) - 1
      /\ \A i \in 1..(Len(s) - 1) : (a \o b)[i] = IF i < k THEN a[i] ELSE b[i - (k - 1)]
  <2>1. Len(s) \in Nat /\ Len(a) + Len(b) = Len(s) - 1
    BY <1>1, <1>2
  <2>2. \A i \in 1..(Len(s) - 1) : i < k <=> i <= Len(a)
    BY <1>1
  <2>3. /\ a \o b \in Seq(User)
        /\ Len(a \o b) = Len(a) + Len(b)
        /\ \A i \in 1..(Len(a) + Len(b)) :
              (a \o b)[i] = IF i <= Len(a) THEN a[i] ELSE b[i - Len(a)]
    BY <1>1, <1>2, ConcatProperties, Zenon
  <2>4. ASSUME NEW i \in 1..(Len(s) - 1)
        PROVE  (a \o b)[i] = IF i < k THEN a[i] ELSE b[i - (k - 1)]
    BY <1>1, <2>1, <2>2, <2>3
  <2>. QED BY <2>1, <2>3, <2>4
<1>4. \A i \in k..(Len(s) - 1) : (a \o b)[i] = s[i + 1]
  BY <1>2, <1>3
<1>5. \A i \in 1..(k - 1) : (a \o b)[i] = s[i]
  BY <1>1, <1>3
<1>6. RemoveAt(s, k) = a \o b
  BY DEF RemoveAt, a, b
<1>. QED BY <1>3, <1>4, <1>5, <1>6

\* The account of that name exists and is locked.
Locked(s, n) == IndexIn(s, n) # 0 /\ s[IndexIn(s, n)].locked

\* Another account's arrival does not touch a lock.
LEMMA LockedCons ==
    ASSUME NEW s \in Seq(User), NEW u \in User, NEW n, Locked(s, n), u.username # n
    PROVE  Locked(Cons(u, s), n)
<1>. DEFINE i == IndexIn(s, n)
            t == Cons(u, s)
<1>1. i \in 1..Len(s) /\ s[i].username = n /\ \A j \in 1..(i - 1) : s[j].username # n
  BY IndexFound DEF Locked
<1>2. s[i].locked
  BY DEF Locked
<1>. HIDE DEF i
<1>3. /\ t \in Seq(User) /\ Len(t) = Len(s) + 1 /\ t[1] = u
      /\ \A j \in 1..Len(s) : t[j + 1] = s[j]
  BY ConsNode
<1>. HIDE DEF t
<1>4. i + 1 \in 1..Len(t) /\ t[i + 1] = s[i]
  BY <1>1, <1>3
<1>5. ASSUME NEW j \in 1..((i + 1) - 1) PROVE t[j].username # n
  <2>1. CASE j = 1
    BY <1>3, <2>1
  <2>2. CASE j # 1
    <3>1. j - 1 \in 1..(i - 1) /\ j - 1 \in 1..Len(s) /\ (j - 1) + 1 = j
      BY <1>1, <2>2
    <3>2. t[j] = s[j - 1]
      BY <1>3, <3>1
    <3>. QED BY <1>1, <3>1, <3>2
  <2>. QED BY <2>1, <2>2
<1>6. IndexIn(t, n) = i + 1
  BY <1>1, <1>3, <1>4, <1>5, IndexIs
<1>. QED BY <1>1, <1>2, <1>4, <1>6 DEF Locked, t

\* Nor does another account's removal.
LEMMA LockedRemove ==
    ASSUME NEW s \in Seq(User), NEW k \in 1..Len(s), NEW n, Locked(s, n), s[k].username # n
    PROVE  Locked(RemoveAt(s, k), n)
<1>. DEFINE i == IndexIn(s, n)
            t == RemoveAt(s, k)
            m == IF i < k THEN i ELSE i - 1
<1>1. i \in 1..Len(s) /\ s[i].username = n /\ \A j \in 1..(i - 1) : s[j].username # n
  BY IndexFound DEF Locked
<1>2. s[i].locked
  BY DEF Locked
<1>. HIDE DEF i
<1>3. /\ t \in Seq(User) /\ Len(t) = Len(s) - 1
      /\ \A j \in 1..(k - 1) : t[j] = s[j]
      /\ \A j \in k..(Len(s) - 1) : t[j] = s[j + 1]
  BY RemoveNode
<1>. HIDE DEF t
<1>4. i # k
  BY <1>1
<1>5. m \in 1..Len(t) /\ t[m] = s[i]
  <2>1. CASE i < k
    BY <1>1, <1>3, <2>1
  <2>2. CASE i > k
    <3>1. i - 1 \in k..(Len(s) - 1) /\ (i - 1) + 1 = i /\ m = i - 1
      BY <1>1, <2>2
    <3>. QED BY <1>1, <1>3, <3>1
  <2>. QED BY <1>1, <1>4, <2>1, <2>2
<1>6. ASSUME NEW j \in 1..(m - 1) PROVE t[j].username # n
  <2>1. CASE j < k
    <3>1. j \in 1..(k - 1) /\ j \in 1..(i - 1)
      BY <1>1, <2>1
    <3>. QED BY <1>1, <1>3, <3>1
  <2>2. CASE j >= k
    <3>1. j \in k..(Len(s) - 1) /\ j + 1 \in 1..(i - 1)
      BY <1>1, <2>2
    <3>. QED BY <1>1, <1>3, <3>1
  <2>. QED BY <2>1, <2>2
<1>. HIDE DEF m
<1>7. IndexIn(t, n) = m
  BY <1>1, <1>3, <1>5, <1>6, IndexIs
<1>. QED BY <1>2, <1>5, <1>7 DEF Locked, t

\* A call that leaves the names where they are finds what it found before.
LEMMA IndexSameNames ==
    ASSUME NEW s \in Seq(User), NEW t \in Seq(User), NEW n, Len(t) = Len(s),
           \A i \in 1..Len(s) : t[i].username = s[i].username
    PROVE  IndexIn(t, n) = IndexIn(s, n)
<1>1. CASE IndexIn(s, n) = 0
  <2>1. \A j \in 1..Len(t) : t[j].username # n
    BY <1>1, IndexFound
  <2>. QED BY <1>1, <2>1, IndexFound
<1>2. CASE IndexIn(s, n) # 0
  <2>1. /\ IndexIn(s, n) \in 1..Len(s) /\ s[IndexIn(s, n)].username = n
        /\ \A j \in 1..(IndexIn(s, n) - 1) : s[j].username # n
    BY <1>2, IndexFound
  <2>2. \A j \in 1..(IndexIn(s, n) - 1) : j \in 1..Len(s)
    BY <2>1
  <2>. QED BY <2>1, <2>2, IndexIs
<1>. QED BY <1>1, <1>2

----------------------------------------------------------------------------
\* The types, and the counter that is kept beside the list.
UMInv == UMTypeOK /\ userCount = Len(users)

\* No call but a logout unlocks an account.
LocksKept == \A m : Locked(users, m) => Locked(users', m)

\* get_user returns the first node of the name.
LEMMA GetUserIsIndex == \A n : GetUser(n) = IndexIn(users, n)
BY DEF GetUser, IndexIn

\* Writing one node of a list.
LEMMA ExceptNode ==
    ASSUME NEW s \in Seq(User), NEW t, NEW k \in 1..Len(s), NEW u \in User,
           t = [s EXCEPT ![k] = u]
    PROVE  /\ t \in Seq(User) /\ Len(t) = Len(s)
           /\ \A j \in 1..Len(s) : t[j] = IF j = k THEN u ELSE s[j]
BY ExceptSeq

\* SetLocked writes the lock of one node and nothing else.
LEMMA SetLockedEffect ==
    ASSUME UMInv, NEW n, GetUser(n) # 0, NEW value \in BOOLEAN, SetLocked(n, value)
    PROVE  /\ users' \in Seq(User) /\ Len(users') = Len(users)
           /\ Locked(users', n) <=> value
           /\ \A m : m # n => (Locked(users', m) <=> Locked(users, m))
<1>. DEFINE k == IndexIn(users, n)
<1>1. users \in Seq(User)
  BY DEF UMInv, UMTypeOK
<1>2. k \in 1..Len(users) /\ users[k].username = n
  BY <1>1, GetUserIsIndex, IndexFound
<1>3. users' = [users EXCEPT ![k].locked = value]
  BY GetUserIsIndex DEF SetLocked
<1>. HIDE DEF k
<1>4. users' = [users EXCEPT ![k] = [users[k] EXCEPT !.locked = value]]
  BY <1>3
<1>5. users[k] \in User
  BY <1>1, <1>2
<1>6. [users[k] EXCEPT !.locked = value] \in User
  BY <1>5 DEF User
<1>7. /\ users' \in Seq(User) /\ Len(users') = Len(users)
      /\ \A j \in 1..Len(users) :
            users'[j] = IF j = k THEN [users[k] EXCEPT !.locked = value] ELSE users[j]
  BY <1>1, <1>2, <1>4, <1>6, ExceptNode
<1>8. \A j \in 1..Len(users) : users'[j].username = users[j].username
  BY <1>2, <1>5, <1>7 DEF User
<1>9. \A m : IndexIn(users', m) = IndexIn(users, m)
  BY <1>1, <1>7, <1>8, IndexSameNames
<1>10. Locked(users', n) <=> value
  <2>1. users'[k].locked = value
    BY <1>2, <1>5, <1>7 DEF User
  <2>. QED BY <1>2, <1>9, <2>1 DEF Locked, k
<1>11. ASSUME NEW m, m # n PROVE Locked(users', m) <=> Locked(users, m)
  <2>1. CASE IndexIn(users, m) = 0
    BY <1>9, <2>1 DEF Locked
  <2>2. CASE IndexIn(users, m) # 0
    <3>1. IndexIn(users, m) \in 1..Len(users) /\ users[IndexIn(users, m)].username = m
      BY <1>1, <2>2, IndexFound
    <3>2. IndexIn(users, m) # k
      BY <1>2, <1>11, <3>1
    <3>3. users'[IndexIn(users, m)] = users[IndexIn(users, m)]
      BY <1>7, <3>1, <3>2
    <3>. QED BY <1>9, <3>3 DEF Locked
  <2>. QED BY <2>1, <2>2
<1>. QED BY <1>7, <1>10, <1>11

\* user_manager_create_user
LEMMA CreateUserKeeps ==
    ASSUME UMInv, NEW n \in Names, NEW p \in Passwords, NEW max, NEW r,
           CreateUser(n, p, max, r)
    PROVE  /\ UMInv' /\ LocksKept
           /\ \A m \in Names : DropExists(m) => drops'[m] = drops[m]
<1>. USE DEF UMInv, UMTypeOK
<1>1. CASE r # "OK"
  BY <1>1 DEF CreateUser, umVars, LocksKept
<1>2. CASE r = "OK"
  <2>. DEFINE u == [username |-> n, password |-> p, locked |-> FALSE]
  <2>1. CreateUserResult(n, p, max) = "OK"
    BY <1>2 DEF CreateUser, Faulty, CreateUserResult
  <2>2. GetUser(n) = 0 /\ ~DropExists(n)
    BY <2>1 DEF CreateUserResult
  <2>3. users' = Cons(u, users) /\ userCount' = userCount + 1 /\ drops' = [drops EXCEPT ![n] = {}]
    BY <1>2 DEF CreateUser
  <2>4. u \in User /\ u.username = n
    BY DEF User
  <2>. HIDE DEF u
  <2>5. users' \in Seq(User) /\ Len(users') = Len(users) + 1
    BY <2>3, <2>4, ConsNode
  <2>6. UMInv'
    BY <2>3, <2>5
  <2>7. LocksKept
    <3>1. ASSUME NEW m, Locked(users, m) PROVE Locked(users', m)
      <4>1. m # n
        BY <2>2, <3>1, GetUserIsIndex DEF Locked
      <4>. QED BY <2>3, <2>4, <3>1, <4>1, LockedCons
    <3>. QED BY <3>1 DEF LocksKept
  <2>8. \A m \in Names : DropExists(m) => drops'[m] = drops[m]
    BY <2>2, <2>3 DEF DropExists
  <2>. QED BY <2>6, <2>7, <2>8
<1>. QED BY <1>1, <1>2

\* user_manager_delete_user: neither a locked account nor its maildrop is
\* touched.
LEMMA DeleteUserKeeps ==
    ASSUME UMInv, NEW n \in Names, NEW r, DeleteUser(n, r)
    PROVE  /\ UMInv' /\ LocksKept
           /\ \A m \in Names : Locked(users, m) => drops'[m] = drops[m]
<1>. USE DEF UMInv, UMTypeOK
<1>. DEFINE k == GetUser(n)
<1>1. CASE /\ r = "OK"
           /\ users' = RemoveAt(users, k)
           /\ userCount' = userCount - 1
           /\ drops' = [drops EXCEPT ![n] = NoDrop]
  <2>1. DeleteUserResult(n) = "OK"
    BY <1>1 DEF DeleteUser, Faulty, DeleteUserResult
  <2>2. k # 0 /\ ~users[k].locked
    BY <2>1 DEF DeleteUserResult
  <2>3. k \in 1..Len(users) /\ users[k].username = n
    BY <2>2, GetUserIsIndex, IndexFound
  <2>4. ~Locked(users, n)
    BY <2>2, GetUserIsIndex DEF Locked
  <2>. HIDE DEF k
  <2>5. users' \in Seq(User) /\ Len(users') = Len(users) - 1
    BY <1>1, <2>3, RemoveNode
  <2>6. userCount' \in Nat /\ userCount' = Len(users')
    BY <1>1, <2>3, <2>5
  <2>7. UMInv'
    BY <1>1, <2>5, <2>6
  <2>8. LocksKept
    <3>1. ASSUME NEW m, Locked(users, m) PROVE Locked(users', m)
      BY <1>1, <2>3, <2>4, <3>1, LockedRemove
    <3>. QED BY <3>1 DEF LocksKept
  <2>9. \A m \in Names : Locked(users, m) => drops'[m] = drops[m]
    BY <1>1, <2>4
  <2>. QED BY <2>7, <2>8, <2>9
<1>2. CASE /\ r = "EIO"
           /\ DropExists(n)
           /\ \E left \in SUBSET drops[n] : drops' = [drops EXCEPT ![n] = left]
           /\ UNCHANGED <<users, userCount>>
  <2>1. DeleteUserResult(n) = "OK"
    BY <1>2 DEF DeleteUser, Faulty, DeleteUserResult
  <2>2. ~Locked(users, n)
    BY <2>1, GetUserIsIndex DEF DeleteUserResult, Locked
  <2>3. drops[n] \in SUBSET Mails
    BY <1>2 DEF DropExists
  <2>4. PICK left \in SUBSET drops[n] : drops' = [drops EXCEPT ![n] = left]
    BY <1>2
  <2>. QED BY <1>2, <2>2, <2>3, <2>4 DEF LocksKept
<1>3. CASE UNCHANGED umVars
  BY <1>3 DEF umVars, LocksKept
<1>. QED BY <1>1, <1>2, <1>3 DEF DeleteUser

\* user_manager_login: "OK" only to who finds the account unlocked, and it
\* is locked from then on.
LEMMA LoginKeeps ==
    ASSUME UMInv, NEW n, NEW p, NEW r, Login(n, p, r)
    PROVE  /\ UMInv' /\ LocksKept /\ drops' = drops
           /\ r = "OK" => ~Locked(users, n) /\ Locked(users', n)
<1>. USE DEF UMInv, UMTypeOK
<1>1. CASE r # "OK"
  BY <1>1 DEF Login, LocksKept
<1>2. CASE r = "OK"
  <2>1. LoginResult(n, p) = "OK" /\ SetLocked(n, TRUE) /\ UNCHANGED <<userCount, drops>>
    BY <1>2 DEF Login
  <2>2. GetUser(n) # 0 /\ ~Locked(users, n)
    BY <2>1, GetUserIsIndex DEF LoginResult, Locked
  <2>3. /\ users' \in Seq(User) /\ Len(users') = Len(users)
        /\ Locked(users', n) /\ \A m : m # n => (Locked(users', m) <=> Locked(users, m))
    BY <2>1, <2>2, SetLockedEffect
  <2>. QED BY <2>1, <2>2, <2>3 DEF LocksKept
<1>. QED BY <1>1, <1>2

\* user_manager_logout unlocks the account it names and no other.
LEMMA LogoutKeeps ==
    ASSUME UMInv, NEW n, NEW r, Logout(n, r)
    PROVE  /\ UMInv' /\ drops' = drops
           /\ \A m : m # n /\ Locked(users, m) => Locked(users', m)
<1>. USE DEF UMInv, UMTypeOK
<1>1. CASE r # "OK"
  BY <1>1 DEF Logout
<1>2. CASE r = "OK"
  <2>1. GetUser(n) # 0 /\ SetLocked(n, FALSE) /\ UNCHANGED <<userCount, drops>>
    BY <1>2 DEF Logout, LogoutResult
  <2>2. /\ users' \in Seq(User) /\ Len(users') = Len(users)
        /\ \A m : m # n => (Locked(users', m) <=> Locked(users, m))
    BY <2>1, SetLockedEffect
  <2>. QED BY <2>1, <2>2
<1>. QED BY <1>1, <1>2

\* Writing one field of one node, not the lock, keeps types and length;
\* and the locks, when the field is not the name either.
LEMMA ReplaceNode ==
    ASSUME NEW s \in Seq(User), NEW n, NEW k, k = IndexIn(s, n), k # 0,
           NEW u \in User, u.locked = s[k].locked
    PROVE  /\ [s EXCEPT ![k] = u] \in Seq(User)
           /\ Len([s EXCEPT ![k] = u]) = Len(s)
           /\ u.username = n => \A m : Locked(s, m) => Locked([s EXCEPT ![k] = u], m)
<1>. DEFINE t == [s EXCEPT ![k] = u]
<1>1. k \in 1..Len(s) /\ s[k].username = n
  BY IndexFound
<1>2. /\ t \in Seq(User) /\ Len(t) = Len(s)
      /\ \A j \in 1..Len(s) : t[j] = IF j = k THEN u ELSE s[j]
  BY <1>1, ExceptSeq
<1>. HIDE DEF t
<1>3. ASSUME u.username = n, NEW m, Locked(s, m) PROVE Locked(t, m)
  <2>1. \A j \in 1..Len(s) : t[j].username = s[j].username
    BY <1>1, <1>2, <1>3
  <2>2. IndexIn(t, m) = IndexIn(s, m)
    BY <1>2, <2>1, IndexSameNames
  <2>3. IndexIn(s, m) \in 1..Len(s) /\ s[IndexIn(s, m)].locked
    BY <1>3, IndexFound DEF Locked
  <2>4. t[IndexIn(s, m)].locked
    BY <1>2, <2>3
  <2>. QED BY <2>2, <2>3, <2>4 DEF Locked
<1>. QED BY <1>2, <1>3 DEF t

\* What a change of password writes: the one given, or NULL out of memory.
Given(p, r) == IF r = "OK" THEN p ELSE NoPassword

\* Unless there is no such account, a password is written.
LEMMA PasswordWritten ==
    ASSUME NEW n, NEW p \in Passwords, NEW r, ChangePassword(n, p, r), r # "ENOENT"
    PROVE  /\ r \in {"OK", "ENOMEM"} /\ GetUser(n) # 0 /\ Given(p, r) \in Passwords
           /\ users' = [users EXCEPT ![GetUser(n)].password = Given(p, r)]
           /\ UNCHANGED <<userCount, drops>>
BY MemoryAssumption DEF ChangePassword, SetPassword, Given

\* user_manager_change_password
LEMMA ChangePasswordKeeps ==
    ASSUME UMInv, NEW n, NEW p \in Passwords, NEW r, ChangePassword(n, p, r)
    PROVE  UMInv' /\ LocksKept /\ drops' = drops
<1>. USE DEF UMInv, UMTypeOK
<1>1. CASE r = "ENOENT"
  BY <1>1 DEF ChangePassword, LocksKept
<1>2. CASE r # "ENOENT"
  <2>. DEFINE k == GetUser(n)
              q == Given(p, r)
              u == [users[k] EXCEPT !.password = q]
  <2>1. q \in Passwords /\ k # 0 /\ users' = [users EXCEPT ![k] = u] /\ UNCHANGED <<userCount, drops>>
    BY <1>2, PasswordWritten
  <2>. HIDE DEF q
  <2>2. k \in 1..Len(users) /\ users[k] \in User /\ users[k].username = n
    BY <2>1, GetUserIsIndex, IndexFound
  <2>3. u \in User /\ u.locked = users[k].locked /\ u.username = n
    BY <2>1, <2>2 DEF User
  <2>4. k = IndexIn(users, n) /\ users \in Seq(User)
    BY GetUserIsIndex
  <2>. HIDE DEF u, k
  <2>5. users' \in Seq(User) /\ Len(users') = Len(users)
    BY <2>1, <2>3, <2>4, ReplaceNode
  <2>6. \A m : Locked(users, m) => Locked([users EXCEPT ![k] = u], m)
    BY <2>1, <2>3, <2>4, ReplaceNode, Zenon
  <2>7. LocksKept
    BY <2>1, <2>6 DEF LocksKept
  <2>. QED BY <2>1, <2>5, <2>7
<1>. QED BY <1>1, <1>2

\* user_manager_change_username
LEMMA ChangeUsernameKeeps ==
    ASSUME UMInv, NEW old \in Names, NEW new \in Names, NEW r, ChangeUsername(old, new, r)
    PROVE  UMInv'
<1>. USE DEF UMInv, UMTypeOK
<1>1. CASE r # "OK"
  BY <1>1 DEF ChangeUsername
<1>2. CASE r = "OK"
  <2>. DEFINE k == GetUser(old)
              u == [users[k] EXCEPT !.username = new]
  <2>1. /\ k # 0 /\ users' = [users EXCEPT ![k] = u] /\ UNCHANGED userCount
        /\ drops' = [drops EXCEPT ![old] = NoDrop, ![new] = drops[old]]
    BY <1>2 DEF ChangeUsername, ChangeUsernameResult, Faulty
  <2>2. k \in 1..Len(users) /\ users[k] \in User
    BY <2>1, GetUserIsIndex, IndexFound
  <2>3. u \in User /\ u.locked = users[k].locked
    BY <2>2 DEF User
  <2>. HIDE DEF u
  <2>4. users' \in Seq(User) /\ Len(users') = Len(users)
    BY <2>1, <2>3, GetUserIsIndex, ReplaceNode
  <2>. QED BY <2>1, <2>4
<1>. QED BY <1>1, <1>2

----------------------------------------------------------------------------
\* The names of a list, each at one place; the account a name means.
NamesOf(s) == {s[i].username : i \in 1..Len(s)}
Distinct(s) == \A i, j \in 1..Len(s) : s[i].username = s[j].username => i = j
AccountOf(s, n) == s[IndexIn(s, n)]

\* get_user says whether there is an account of that name, and which.
LEMMA AccountFound ==
    ASSUME NEW s \in Seq(User), NEW n
    PROVE  /\ IndexIn(s, n) # 0 <=> n \in NamesOf(s)
           /\ n \in NamesOf(s) => /\ IndexIn(s, n) \in 1..Len(s)
                                  /\ AccountOf(s, n) \in User
                                  /\ AccountOf(s, n).username = n
<1>1. CASE IndexIn(s, n) = 0
  BY <1>1, IndexFound DEF NamesOf
<1>2. CASE IndexIn(s, n) # 0
  <2>1. IndexIn(s, n) \in 1..Len(s) /\ s[IndexIn(s, n)].username = n
    BY <1>2, IndexFound
  <2>2. s[IndexIn(s, n)] \in User
    BY <2>1
  <2>. QED BY <2>1, <2>2 DEF NamesOf, AccountOf
<1>. QED BY <1>1, <1>2

\* Where names are distinct, any node of that name is the account.
LEMMA AccountIs ==
    ASSUME NEW s \in Seq(User), Distinct(s), NEW i \in 1..Len(s)
    PROVE  IndexIn(s, s[i].username) = i /\ AccountOf(s, s[i].username) = s[i]
<1>1. IndexIn(s, s[i].username) # 0
  BY AccountFound DEF NamesOf
<1>2. /\ IndexIn(s, s[i].username) \in 1..Len(s)
      /\ s[IndexIn(s, s[i].username)].username = s[i].username
  BY <1>1, IndexFound
<1>. QED BY <1>2 DEF Distinct, AccountOf

\* Two lists with distinct names and the same nodes mean the same accounts.
LEMMA SameNode ==
    ASSUME NEW s \in Seq(User), NEW t \in Seq(User), Distinct(s), Distinct(t),
           NEW i \in 1..Len(s), NEW j \in 1..Len(t), t[j] = s[i]
    PROVE  AccountOf(t, s[i].username) = AccountOf(s, s[i].username)
<1>1. AccountOf(s, s[i].username) = s[i]
  BY AccountIs
<1>2. AccountOf(t, t[j].username) = t[j]
  BY AccountIs
<1>. QED BY <1>1, <1>2

\* A new name in front: the other accounts stay what they are.
LEMMA ConsAccount ==
    ASSUME NEW s \in Seq(User), Distinct(s), NEW u \in User, u.username \notin NamesOf(s)
    PROVE  /\ Distinct(Cons(u, s))
           /\ NamesOf(Cons(u, s)) = NamesOf(s) \cup {u.username}
           /\ AccountOf(Cons(u, s), u.username) = u
           /\ \A n \in NamesOf(s) : AccountOf(Cons(u, s), n) = AccountOf(s, n)
<1>. DEFINE t == Cons(u, s)
<1>1. /\ t \in Seq(User) /\ Len(t) = Len(s) + 1 /\ t[1] = u
      /\ \A i \in 1..Len(s) : t[i + 1] = s[i]
  BY ConsNode
<1>. HIDE DEF t
<1>2. Len(s) \in Nat
  OBVIOUS
<1>3. \A i \in 1..Len(t) : i = 1 \/ (i - 1 \in 1..Len(s) /\ t[i] = s[i - 1])
  <2>. TAKE i \in 1..Len(t)
  <2>1. CASE i # 1
    <3>1. i - 1 \in 1..Len(s) /\ (i - 1) + 1 = i
      BY <1>1, <1>2, <2>1
    <3>. QED BY <1>1, <3>1
  <2>. QED BY <2>1
<1>4. \A i \in 1..Len(s) : i + 1 \in 1..Len(t)
  BY <1>1, <1>2
<1>5. Distinct(t)
  <2>. SUFFICES ASSUME NEW i \in 1..Len(t), NEW j \in 1..Len(t), t[i].username = t[j].username
                PROVE  i = j
    BY DEF Distinct
  <2>1. CASE i = 1 /\ j # 1
    BY <1>1, <1>3, <2>1 DEF NamesOf
  <2>2. CASE i # 1 /\ j = 1
    BY <1>1, <1>3, <2>2 DEF NamesOf
  <2>3. CASE i # 1 /\ j # 1
    <3>1. /\ i - 1 \in 1..Len(s) /\ t[i] = s[i - 1]
          /\ j - 1 \in 1..Len(s) /\ t[j] = s[j - 1]
      BY <1>3, <2>3
    <3>2. s[i - 1].username = s[j - 1].username
      BY <3>1
    <3>3. i - 1 = j - 1
      BY <3>1, <3>2 DEF Distinct
    <3>4. i \in Int /\ j \in Int
      OBVIOUS
    <3>. QED BY <3>3, <3>4
  <2>. QED BY <2>1, <2>2, <2>3
<1>6. NamesOf(t) = NamesOf(s) \cup {u.username}
  <2>1. ASSUME NEW i \in 1..Len(t) PROVE t[i].username \in NamesOf(s) \cup {u.username}
    BY <1>1, <1>3 DEF NamesOf
  <2>2. ASSUME NEW i \in 1..Len(s) PROVE s[i].username \in NamesOf(t)
    BY <1>1, <1>4 DEF NamesOf
  <2>3. u.username \in NamesOf(t)
    <3>1. 1 \in 1..Len(t)
      BY <1>1, <1>2
    <3>. QED BY <1>1, <3>1 DEF NamesOf
  <2>. QED BY <2>1, <2>2, <2>3 DEF NamesOf
<1>7. AccountOf(t, u.username) = u
  <2>1. 1 \in 1..Len(t)
    BY <1>1, <1>2
  <2>. QED BY <1>1, <1>5, <2>1, AccountIs
<1>8. ASSUME NEW n \in NamesOf(s) PROVE AccountOf(t, n) = AccountOf(s, n)
  <2>1. PICK i \in 1..Len(s) : s[i].username = n
    BY <1>8 DEF NamesOf
  <2>. QED BY <1>1, <1>4, <1>5, <2>1, SameNode
<1>. QED BY <1>5, <1>6, <1>7, <1>8 DEF t

\* One account removed.
LEMMA RemoveAccount ==
    ASSUME NEW s \in Seq(User), Distinct(s), NEW k \in 1..Len(s)
    PROVE  /\ Distinct(RemoveAt(s, k))
           /\ NamesOf(RemoveAt(s, k)) = NamesOf(s) \ {s[k].username}
           /\ \A n \in NamesOf(s) \ {s[k].username} : AccountOf(RemoveAt(s, k), n) = AccountOf(s, n)
<1>. DEFINE t == RemoveAt(s, k)
            from(i) == IF i < k THEN i ELSE i + 1
            to(i) == IF i < k THEN i ELSE i - 1
<1>1. /\ t \in Seq(User) /\ Len(t) = Len(s) - 1
      /\ \A i \in 1..(k - 1) : t[i] = s[i]
      /\ \A i \in k..(Len(s) - 1) : t[i] = s[i + 1]
  BY RemoveNode
<1>. HIDE DEF t
<1>2. Len(s) \in Nat
  OBVIOUS
<1>3. \A i \in 1..Len(t) : from(i) \in 1..Len(s) /\ from(i) # k /\ t[i] = s[from(i)]
  BY <1>1, <1>2
<1>4. \A i \in 1..Len(s) : i # k => to(i) \in 1..Len(t) /\ t[to(i)] = s[i]
  <2>. SUFFICES ASSUME NEW i \in 1..Len(s), i # k PROVE to(i) \in 1..Len(t) /\ t[to(i)] = s[i]
    OBVIOUS
  <2>1. CASE i < k
    BY <1>1, <1>2, <2>1
  <2>2. CASE i > k
    <3>1. i - 1 \in k..(Len(s) - 1) /\ (i - 1) + 1 = i /\ to(i) = i - 1
      BY <1>2, <2>2
    <3>. QED BY <1>1, <3>1
  <2>. QED BY <1>2, <2>1, <2>2
<1>5. \A i, j \in 1..Len(t) : from(i) = from(j) => i = j
  BY <1>1, <1>2
<1>. HIDE DEF from, to
<1>6. Distinct(t)
  BY <1>3, <1>5 DEF Distinct
<1>7. NamesOf(t) = NamesOf(s) \ {s[k].username}
  <2>1. ASSUME NEW i \in 1..Len(t) PROVE t[i].username \in NamesOf(s) \ {s[k].username}
    BY <1>3 DEF NamesOf, Distinct
  <2>2. ASSUME NEW i \in 1..Len(s), s[i].username # s[k].username PROVE s[i].username \in NamesOf(t)
    <3>1. i # k
      BY <2>2
    <3>. QED BY <1>4, <3>1 DEF NamesOf
  <2>. QED BY <2>1, <2>2 DEF NamesOf
<1>8. ASSUME NEW n \in NamesOf(s) \ {s[k].username} PROVE AccountOf(t, n) = AccountOf(s, n)
  <2>1. PICK i \in 1..Len(s) : s[i].username = n
    BY DEF NamesOf
  <2>2. i # k
    BY <2>1
  <2>. QED BY <1>1, <1>4, <1>6, <2>1, <2>2, SameNode
<1>. QED BY <1>6, <1>7, <1>8 DEF t

\* One account rewritten, under its own name or one that was free.
RewrittenAt(s, t, k, u) ==
    /\ t \in Seq(User) /\ Len(t) = Len(s)
    /\ \A i \in 1..Len(s) : t[i] = IF i = k THEN u ELSE s[i]

\* Rewriting a node of a list without duplicates changes that account only.
LEMMA ReplaceAccount ==
    ASSUME NEW s \in Seq(User), Distinct(s), NEW k \in 1..Len(s), NEW u \in User,
           u.username \notin NamesOf(s) \ {s[k].username},
           NEW t, RewrittenAt(s, t, k, u)
    PROVE  /\ Distinct(t)
           /\ NamesOf(t) = (NamesOf(s) \ {s[k].username}) \cup {u.username}
           /\ AccountOf(t, u.username) = u
           /\ \A n \in NamesOf(s) \ {s[k].username} : AccountOf(t, n) = AccountOf(s, n)
<1>1. /\ t \in Seq(User) /\ Len(t) = Len(s)
      /\ \A i \in 1..Len(s) : t[i] = IF i = k THEN u ELSE s[i]
  BY DEF RewrittenAt
<1>2. \A i \in 1..Len(s) : i # k => s[i].username \in NamesOf(s) \ {s[k].username}
  BY DEF Distinct, NamesOf
<1>3. Distinct(t)
  BY <1>1, <1>2 DEF Distinct
<1>4. NamesOf(t) = (NamesOf(s) \ {s[k].username}) \cup {u.username}
  <2>1. ASSUME NEW i \in 1..Len(t)
        PROVE  t[i].username \in (NamesOf(s) \ {s[k].username}) \cup {u.username}
    BY <1>1, <1>2
  <2>2. ASSUME NEW i \in 1..Len(s), s[i].username # s[k].username PROVE s[i].username \in NamesOf(t)
    BY <1>1, <2>2 DEF NamesOf
  <2>3. u.username \in NamesOf(t)
    BY <1>1 DEF NamesOf
  <2>. QED BY <2>1, <2>2, <2>3 DEF NamesOf
<1>5. AccountOf(t, u.username) = u
  BY <1>1, <1>3, AccountIs
<1>6. ASSUME NEW n \in NamesOf(s) \ {s[k].username} PROVE AccountOf(t, n) = AccountOf(s, n)
  <2>1. PICK i \in 1..Len(s) : s[i].username = n
    BY DEF NamesOf
  <2>2. i # k /\ t[i] = s[i]
    BY <1>1, <2>1
  <2>. QED BY <1>1, <1>3, <2>1, <2>2, SameNode
<1>. QED BY <1>3, <1>4, <1>5, <1>6

----------------------------------------------------------------------------
\* What a call that succeeds does, said of the accounts instead of the
\* list: Becomes(m, u) writes the account u in place of the one of name m.
SameBut(S) == \A n \in NamesOf(users) \ S : AccountOf(users', n) = AccountOf(users, n)

Becomes(m, u) ==
    /\ Distinct(users')
    /\ NamesOf(users') = (NamesOf(users) \ {m}) \cup {u.username}
    /\ AccountOf(users', u.username) = u
    /\ SameBut({m, u.username})

\* A creation that succeeds adds an account that was not there, with an empty maildrop.
LEMMA CreateUserEffect ==
    ASSUME UMInv, Distinct(users), NEW n \in Names, NEW p \in Passwords, NEW max,
           CreateUser(n, p, max, "OK")
    PROVE  /\ n \notin NamesOf(users) /\ n \in ValidNames /\ p \in ValidPasswords
           /\ ~(userCount >= max) /\ drops[n] = NoDrop
           /\ Becomes(n, [username |-> n, password |-> p, locked |-> FALSE])
           /\ drops' = [drops EXCEPT ![n] = {}]
<1>. DEFINE u == [username |-> n, password |-> p, locked |-> FALSE]
<1>1. users \in Seq(User)
  BY DEF UMInv, UMTypeOK
<1>2. CreateUserResult(n, p, max) = "OK"
  BY DEF CreateUser, Faulty, CreateUserResult
<1>3. /\ IndexIn(users, n) = 0 /\ n \in ValidNames /\ p \in ValidPasswords
      /\ ~(userCount >= max) /\ drops[n] = NoDrop
  BY <1>2, GetUserIsIndex DEF CreateUserResult, DropExists
<1>4. n \notin NamesOf(users)
  BY <1>1, <1>3, AccountFound
<1>5. users' = Cons(u, users) /\ drops' = [drops EXCEPT ![n] = {}]
  BY DEF CreateUser
<1>6. u \in User /\ u.username = n
  BY DEF User
<1>. HIDE DEF u
<1>7. Becomes(n, u)
  BY <1>1, <1>4, <1>5, <1>6, ConsAccount DEF Becomes, SameBut
<1>. QED BY <1>3, <1>4, <1>5, <1>7 DEF u

\* A deletion that succeeds removes an account that is not locked, and its maildrop.
LEMMA DeleteUserEffect ==
    ASSUME UMInv, Distinct(users), NEW n \in Names, DeleteUser(n, "OK")
    PROVE  /\ n \in NamesOf(users) /\ ~AccountOf(users, n).locked /\ drops[n] # NoDrop
           /\ Distinct(users') /\ NamesOf(users') = NamesOf(users) \ {n} /\ SameBut({n})
           /\ drops' = [drops EXCEPT ![n] = NoDrop]
<1>. DEFINE k == IndexIn(users, n)
<1>1. users \in Seq(User)
  BY DEF UMInv, UMTypeOK
<1>2. DeleteUserResult(n) = "OK"
  BY DEF DeleteUser, Faulty, DeleteUserResult
<1>3. k # 0 /\ ~users[k].locked /\ drops[n] # NoDrop
  BY <1>2, GetUserIsIndex DEF DeleteUserResult, DropExists
<1>4. n \in NamesOf(users) /\ k \in 1..Len(users) /\ users[k].username = n
  BY <1>1, <1>3, AccountFound DEF AccountOf
<1>5. users' = RemoveAt(users, k) /\ drops' = [drops EXCEPT ![n] = NoDrop]
  BY GetUserIsIndex DEF DeleteUser
<1>6. ~AccountOf(users, n).locked
  BY <1>3 DEF AccountOf
<1>. HIDE DEF k
<1>7. Distinct(users') /\ NamesOf(users') = NamesOf(users) \ {n} /\ SameBut({n})
  BY <1>1, <1>4, <1>5, RemoveAccount DEF SameBut
<1>. QED BY <1>3, <1>4, <1>5, <1>6, <1>7

\* A deletion that fails on the disk may have taken mails, not the
\* directory.
LEMMA DeleteUserPartly ==
    ASSUME UMInv, NEW n \in Names, NEW r, r # "OK", DeleteUser(n, r)
    PROVE  /\ UNCHANGED <<users, userCount>>
           /\ \/ drops' = drops
              \/ /\ r = "EIO" /\ DiskFaults
                 /\ n \in NamesOf(users) /\ ~AccountOf(users, n).locked /\ drops[n] # NoDrop
                 /\ \E left \in SUBSET drops[n] : drops' = [drops EXCEPT ![n] = left]
<1>1. CASE UNCHANGED umVars
  BY <1>1 DEF umVars
<1>2. CASE /\ r = "EIO" /\ DropExists(n)
           /\ \E left \in SUBSET drops[n] : drops' = [drops EXCEPT ![n] = left]
           /\ UNCHANGED <<users, userCount>>
  <2>1. DeleteUserResult(n) = "OK" /\ DiskFaults
    BY <1>2 DEF DeleteUser, Faulty, DeleteUserResult
  <2>2. IndexIn(users, n) # 0 /\ ~AccountOf(users, n).locked
    BY <2>1, GetUserIsIndex DEF DeleteUserResult, AccountOf
  <2>3. n \in NamesOf(users)
    BY <2>2, AccountFound DEF UMInv, UMTypeOK
  <2>. QED BY <1>2, <2>1, <2>2, <2>3 DEF DropExists
<1>. QED BY <1>1, <1>2 DEF DeleteUser

\* Writing an account under a name that is its own or free.
Writes(k, u) == users' = [users EXCEPT ![k] = u]

\* Writing a node changes the account of that node only.
LEMMA RewriteEffect ==
    ASSUME UMInv, Distinct(users), NEW n, GetUser(n) # 0, NEW u \in User,
           u.username \notin NamesOf(users) \ {n}, Writes(GetUser(n), u)
    PROVE  Becomes(n, u)
<1>. DEFINE k == IndexIn(users, n)
<1>1. users \in Seq(User) /\ GetUser(n) = k
  BY GetUserIsIndex DEF UMInv, UMTypeOK
<1>2. k \in 1..Len(users) /\ users[k].username = n
  BY <1>1, IndexFound
<1>3. users' = [users EXCEPT ![k] = u]
  BY <1>1 DEF Writes
<1>. HIDE DEF k
<1>4. RewrittenAt(users, users', k, u)
  BY <1>1, <1>2, <1>3, ExceptNode DEF RewrittenAt
<1>5. u.username \notin NamesOf(users) \ {users[k].username}
  BY <1>2
<1>6. /\ Distinct(users')
      /\ NamesOf(users') = (NamesOf(users) \ {users[k].username}) \cup {u.username}
      /\ AccountOf(users', u.username) = u
      /\ \A m \in NamesOf(users) \ {users[k].username} : AccountOf(users', m) = AccountOf(users, m)
  <2>. HIDE <1>3
  <2>. QED BY <1>1, <1>2, <1>4, <1>5, ReplaceAccount
<1>. QED BY <1>2, <1>6 DEF Becomes, SameBut

\* Setting the lock changes nothing else of the account.
LEMMA SetLockedAccount ==
    ASSUME UMInv, Distinct(users), NEW n, GetUser(n) # 0, NEW value \in BOOLEAN, SetLocked(n, value)
    PROVE  /\ n \in NamesOf(users) /\ AccountOf(users, n) \in User
           /\ AccountOf(users, n).username = n
           /\ Becomes(n, [AccountOf(users, n) EXCEPT !.locked = value])
<1>. DEFINE u == [AccountOf(users, n) EXCEPT !.locked = value]
<1>1. users \in Seq(User) /\ GetUser(n) = IndexIn(users, n)
  BY GetUserIsIndex DEF UMInv, UMTypeOK
<1>2. n \in NamesOf(users) /\ AccountOf(users, n) \in User /\ AccountOf(users, n).username = n
  BY <1>1, AccountFound
<1>3. u \in User /\ u.username = n
  BY <1>2 DEF User
<1>4. Writes(GetUser(n), u)
  BY <1>1 DEF SetLocked, AccountOf, Writes
<1>. HIDE DEF u
<1>5. Becomes(n, u)
  BY <1>3, <1>4, RewriteEffect
<1>. QED BY <1>2, <1>5 DEF u

\* A change of password changes nothing else of the account.
LEMMA ChangePasswordEffect ==
    ASSUME UMInv, Distinct(users), NEW n, NEW p \in Passwords, NEW r,
           ChangePassword(n, p, r), r # "ENOENT"
    PROVE  /\ Given(p, r) \in Passwords
           /\ n \in NamesOf(users) /\ AccountOf(users, n) \in User
           /\ AccountOf(users, n).username = n
           /\ Becomes(n, [AccountOf(users, n) EXCEPT !.password = Given(p, r)])
           /\ drops' = drops
<1>. DEFINE u == [AccountOf(users, n) EXCEPT !.password = Given(p, r)]
<1>1. users \in Seq(User) /\ GetUser(n) = IndexIn(users, n)
  BY GetUserIsIndex DEF UMInv, UMTypeOK
<1>2. /\ GetUser(n) # 0 /\ users' = [users EXCEPT ![GetUser(n)].password = Given(p, r)]
      /\ drops' = drops /\ Given(p, r) \in Passwords
  BY PasswordWritten
<1>3. n \in NamesOf(users) /\ AccountOf(users, n) \in User /\ AccountOf(users, n).username = n
  BY <1>1, <1>2, AccountFound
<1>4. u \in User /\ u.username = n
  BY <1>2, <1>3 DEF User
<1>5. Writes(GetUser(n), u)
  BY <1>1, <1>2 DEF AccountOf, Writes
<1>. HIDE DEF u
<1>6. Becomes(n, u)
  BY <1>2, <1>4, <1>5, RewriteEffect
<1>. QED BY <1>2, <1>3, <1>6 DEF u

\* The new name may be the old one; otherwise it has to be free for the
\* names to stay distinct.
LEMMA ChangeUsernameEffect ==
    ASSUME UMInv, Distinct(users), NEW old \in Names, NEW new \in Names,
           new = old \/ GetUser(new) = 0, ChangeUsername(old, new, "OK")
    PROVE  /\ old \in NamesOf(users) /\ (new \in NamesOf(users) => new = old)
           /\ AccountOf(users, old) \in User /\ AccountOf(users, old).username = old
           /\ Becomes(old, [AccountOf(users, old) EXCEPT !.username = new])
           /\ drops[old] # NoDrop /\ (new # old => drops[new] \in {NoDrop, {}})
           /\ drops' = [drops EXCEPT ![old] = NoDrop, ![new] = drops[old]]
<1>. DEFINE u == [AccountOf(users, old) EXCEPT !.username = new]
<1>1. users \in Seq(User) /\ \A n : GetUser(n) = IndexIn(users, n)
  BY GetUserIsIndex DEF UMInv, UMTypeOK
<1>2. ChangeUsernameResult(old, new) = "OK"
  BY DEF ChangeUsername, Faulty, ChangeUsernameResult
<1>3. /\ GetUser(old) # 0 /\ users' = [users EXCEPT ![GetUser(old)].username = new]
      /\ drops[old] # NoDrop /\ (new # old => drops[new] \in {NoDrop, {}})
      /\ drops' = [drops EXCEPT ![old] = NoDrop, ![new] = drops[old]]
  BY <1>2 DEF ChangeUsername, ChangeUsernameResult, DropExists
<1>4. old \in NamesOf(users) /\ AccountOf(users, old) \in User /\ AccountOf(users, old).username = old
  BY <1>1, <1>3, AccountFound
<1>5. new \in NamesOf(users) => new = old
  BY <1>1, AccountFound
<1>6. u \in User /\ u.username = new
  BY <1>4 DEF User
<1>7. Writes(GetUser(old), u)
  BY <1>1, <1>3 DEF AccountOf, Writes
<1>. HIDE DEF u
<1>8. Becomes(old, u)
  BY <1>3, <1>5, <1>6, <1>7, RewriteEffect
<1>. QED BY <1>3, <1>4, <1>5, <1>8 DEF u

----------------------------------------------------------------------------
\* Memory and disk agree on who has an account: every name once, and a
\* maildrop for each.  A call that succeeds keeps it so, and so does one
\* that fails.
Housed == \A n \in NamesOf(users) : drops[n] # NoDrop
SoundList == Distinct(users) /\ Housed

\* What is written in place of one account keeps its directory.
LEMMA BecomesSound ==
    ASSUME Housed, NEW m, NEW u \in User, Becomes(m, u), u.username = m, drops' = drops,
           m \in NamesOf(users)
    PROVE  SoundList'
BY DEF Housed, Becomes, SoundList

\* user_manager_create_user keeps names unique and accounts housed.
LEMMA CreateSound ==
    ASSUME UMInv, SoundList, NEW n \in Names, NEW p \in Passwords, NEW max, NEW r,
           CreateUser(n, p, max, r)
    PROVE  SoundList'
<1>. USE DEF SoundList
<1>1. CASE r = "OK"
  <2>1. /\ Becomes(n, [username |-> n, password |-> p, locked |-> FALSE])
        /\ drops' = [drops EXCEPT ![n] = {}]
    BY <1>1, CreateUserEffect
  <2>2. Distinct(users') /\ NamesOf(users') \subseteq NamesOf(users) \cup {n}
    BY <2>1 DEF Becomes
  <2>3. drops' \in [Names -> {NoDrop} \cup SUBSET Mails] /\ {} # NoDrop
    BY CreateUserKeeps, DropAssumption DEF UMInv, UMTypeOK
  <2>. QED BY <2>1, <2>2, <2>3 DEF Housed, UMInv, UMTypeOK
<1>2. CASE r # "OK"
  BY <1>2 DEF CreateUser, umVars, Housed
<1>. QED BY <1>1, <1>2

\* user_manager_delete_user does.
LEMMA DeleteSound ==
    ASSUME UMInv, SoundList, NEW n \in Names, NEW r, DeleteUser(n, r)
    PROVE  SoundList'
<1>. USE DEF SoundList, UMInv, UMTypeOK
<1>1. CASE r = "OK"
  <2>1. /\ drops' = [drops EXCEPT ![n] = NoDrop] /\ Distinct(users')
        /\ NamesOf(users') = NamesOf(users) \ {n}
    BY <1>1, DeleteUserEffect
  <2>. QED BY <2>1 DEF Housed
<1>2. CASE r # "OK"
  <2>1. /\ UNCHANGED <<users, userCount>>
        /\ \/ drops' = drops
           \/ /\ drops[n] # NoDrop
              /\ \E left \in SUBSET drops[n] : drops' = [drops EXCEPT ![n] = left]
    BY <1>2, DeleteUserPartly
  <2>2. CASE drops' = drops
    BY <2>1, <2>2 DEF Housed
  <2>3. CASE drops[n] # NoDrop /\ \E left \in SUBSET drops[n] : drops' = [drops EXCEPT ![n] = left]
    <3>1. drops[n] \in SUBSET Mails
      BY <2>3
    <3>2. PICK left \in SUBSET drops[n] : drops' = [drops EXCEPT ![n] = left]
      BY <2>3
    <3>3. left # NoDrop
      BY <3>1, DropAssumption
    <3>. QED BY <2>1, <3>2, <3>3 DEF Housed
  <2>. QED BY <2>1, <2>2, <2>3
<1>. QED BY <1>1, <1>2

\* Setting a lock does.
LEMMA LockSound ==
    ASSUME UMInv, SoundList, NEW n, GetUser(n) # 0, NEW value \in BOOLEAN,
           SetLocked(n, value), drops' = drops
    PROVE  SoundList'
<1>. DEFINE u == [AccountOf(users, n) EXCEPT !.locked = value]
<1>1. /\ n \in NamesOf(users) /\ AccountOf(users, n) \in User
      /\ AccountOf(users, n).username = n /\ Becomes(n, u)
  BY SetLockedAccount DEF SoundList
<1>2. u \in User /\ u.username = n
  BY <1>1 DEF User
<1>. HIDE DEF u
<1>. QED BY <1>1, <1>2, BecomesSound DEF SoundList

\* user_manager_login does.
LEMMA LoginSound ==
    ASSUME UMInv, SoundList, NEW n \in Names, NEW p, NEW r, Login(n, p, r)
    PROVE  SoundList'
<1>1. CASE r = "OK"
  <2>1. GetUser(n) # 0 /\ SetLocked(n, TRUE) /\ drops' = drops
    BY <1>1 DEF Login, LoginResult
  <2>. QED BY <2>1, LockSound
<1>2. CASE r # "OK"
  BY <1>2 DEF Login, SoundList, Housed
<1>. QED BY <1>1, <1>2

\* user_manager_logout does.
LEMMA LogoutSound ==
    ASSUME UMInv, SoundList, NEW n \in Names, NEW r, Logout(n, r)
    PROVE  SoundList'
<1>1. CASE r = "OK"
  <2>1. GetUser(n) # 0 /\ SetLocked(n, FALSE) /\ drops' = drops
    BY <1>1 DEF Logout, LogoutResult
  <2>. QED BY <2>1, LockSound
<1>2. CASE r # "OK"
  BY <1>2 DEF Logout, SoundList, Housed
<1>. QED BY <1>1, <1>2

\* user_manager_change_password does.
LEMMA PasswordSound ==
    ASSUME UMInv, SoundList, NEW n \in Names, NEW p \in Passwords, NEW r, ChangePassword(n, p, r)
    PROVE  SoundList'
<1>1. CASE r # "ENOENT"
  <2>. DEFINE u == [AccountOf(users, n) EXCEPT !.password = Given(p, r)]
  <2>1. /\ Given(p, r) \in Passwords
        /\ n \in NamesOf(users) /\ AccountOf(users, n) \in User
        /\ AccountOf(users, n).username = n /\ Becomes(n, u) /\ drops' = drops
    BY <1>1, ChangePasswordEffect DEF SoundList
  <2>2. u \in User /\ u.username = n
    BY <2>1 DEF User
  <2>. HIDE DEF u
  <2>. QED BY <2>1, <2>2, BecomesSound DEF SoundList
<1>2. CASE r = "ENOENT"
  BY <1>2 DEF ChangePassword, SoundList, Housed
<1>. QED BY <1>1, <1>2

\* The names in a list are names.
LEMMA NamesAreNames ==
    ASSUME NEW s \in Seq(User)
    PROVE  NamesOf(s) \subseteq Names
<1>1. \A i \in 1..Len(s) : s[i] \in User
  OBVIOUS
<1>. QED BY <1>1 DEF NamesOf, User

\* user_manager_change_username does, as long as it takes no name in use.
LEMMA UsernameSound ==
    ASSUME UMInv, SoundList, NEW old \in Names, NEW new \in Names, NEW r,
           new = old \/ GetUser(new) = 0, ChangeUsername(old, new, r)
    PROVE  SoundList'
<1>1. CASE r = "OK"
  <2>. DEFINE u == [AccountOf(users, old) EXCEPT !.username = new]
  <2>1. /\ Becomes(old, u) /\ AccountOf(users, old) \in User
        /\ drops[old] # NoDrop /\ drops' = [drops EXCEPT ![old] = NoDrop, ![new] = drops[old]]
    BY <1>1, ChangeUsernameEffect DEF SoundList
  <2>2. u.username = new
    BY <2>1 DEF User
  <2>. HIDE DEF u
  <2>3. Distinct(users') /\ NamesOf(users') = (NamesOf(users) \ {old}) \cup {new}
    BY <2>1, <2>2 DEF Becomes
  <2>4. \A n \in Names : drops'[n] = IF n = new THEN drops[old]
                                       ELSE IF n = old THEN NoDrop ELSE drops[n]
    BY <2>1 DEF UMInv, UMTypeOK
  <2>5. NamesOf(users) \subseteq Names
    BY NamesAreNames DEF UMInv, UMTypeOK
  <2>. QED BY <2>1, <2>3, <2>4, <2>5 DEF SoundList, Housed
<1>2. CASE r # "OK"
  BY <1>2 DEF ChangeUsername, SoundList, Housed
<1>. QED BY <1>1, <1>2
=============================================================================
