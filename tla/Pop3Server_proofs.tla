-------------------------- MODULE Pop3Server_proofs ------------------------
(***************************************************************************)
(* Theorems about Pop3Server, for any number of connections, accounts and  *)
(* mails: its types; and, as long as no account is renamed, that an open   *)
(* maildrop has one session, that the session owns the lock, and that its  *)
(* mails stay where they are.                                              *)
(***************************************************************************)
EXTENDS Pop3Server, UserManager_proofs, FiniteSetTheorems

\* A session that has passed AUTHORIZATION has a message manager.
SessionHasManager == \A c \in Connections : InSession(c) => manager[c] \in Manager

TypeInv == TypeOK /\ userCount = Len(users) /\ SessionHasManager

\* The types hold at the start.
LEMMA TypeInvInit == Init => TypeInv
BY InitAssumption, LimitAssumption
   DEF Init, TypeInv, TypeOK, UMTypeOK, MonitorInit, SessionHasManager, InSession, Phases

\* Closing a connection keeps them.
LEMMA CloseKeepsTypes ==
    ASSUME TypeInv, NEW c \in Connections, Close(c)
    PROVE  TypeInv'
<1>1. UMInv'
  <2>1. CASE authenticated[c]
    BY <2>1, LogoutKeeps DEF Close, TypeInv, TypeOK, UMInv
  <2>2. CASE ~authenticated[c]
    BY <2>2 DEF Close, TypeInv, TypeOK, UMInv, UMTypeOK, umVars
  <2>. QED BY <2>1, <2>2
<1>2. currentConns' \in Nat
  BY DEF Close, RemoveConnection, TypeInv, TypeOK
<1>. QED BY <1>1, <1>2 DEF Close, TypeInv, TypeOK, UMInv, SessionHasManager, InSession, Phases

\* Every step keeps them.
LEMMA TypeInvNext == TypeInv /\ [Next]_vars => TypeInv'
<1>. SUFFICES ASSUME TypeInv, [Next]_vars PROVE TypeInv'
  OBVIOUS
<1>. USE DEF TypeInv, TypeOK, SessionHasManager, InSession, Phases
<1>u. UMInv
  BY DEF UMInv
<1>1. ASSUME NEW c \in Connections, Accept(c) PROVE TypeInv'
  BY <1>1 DEF Accept, AddConnection, umVars, UMTypeOK
<1>2. ASSUME NEW c \in Connections, GreetingSent(c) PROVE TypeInv'
  BY <1>2 DEF GreetingSent, umVars, monitorVars, UMTypeOK
<1>3. ASSUME NEW c \in Connections, Disconnect(c) PROVE TypeInv'
  BY <1>3, CloseKeepsTypes DEF Disconnect
<1>4. ASSUME NEW c \in Connections, NEW n \in ArgNames, UserCommand(c, n) PROVE TypeInv'
  BY <1>4, ArgAssumption DEF UserCommand, umVars, monitorVars, UMTypeOK
<1>5. ASSUME NEW c \in Connections, NEW p \in ArgPasswords, PassRefused(c, p) PROVE TypeInv'
  <2>1. UMInv'
    BY <1>u, <1>5, LoginKeeps DEF PassRefused
  <2>. QED BY <1>5, <2>1 DEF PassRefused, UMInv, monitorVars
<1>6. ASSUME NEW c \in Connections, NEW p \in ArgPasswords, PassAccepted(c, p) PROVE TypeInv'
  <2>1. UMInv'
    BY <1>u, <1>6, LoginKeeps DEF PassAccepted
  <2>2. user[c] \in Names /\ drops[user[c]] \in SUBSET Mails
    BY <1>6 DEF PassAccepted, DropExists, UMTypeOK
  <2>3. [path |-> user[c], messages |-> drops[user[c]], marked |-> {}] \in Manager
    BY <2>2 DEF Manager
  <2>. QED BY <1>6, <2>1, <2>2, <2>3 DEF PassAccepted, UMInv, AddLog
<1>7. ASSUME NEW c \in Connections, NEW p \in ArgPasswords, PassWithoutMaildrop(c, p) PROVE TypeInv'
  <2>1. UMInv'
    BY <1>u, <1>7, LoginKeeps DEF PassWithoutMaildrop
  <2>2. currentConns' \in Nat
    BY <1>7 DEF PassWithoutMaildrop, RemoveConnection
  <2>. QED BY <1>7, <2>1, <2>2 DEF PassWithoutMaildrop, UMInv
<1>8. ASSUME NEW c \in Connections, NEW p \in ArgPasswords, PassUnlogged(c, p) PROVE TypeInv'
  BY <1>8, CloseKeepsTypes DEF PassUnlogged
<1>9. ASSUME NEW c \in Connections, QuitAuthorization(c) PROVE TypeInv'
  BY <1>9, CloseKeepsTypes DEF QuitAuthorization
<1>10. ASSUME NEW c \in Connections, NEW m \in Mails, Dele(c, m) PROVE TypeInv'
  <2>1. manager[c] \in Manager
    BY <1>10 DEF Dele
  <2>2. [manager[c] EXCEPT !.marked = @ \cup {m}] \in Manager
    BY <2>1 DEF Manager
  <2>. QED BY <1>10, <2>2 DEF Dele, umVars, monitorVars, UMTypeOK
<1>11. ASSUME NEW c \in Connections, Rset(c) PROVE TypeInv'
  <2>1. manager[c] \in Manager
    BY <1>11 DEF Rset
  <2>2. [manager[c] EXCEPT !.marked = {}] \in Manager
    BY <2>1 DEF Manager
  <2>. QED BY <1>11, <2>2 DEF Rset, umVars, monitorVars, UMTypeOK
<1>12. ASSUME NEW c \in Connections, QuitTransaction(c) PROVE TypeInv'
  <2>1. manager[c] \in Manager
    BY <1>12 DEF QuitTransaction
  <2>2. PICK gone : drops' = [drops EXCEPT ![manager[c].path] =
                                 IF DropExists(manager[c].path) THEN @ \ gone ELSE @]
    BY <1>12 DEF QuitTransaction, RemoveFiles
  <2>3. drops' \in [Names -> {NoDrop} \cup SUBSET Mails]
    BY <2>1, <2>2 DEF Manager, DropExists, UMTypeOK
  <2>. QED BY <1>12, <2>3 DEF QuitTransaction, monitorVars, UMTypeOK
<1>13. ASSUME NEW c \in Connections, UpdateSent(c) PROVE TypeInv'
  BY <1>13, CloseKeepsTypes DEF UpdateSent
<1>14. ASSUME NEW n \in Names, NEW p \in Passwords, HandleAdduser(n, p) PROVE TypeInv'
  <2>1. UMInv'
    BY <1>u, <1>14, CreateUserKeeps DEF HandleAdduser
  <2>. QED BY <1>14, <2>1 DEF HandleAdduser, UMInv, monitorVars, clientVars
<1>15. ASSUME NEW n \in Names, NEW p \in Passwords, HandleUpdatepass(n, p) PROVE TypeInv'
  <2>1. UMInv'
    BY <1>u, <1>15, ChangePasswordKeeps DEF HandleUpdatepass
  <2>. QED BY <1>15, <2>1 DEF HandleUpdatepass, UMInv, monitorVars, clientVars
<1>16. ASSUME NEW n \in Names, HandleDeluser(n) PROVE TypeInv'
  <2>1. UMInv'
    BY <1>u, <1>16, DeleteUserKeeps DEF HandleDeluser
  <2>. QED BY <1>16, <2>1 DEF HandleDeluser, UMInv, monitorVars, clientVars
<1>17. ASSUME NEW old \in Names, NEW new \in Names, HandleUpdatename(old, new) PROVE TypeInv'
  <2>1. UMInv'
    BY <1>u, <1>17, ChangeUsernameKeeps DEF HandleUpdatename
  <2>. QED BY <1>17, <2>1 DEF HandleUpdatename, UMInv, monitorVars, clientVars
<1>18. ASSUME NEW k \in Limits, HandleMaxusers(k) \/ HandleMaxconns(k) PROVE TypeInv'
  BY <1>18, LimitAssumption
     DEF HandleMaxusers, HandleMaxconns, SetMaxUsers, SetMaxConns, umVars, clientVars, UMTypeOK
<1>19. ASSUME NEW n \in Names, NEW m \in Mails, Deliver(n, m) PROVE TypeInv'
  BY <1>19 DEF Deliver, DropExists, monitorVars, clientVars, UMTypeOK
<1>20. CASE UNCHANGED vars
  BY <1>20 DEF vars, umVars, monitorVars, clientVars, UMTypeOK
<1>. QED
  BY <1>1, <1>2, <1>3, <1>4, <1>5, <1>6, <1>7, <1>8, <1>9, <1>10, <1>11, <1>12, <1>13, <1>14,
     <1>15, <1>16, <1>17, <1>18, <1>19, <1>20
     DEF Next, Session, Administrator

\* Whatever its users and its administrator do, the server's state keeps
\* its types.
THEOREM TypeCorrect == Spec => []TypeOK
<1>1. TypeInv => TypeOK
  BY DEF TypeInv
<1>. QED BY TypeInvInit, TypeInvNext, <1>1, PTL DEF Spec

----------------------------------------------------------------------------
\* A session owns the lock of the account it is logged in to, and no two
\* sessions are logged in to the same account.  Logging out unlocks by
\* name, which is why authenticated may be true in a session only.
SessionsOwnLocks ==
    \A c \in Connections :
        /\ authenticated[c] <=> InSession(c)
        /\ InSession(c) => manager[c].path = user[c] /\ Locked(users, user[c])

SessionsApart ==
    \A c, d \in Connections : InSession(c) /\ InSession(d) /\ user[c] = user[d] => c = d

LockInv == SessionsOwnLocks /\ SessionsApart

\* A rename takes an account from under its session: what follows holds in
\* servers whose administrator does not use UPDATENAME.
NeverRenamed == "UPDATENAME" \notin AdminCommands

\* No session is open at the start.
LEMMA LockInvInit == Init => LockInv
BY DEF Init, LockInv, SessionsOwnLocks, SessionsApart, InSession

\* A step that leaves the connections as they are and unlocks nobody.
LEMMA LockInvFrame ==
    ASSUME LockInv, LocksKept, UNCHANGED clientVars
    PROVE  LockInv'
BY DEF LockInv, LocksKept, SessionsOwnLocks, SessionsApart, InSession, clientVars

\* A connection that ends releases the lock it owns and no other.
LEMMA CloseKeepsLocks ==
    ASSUME TypeInv, LockInv, NEW c \in Connections, Close(c)
    PROVE  LockInv'
<1>. USE DEF TypeInv, TypeOK, LockInv, SessionsOwnLocks, SessionsApart, InSession
<1>1. ASSUME NEW d \in Connections, d # c, InSession(d)
      PROVE  Locked(users', user[d])
  <2>1. CASE authenticated[c]
    <3>1. user[c] # user[d]
      BY <1>1, <2>1
    <3>2. UMInv
      BY DEF UMInv
    <3>. QED BY <1>1, <2>1, <3>1, <3>2, LogoutKeeps DEF Close
  <2>2. CASE ~authenticated[c]
    BY <1>1, <2>2 DEF Close, umVars
  <2>. QED BY <2>1, <2>2
<1>2. /\ phase' = [phase EXCEPT ![c] = "FREE"]
      /\ user' = [user EXCEPT ![c] = NoUser]
      /\ authenticated' = [authenticated EXCEPT ![c] = FALSE]
      /\ manager' = [manager EXCEPT ![c] = NoManager]
  BY DEF Close
<1>3. ASSUME NEW d \in Connections
      PROVE  /\ authenticated'[d] <=> InSession(d)'
             /\ InSession(d)' => d # c /\ InSession(d)
             /\ d # c => user'[d] = user[d] /\ manager'[d] = manager[d]
  BY <1>2
<1>4. SessionsOwnLocks'
  BY <1>1, <1>3
<1>5. SessionsApart'
  BY <1>3
<1>. QED BY <1>4, <1>5

\* Every step keeps sessions and locks together.
LEMMA LockInvNext == NeverRenamed /\ TypeInv /\ LockInv /\ [Next]_vars => LockInv'
<1>. SUFFICES ASSUME NeverRenamed, TypeInv, LockInv, [Next]_vars PROVE LockInv'
  OBVIOUS
<1>u. UMInv
  BY DEF TypeInv, TypeOK, UMInv
<1>t. /\ phase \in [Connections -> Phases]
      /\ user \in [Connections -> Names \cup {NoUser}]
      /\ authenticated \in [Connections -> BOOLEAN]
      /\ manager \in [Connections -> {NoManager} \cup Manager]
  BY DEF TypeInv, TypeOK
<1>. USE DEF LockInv, SessionsOwnLocks, SessionsApart, InSession
<1>1. ASSUME NEW c \in Connections, Accept(c) PROVE LockInv'
  BY <1>1, <1>t DEF Accept, umVars
<1>2. ASSUME NEW c \in Connections, GreetingSent(c) PROVE LockInv'
  BY <1>2, <1>t DEF GreetingSent, umVars
<1>3. ASSUME NEW c \in Connections, Disconnect(c) PROVE LockInv'
  BY <1>3, CloseKeepsLocks DEF Disconnect
<1>4. ASSUME NEW c \in Connections, NEW n \in ArgNames, UserCommand(c, n) PROVE LockInv'
  BY <1>4, <1>t DEF UserCommand, umVars
<1>5. ASSUME NEW c \in Connections, NEW p \in ArgPasswords, PassRefused(c, p) PROVE LockInv'
  <2>1. LocksKept
    BY <1>u, <1>5, LoginKeeps DEF PassRefused
  <2>. QED BY <1>5, <1>t, <2>1 DEF PassRefused, LocksKept
<1>6. ASSUME NEW c \in Connections, NEW p \in ArgPasswords, PassAccepted(c, p) PROVE LockInv'
  <2>1. LocksKept /\ ~Locked(users, user[c]) /\ Locked(users', user[c])
    BY <1>u, <1>6, LoginKeeps DEF PassAccepted
  <2>2. /\ phase' = [phase EXCEPT ![c] = "TRANSACTION"]
        /\ authenticated' = [authenticated EXCEPT ![c] = TRUE]
        /\ manager'[c].path = user[c] /\ user' = user
        /\ \A d \in Connections : d # c => manager'[d] = manager[d]
    BY <1>6, <1>t DEF PassAccepted
  <2>3. \A d \in Connections : InSession(d) => user[d] # user[c]
    BY <2>1
  <2>4. SessionsOwnLocks'
    BY <1>t, <2>1, <2>2 DEF LocksKept
  <2>5. SessionsApart'
    BY <1>t, <2>2, <2>3
  <2>. QED BY <2>4, <2>5
<1>7. ASSUME NEW c \in Connections, NEW p \in ArgPasswords, PassWithoutMaildrop(c, p) PROVE LockInv'
  <2>1. LocksKept
    BY <1>u, <1>7, LoginKeeps DEF PassWithoutMaildrop
  <2>. QED BY <1>7, <1>t, <2>1 DEF PassWithoutMaildrop, LocksKept
<1>8. ASSUME NEW c \in Connections, NEW p \in ArgPasswords, PassUnlogged(c, p) PROVE LockInv'
  BY <1>8, CloseKeepsLocks DEF PassUnlogged
<1>9. ASSUME NEW c \in Connections, QuitAuthorization(c) PROVE LockInv'
  BY <1>9, CloseKeepsLocks DEF QuitAuthorization
<1>10. ASSUME NEW c \in Connections, NEW m \in Mails, Dele(c, m) PROVE LockInv'
  <2>1. manager'[c].path = manager[c].path /\ \A d \in Connections : d # c => manager'[d] = manager[d]
    BY <1>10, <1>t DEF Dele, TypeInv, SessionHasManager, Manager
  <2>. QED BY <1>10, <2>1 DEF Dele, umVars
<1>11. ASSUME NEW c \in Connections, Rset(c) PROVE LockInv'
  <2>1. manager'[c].path = manager[c].path /\ \A d \in Connections : d # c => manager'[d] = manager[d]
    BY <1>11, <1>t DEF Rset, TypeInv, SessionHasManager, Manager
  <2>. QED BY <1>11, <2>1 DEF Rset, umVars
<1>12. ASSUME NEW c \in Connections, QuitTransaction(c) PROVE LockInv'
  BY <1>12, <1>t DEF QuitTransaction
<1>13. ASSUME NEW c \in Connections, UpdateSent(c) PROVE LockInv'
  BY <1>13, CloseKeepsLocks DEF UpdateSent
<1>14. ASSUME NEW n \in Names, NEW p \in Passwords, HandleAdduser(n, p) PROVE LockInv'
  BY <1>u, <1>14, CreateUserKeeps, LockInvFrame DEF HandleAdduser
<1>15. ASSUME NEW n \in Names, NEW p \in Passwords, HandleUpdatepass(n, p) PROVE LockInv'
  BY <1>u, <1>15, ChangePasswordKeeps, LockInvFrame DEF HandleUpdatepass
<1>16. ASSUME NEW n \in Names, HandleDeluser(n) PROVE LockInv'
  BY <1>u, <1>16, DeleteUserKeeps, LockInvFrame DEF HandleDeluser
<1>17. ASSUME NEW old \in Names, NEW new \in Names, HandleUpdatename(old, new) PROVE LockInv'
  BY <1>17 DEF HandleUpdatename, NeverRenamed
<1>18. ASSUME NEW k \in Limits, HandleMaxusers(k) \/ HandleMaxconns(k) PROVE LockInv'
  BY <1>18, LockInvFrame DEF HandleMaxusers, HandleMaxconns, umVars, LocksKept
<1>19. ASSUME NEW n \in Names, NEW m \in Mails, Deliver(n, m) PROVE LockInv'
  BY <1>19, LockInvFrame DEF Deliver, LocksKept
<1>20. CASE UNCHANGED vars
  BY <1>20, LockInvFrame DEF vars, umVars, LocksKept
<1>. QED
  BY <1>1, <1>2, <1>3, <1>4, <1>5, <1>6, <1>7, <1>8, <1>9, <1>10, <1>11, <1>12, <1>13, <1>14,
     <1>15, <1>16, <1>17, <1>18, <1>19, <1>20
     DEF Next, Session, Administrator

\* They always are, without renames.
LEMMA LockInvHolds == NeverRenamed => (Spec => [](TypeInv /\ LockInv))
<1>. SUFFICES ASSUME NeverRenamed PROVE Spec => [](TypeInv /\ LockInv)
  OBVIOUS
<1>1. Init => TypeInv /\ LockInv
  BY TypeInvInit, LockInvInit
<1>2. TypeInv /\ LockInv /\ [Next]_vars => (TypeInv /\ LockInv)'
  BY TypeInvNext, LockInvNext
<1>. QED BY <1>1, <1>2, PTL DEF Spec

\* A maildrop that is open in a session is open in no other.
THEOREM Exclusive == NeverRenamed => (Spec => []MaildropExclusive)
<1>. SUFFICES ASSUME NeverRenamed PROVE Spec => []MaildropExclusive
  OBVIOUS
<1>1. TypeInv /\ LockInv => MaildropExclusive
  BY DEF LockInv, SessionsOwnLocks, SessionsApart, MaildropExclusive
<1>. QED BY LockInvHolds, <1>1, PTL

\* A session owns the lock of the account whose maildrop it has open.
THEOREM LockHeld == NeverRenamed => (Spec => []SessionHoldsLock)
<1>. SUFFICES ASSUME NeverRenamed PROVE Spec => []SessionHoldsLock
  OBVIOUS
<1>1. TypeInv /\ LockInv => SessionHoldsLock
  BY GetUserIsIndex DEF LockInv, SessionsOwnLocks, SessionHoldsLock, Locked
<1>. QED BY LockInvHolds, <1>1, PTL

----------------------------------------------------------------------------
\* What one step may do to the maildrop under an open session.
KeepsDrop(c) ==
    InSession(c) /\ DropExists(manager[c].path) =>
        /\ drops'[manager[c].path] # NoDrop
        /\ drops[manager[c].path] \ drops'[manager[c].path] \subseteq
              IF phase[c] = "TRANSACTION" /\ phase'[c] = "UPDATE" THEN manager[c].marked ELSE {}

\* No step takes an open maildrop away.
LEMMA StepKeepsDrops ==
    NeverRenamed /\ TypeInv /\ LockInv /\ [Next]_vars => \A e \in Connections : KeepsDrop(e)
<1>. SUFFICES ASSUME NeverRenamed, TypeInv, LockInv, [Next]_vars, NEW e \in Connections,
                     InSession(e), DropExists(manager[e].path)
              PROVE  KeepsDrop(e)
  BY DEF KeepsDrop
<1>. DEFINE path == manager[e].path
<1>u. UMInv
  BY DEF TypeInv, TypeOK, UMInv
<1>p. path \in Names /\ path = user[e] /\ Locked(users, path)
  BY DEF TypeInv, SessionHasManager, Manager, LockInv, SessionsOwnLocks
<1>d. drops \in [Names -> {NoDrop} \cup SUBSET Mails]
  BY DEF TypeInv, TypeOK, UMTypeOK
<1>s. drops'[path] = drops[path] => KeepsDrop(e)
  BY DEF KeepsDrop, DropExists
<1>l. ASSUME NEW n, NEW r, Logout(n, r) PROVE KeepsDrop(e)
  BY <1>u, <1>s, <1>l, LogoutKeeps
<1>c. ASSUME NEW c \in Connections, Close(c) PROVE KeepsDrop(e)
  BY <1>s, <1>l, <1>c DEF Close, umVars
<1>1. ASSUME NEW c \in Connections, Accept(c) \/ GreetingSent(c) PROVE KeepsDrop(e)
  BY <1>s, <1>1 DEF Accept, GreetingSent, umVars
<1>2. ASSUME NEW c \in Connections, Disconnect(c) \/ QuitAuthorization(c) \/ UpdateSent(c)
      PROVE  KeepsDrop(e)
  BY <1>c, <1>2 DEF Disconnect, QuitAuthorization, UpdateSent
<1>3. ASSUME NEW c \in Connections, NEW n \in ArgNames, UserCommand(c, n) PROVE KeepsDrop(e)
  BY <1>s, <1>3 DEF UserCommand, umVars
<1>4. ASSUME NEW c \in Connections, NEW p \in ArgPasswords,
             PassRefused(c, p) \/ PassAccepted(c, p) \/ PassWithoutMaildrop(c, p)
      PROVE  KeepsDrop(e)
  BY <1>u, <1>s, <1>4, LoginKeeps DEF PassRefused, PassAccepted, PassWithoutMaildrop
<1>5. ASSUME NEW c \in Connections, NEW p \in ArgPasswords, PassUnlogged(c, p) PROVE KeepsDrop(e)
  BY <1>c, <1>5 DEF PassUnlogged
<1>6. ASSUME NEW c \in Connections, NEW m \in Mails, Dele(c, m) PROVE KeepsDrop(e)
  BY <1>s, <1>6 DEF Dele, umVars
<1>r. ASSUME NEW c \in Connections, Rset(c) PROVE KeepsDrop(e)
  BY <1>s, <1>r DEF Rset, umVars
<1>7. ASSUME NEW c \in Connections, QuitTransaction(c) PROVE KeepsDrop(e)
  <2>1. PICK kept : RemoveFiles(manager[c].path, manager[c].marked \ kept)
    BY <1>7 DEF QuitTransaction
  <2>2. CASE c = e
    <3>1. drops'[path] = drops[path] \ (manager[e].marked \ kept)
      BY <1>p, <1>d, <2>1, <2>2 DEF RemoveFiles
    <3>2. phase[e] = "TRANSACTION" /\ phase'[e] = "UPDATE"
      BY <1>7, <2>2 DEF QuitTransaction, TypeInv, TypeOK
    <3>3. drops[path] \in SUBSET Mails
      BY <1>p, <1>d DEF DropExists
    <3>4. drops'[path] # NoDrop
      BY <3>1, <3>3, DropAssumption
    <3>. QED BY <3>1, <3>2, <3>4 DEF KeepsDrop
  <2>3. CASE c # e
    <3>1. InSession(c) /\ manager[c].path = user[c] /\ user[c] # user[e]
      BY <1>7, <2>3 DEF QuitTransaction, InSession, LockInv, SessionsOwnLocks, SessionsApart
    <3>2. drops'[path] = drops[path]
      BY <1>p, <1>d, <2>1, <3>1 DEF RemoveFiles
    <3>. QED BY <1>s, <3>2
  <2>. QED BY <2>2, <2>3
<1>8. ASSUME NEW n \in Names, NEW p \in Passwords, HandleAdduser(n, p) PROVE KeepsDrop(e)
  BY <1>u, <1>p, <1>s, <1>8, CreateUserKeeps DEF HandleAdduser
<1>9. ASSUME NEW n \in Names, NEW p \in Passwords, HandleUpdatepass(n, p) PROVE KeepsDrop(e)
  BY <1>u, <1>s, <1>9, ChangePasswordKeeps DEF HandleUpdatepass
<1>10. ASSUME NEW n \in Names, HandleDeluser(n) PROVE KeepsDrop(e)
  BY <1>u, <1>p, <1>s, <1>10, DeleteUserKeeps DEF HandleDeluser
<1>11. ASSUME NEW old \in Names, NEW new \in Names, HandleUpdatename(old, new) PROVE KeepsDrop(e)
  BY <1>11 DEF HandleUpdatename, NeverRenamed
<1>12. ASSUME NEW k \in Limits, HandleMaxusers(k) \/ HandleMaxconns(k) PROVE KeepsDrop(e)
  BY <1>s, <1>12 DEF HandleMaxusers, HandleMaxconns, umVars
<1>13. ASSUME NEW n \in Names, NEW m \in Mails, Deliver(n, m) PROVE KeepsDrop(e)
  <2>1. drops[path] \in SUBSET Mails
    BY <1>p, <1>d DEF DropExists
  <2>2. drops'[path] \in SUBSET Mails /\ drops[path] \subseteq drops'[path]
    BY <1>13, <1>p, <1>d, <2>1 DEF Deliver
  <2>3. drops'[path] # NoDrop
    BY <2>2, DropAssumption
  <2>. QED BY <2>2, <2>3 DEF KeepsDrop
<1>14. CASE UNCHANGED vars
  BY <1>s, <1>14 DEF vars, umVars
<1>. QED
  BY <1>1, <1>2, <1>3, <1>4, <1>5, <1>6, <1>r, <1>7, <1>8, <1>9, <1>10, <1>11, <1>12, <1>13, <1>14
     DEF Next, Session, Administrator

\* No step takes a mail from under an open session but the session's QUIT,
\* and that takes marked mails only.
THEOREM OnlyQuitRemoves == NeverRenamed => (Spec => OnlyQuitRemovesMail)
<1>. DEFINE Lost ==
       \A c \in Connections : phase[c] = "TRANSACTION" =>
          LET before == drops[manager[c].path]
              after == drops'[manager[c].path]
              lost == manager[c].messages \cap (before \ after)
          IN before # NoDrop =>
                /\ after # NoDrop
                /\ lost \subseteq IF phase'[c] = "UPDATE" THEN manager[c].marked ELSE {}
<1>. SUFFICES ASSUME NeverRenamed PROVE Spec => [][Lost]_vars
  BY DEF OnlyQuitRemovesMail
<1>1. TypeInv /\ LockInv /\ [Next]_vars => Lost
  <2>. SUFFICES ASSUME TypeInv, LockInv, [Next]_vars, NEW c \in Connections,
                       phase[c] = "TRANSACTION", drops[manager[c].path] # NoDrop
                PROVE  /\ drops'[manager[c].path] # NoDrop
                       /\ manager[c].messages \cap (drops[manager[c].path] \ drops'[manager[c].path])
                            \subseteq IF phase'[c] = "UPDATE" THEN manager[c].marked ELSE {}
    OBVIOUS
  <2>1. KeepsDrop(c)
    BY StepKeepsDrops
  <2>. QED BY <2>1 DEF KeepsDrop, InSession, DropExists
<1>. HIDE DEF Lost
<1>. QED BY <1>1, LockInvHolds, PTL DEF Spec

\* A session is entered with a photograph of the maildrop as it is, and
\* keeps it; after QUIT the marks stay too.
Evolves(c) ==
    InSession(c)' =>
        \/ /\ ~InSession(c) /\ phase'[c] = "TRANSACTION"
           /\ DropExists(manager'[c].path) /\ drops' = drops
           /\ manager'[c].messages = drops[manager'[c].path]
        \/ /\ InSession(c)
           /\ manager'[c].path = manager[c].path
           /\ manager'[c].messages = manager[c].messages
           /\ phase[c] = "UPDATE" => phase'[c] = "UPDATE"
           /\ phase'[c] = "UPDATE" => manager'[c].marked = manager[c].marked

\* What a step may make of a session.
LEMMA SessionEvolves == TypeInv /\ [Next]_vars => \A e \in Connections : Evolves(e)
<1>. SUFFICES ASSUME TypeInv, [Next]_vars, NEW e \in Connections PROVE Evolves(e)
  OBVIOUS
<1>u. UMInv
  BY DEF TypeInv, TypeOK, UMInv
<1>t. /\ phase \in [Connections -> Phases]
      /\ manager \in [Connections -> {NoManager} \cup Manager]
      /\ InSession(e) => manager[e] \in Manager
  BY DEF TypeInv, TypeOK, SessionHasManager
<1>s. phase'[e] = phase[e] /\ manager'[e] = manager[e] => Evolves(e)
  BY DEF Evolves, InSession
<1>f. phase'[e] \notin {"TRANSACTION", "UPDATE"} => Evolves(e)
  BY DEF Evolves, InSession
<1>c. ASSUME NEW c \in Connections, Close(c) PROVE Evolves(e)
  BY <1>s, <1>f, <1>t, <1>c DEF Close
<1>1. ASSUME NEW c \in Connections, Accept(c) \/ GreetingSent(c) PROVE Evolves(e)
  BY <1>s, <1>f, <1>t, <1>1 DEF Accept, GreetingSent
<1>2. ASSUME NEW c \in Connections, Disconnect(c) \/ QuitAuthorization(c) \/ UpdateSent(c)
      PROVE  Evolves(e)
  BY <1>c, <1>2 DEF Disconnect, QuitAuthorization, UpdateSent
<1>3. ASSUME NEW c \in Connections, NEW n \in ArgNames, UserCommand(c, n) PROVE Evolves(e)
  BY <1>s, <1>3 DEF UserCommand
<1>4. ASSUME NEW c \in Connections, NEW p \in ArgPasswords, PassRefused(c, p) PROVE Evolves(e)
  BY <1>s, <1>4 DEF PassRefused
<1>5. ASSUME NEW c \in Connections, NEW p \in ArgPasswords, PassAccepted(c, p) PROVE Evolves(e)
  <2>1. CASE c = e
    <3>1. /\ manager'[e] = [path |-> user[e], messages |-> drops[user[e]], marked |-> {}]
          /\ phase'[e] = "TRANSACTION" /\ phase[e] = "AUTHORIZATION" /\ DropExists(user[e])
      BY <1>t, <1>5, <2>1 DEF PassAccepted
    <3>2. drops' = drops
      BY <1>u, <1>5, LoginKeeps DEF PassAccepted
    <3>. QED BY <3>1, <3>2 DEF Evolves, InSession, DropExists
  <2>2. CASE c # e
    BY <1>s, <1>t, <1>5, <2>2 DEF PassAccepted
  <2>. QED BY <2>1, <2>2
<1>6. ASSUME NEW c \in Connections, NEW p \in ArgPasswords, PassWithoutMaildrop(c, p) PROVE Evolves(e)
  BY <1>s, <1>f, <1>t, <1>6 DEF PassWithoutMaildrop
<1>7. ASSUME NEW c \in Connections, NEW p \in ArgPasswords, PassUnlogged(c, p) PROVE Evolves(e)
  BY <1>c, <1>7 DEF PassUnlogged
<1>8. ASSUME NEW c \in Connections, NEW m \in Mails, Dele(c, m) PROVE Evolves(e)
  BY <1>s, <1>t, <1>8 DEF Dele, Evolves, InSession, Manager
<1>9. ASSUME NEW c \in Connections, Rset(c) PROVE Evolves(e)
  BY <1>s, <1>t, <1>9 DEF Rset, Evolves, InSession, Manager
<1>10. ASSUME NEW c \in Connections, QuitTransaction(c) PROVE Evolves(e)
  BY <1>s, <1>t, <1>10 DEF QuitTransaction, Evolves, InSession
<1>11. ASSUME UNCHANGED clientVars PROVE Evolves(e)
  BY <1>s, <1>11 DEF clientVars
<1>12. Administrator => UNCHANGED clientVars
  BY DEF Administrator, HandleAdduser, HandleDeluser, HandleUpdatepass, HandleUpdatename,
         HandleMaxusers, HandleMaxconns
<1>13. (\E n \in Names, m \in Mails : Deliver(n, m)) \/ UNCHANGED vars => UNCHANGED clientVars
  BY DEF Deliver, vars
<1>. QED
  BY <1>1, <1>2, <1>3, <1>4, <1>5, <1>6, <1>7, <1>8, <1>9, <1>10, <1>11, <1>12, <1>13
     DEF Next, Session

\* No step takes a mail from under a session.
LEMMA MailsStayNext ==
    NeverRenamed /\ TypeInv /\ LockInv /\ SessionMailsStay /\ [Next]_vars => SessionMailsStay'
<1>. SUFFICES ASSUME NeverRenamed, TypeInv, LockInv, SessionMailsStay, [Next]_vars,
                     NEW c \in Connections, InSession(c)'
              PROVE  LET keeps == IF phase'[c] = "UPDATE"
                                  THEN manager'[c].messages \ manager'[c].marked
                                  ELSE manager'[c].messages
                     IN DropExists(manager[c].path)' /\ keeps \subseteq drops'[manager'[c].path]
  BY DEF SessionMailsStay
<1>1. Evolves(c) /\ KeepsDrop(c)
  BY SessionEvolves, StepKeepsDrops
<1>2. CASE ~InSession(c)
  BY <1>1, <1>2 DEF Evolves, DropExists
<1>3. CASE InSession(c)
  <2>. DEFINE before == drops[manager[c].path]
              after == drops'[manager[c].path]
  <2>1. DropExists(manager[c].path) /\ (phase[c] = "UPDATE" \/ phase[c] = "TRANSACTION")
    BY <1>3 DEF SessionMailsStay, InSession
  <2>2. after # NoDrop /\ before \ after \subseteq
           IF phase[c] = "TRANSACTION" /\ phase'[c] = "UPDATE" THEN manager[c].marked ELSE {}
    BY <1>1, <1>3, <2>1 DEF KeepsDrop
  <2>3. /\ manager'[c].path = manager[c].path
        /\ manager'[c].messages = manager[c].messages
        /\ phase[c] = "UPDATE" => phase'[c] = "UPDATE"
        /\ phase'[c] = "UPDATE" => manager'[c].marked = manager[c].marked
    BY <1>1, <1>3 DEF Evolves
  <2>4. (IF phase[c] = "UPDATE" THEN manager[c].messages \ manager[c].marked
                                ELSE manager[c].messages) \subseteq before
    BY <1>3 DEF SessionMailsStay
  <2>. QED BY <2>1, <2>2, <2>3, <2>4 DEF DropExists
<1>. QED BY <1>2, <1>3

\* What a session has photographed stays on disk until it quits, and what
\* it did not mark stays on disk after that.
THEOREM MailsStay == NeverRenamed => (Spec => []SessionMailsStay)
<1>. SUFFICES ASSUME NeverRenamed PROVE Spec => []SessionMailsStay
  OBVIOUS
<1>1. Init => SessionMailsStay
  BY DEF Init, SessionMailsStay, InSession
<1>. QED BY <1>1, MailsStayNext, LockInvHolds, PTL DEF Spec

----------------------------------------------------------------------------
\* Opening and closing a connection moves the counter by one, all other
\* steps leave it.
LEMMA StepCounts ==
    TypeInv /\ [Next]_vars =>
        \/ /\ currentConns' = currentConns + 1 /\ currentConns' <= maxConns
           /\ \E c \in Connections \ OpenConnections : OpenConnections' = OpenConnections \cup {c}
        \/ /\ RemoveConnection
           /\ \E c \in OpenConnections : OpenConnections' = OpenConnections \ {c}
        \/ currentConns' = currentConns /\ OpenConnections' = OpenConnections
<1>. DEFINE Opens == /\ currentConns' = currentConns + 1 /\ currentConns' <= maxConns
                     /\ \E c \in Connections \ OpenConnections :
                           OpenConnections' = OpenConnections \cup {c}
            Closes == /\ RemoveConnection
                      /\ \E c \in OpenConnections : OpenConnections' = OpenConnections \ {c}
            Stays == currentConns' = currentConns /\ OpenConnections' = OpenConnections
<1>. SUFFICES ASSUME TypeInv, [Next]_vars PROVE Opens \/ Closes \/ Stays
  OBVIOUS
<1>t. phase \in [Connections -> Phases] /\ currentConns \in Nat /\ maxConns \in Nat
  BY DEF TypeInv, TypeOK
<1>c. ASSUME NEW c \in Connections, phase[c] # "FREE", Close(c) PROVE Closes
  BY <1>t, <1>c DEF Close, OpenConnections
<1>1. ASSUME NEW c \in Connections, Accept(c) PROVE Opens
  BY <1>t, <1>1 DEF Accept, AddConnection, OpenConnections
<1>2. ASSUME NEW c \in Connections, Disconnect(c) \/ QuitAuthorization(c) \/ UpdateSent(c)
      PROVE  Closes
  BY <1>c, <1>2 DEF Disconnect, QuitAuthorization, UpdateSent
<1>3. ASSUME NEW c \in Connections, NEW p \in ArgPasswords, PassWithoutMaildrop(c, p) PROVE Closes
  BY <1>t, <1>3 DEF PassWithoutMaildrop, OpenConnections
<1>4. ASSUME NEW c \in Connections, NEW p \in ArgPasswords, PassUnlogged(c, p) PROVE Closes
  BY <1>c, <1>4 DEF PassUnlogged
<1>5. ASSUME NEW c \in Connections, GreetingSent(c) \/ QuitTransaction(c) PROVE Stays
  BY <1>t, <1>5 DEF GreetingSent, QuitTransaction, OpenConnections, monitorVars
<1>6. ASSUME NEW c \in Connections, NEW p \in ArgPasswords, PassAccepted(c, p) PROVE Stays
  BY <1>t, <1>6 DEF PassAccepted, OpenConnections
<1>7. ASSUME UNCHANGED <<phase, currentConns>> PROVE Stays
  BY <1>7 DEF OpenConnections
<1>8. ASSUME NEW c \in Connections,
             \/ \E n \in ArgNames : UserCommand(c, n)
             \/ \E p \in ArgPasswords : PassRefused(c, p)
             \/ \E m \in Mails : Dele(c, m)
             \/ Rset(c)
      PROVE  UNCHANGED <<phase, currentConns>>
  BY <1>8 DEF UserCommand, PassRefused, Dele, Rset, monitorVars
<1>9. Administrator => UNCHANGED <<phase, currentConns>>
  BY DEF Administrator, HandleAdduser, HandleDeluser, HandleUpdatepass, HandleUpdatename,
         HandleMaxusers, HandleMaxconns, SetMaxUsers, SetMaxConns, monitorVars, clientVars
<1>10. (\E n \in Names, m \in Mails : Deliver(n, m)) \/ UNCHANGED vars
          => UNCHANGED <<phase, currentConns>>
  BY DEF Deliver, vars, monitorVars, clientVars
<1>. HIDE DEF Opens, Closes, Stays
<1>. QED
  BY <1>1, <1>2, <1>3, <1>4, <1>5, <1>6, <1>7, <1>8, <1>9, <1>10 DEF Next, Session

\* The counter of open connections is exact, whichever way they end and
\* whatever becomes of the limit in the meantime.
THEOREM ConnectionsExact == IsFiniteSet(Connections) => (Spec => []ConnectionsCounted)
<1>. SUFFICES ASSUME IsFiniteSet(Connections) PROVE Spec => []ConnectionsCounted
  OBVIOUS
<1>1. Init => ConnectionsCounted
  <2>. SUFFICES ASSUME Init PROVE ConnectionsCounted
    OBVIOUS
  <2>1. OpenConnections = {} /\ currentConns = 0
    BY DEF Init, MonitorInit, OpenConnections
  <2>. QED BY <2>1, FS_EmptySet DEF ConnectionsCounted
<1>2. TypeInv /\ ConnectionsCounted /\ [Next]_vars => ConnectionsCounted'
  <2>. SUFFICES ASSUME TypeInv, ConnectionsCounted, [Next]_vars PROVE ConnectionsCounted'
    OBVIOUS
  <2>1. IsFiniteSet(OpenConnections) /\ currentConns = Cardinality(OpenConnections)
    BY FS_Subset DEF OpenConnections, ConnectionsCounted
  <2>2. ConnectionsCounted' <=> currentConns' = Cardinality(OpenConnections')
    BY DEF ConnectionsCounted
  <2>3. ASSUME NEW c \in Connections \ OpenConnections, OpenConnections' = OpenConnections \cup {c},
               currentConns' = currentConns + 1
        PROVE  ConnectionsCounted'
    BY <2>1, <2>2, <2>3, FS_AddElement
  <2>4. ASSUME NEW c \in OpenConnections, OpenConnections' = OpenConnections \ {c}, RemoveConnection
        PROVE  ConnectionsCounted'
    <3>1. currentConns # 0
      BY <2>1, <2>4, FS_EmptySet
    <3>2. currentConns' = currentConns - 1
      BY <2>4, <3>1 DEF RemoveConnection
    <3>. QED BY <2>1, <2>2, <2>4, <3>2, FS_RemoveElement
  <2>. QED BY <2>1, <2>2, <2>3, <2>4, StepCounts
<1>3. Spec => []TypeInv
  BY TypeInvInit, TypeInvNext, PTL DEF Spec
<1>. QED BY <1>1, <1>2, <1>3, PTL DEF Spec

\* No connection is let in above the limit of the moment, because the
\* counter that is compared with it is exact.
THEOREM LimitKept == IsFiniteSet(Connections) => (Spec => LimitRespected)
<1>. DEFINE Limited ==
        ~(OpenConnections' \subseteq OpenConnections) => Cardinality(OpenConnections') <= maxConns
<1>. SUFFICES ASSUME IsFiniteSet(Connections) PROVE Spec => [][Limited]_vars
  BY DEF LimitRespected
<1>1. TypeInv /\ ConnectionsCounted' /\ [Next]_vars => Limited
  <2>. SUFFICES ASSUME TypeInv, ConnectionsCounted', [Next]_vars,
                       ~(OpenConnections' \subseteq OpenConnections)
                PROVE  Cardinality(OpenConnections') <= maxConns
    OBVIOUS
  <2>1. currentConns' <= maxConns
    BY StepCounts
  <2>. QED BY <2>1 DEF ConnectionsCounted
<1>. HIDE DEF Limited
<1>2. Spec => []TypeInv
  BY TypeInvInit, TypeInvNext, PTL DEF Spec
<1>3. Spec => []ConnectionsCounted
  BY ConnectionsExact
<1>. QED BY <1>1, <1>2, <1>3, PTL DEF Spec

----------------------------------------------------------------------------
\* The account of that name is the one, and it is locked.
LEMMA LockedIs ==
    ASSUME NEW s \in Seq(User)
    PROVE  \A n : Locked(s, n) <=> n \in NamesOf(s) /\ AccountOf(s, n).locked
BY AccountFound DEF Locked, AccountOf

\* A call that locks nobody.
LocksOnly(S) == \A n : Locked(users', n) => n \in S \/ Locked(users, n)

\* Rewriting an account opens or closes that account's lock only.
LEMMA BecomesLocks ==
    ASSUME UMInv, UMInv', NEW m, NEW u, Becomes(m, u)
    PROVE  \A n : Locked(users', n) => \/ n = u.username /\ u.locked
                                       \/ n # m /\ n # u.username /\ Locked(users, n)
<1>. SUFFICES ASSUME NEW n, Locked(users', n)
              PROVE  \/ n = u.username /\ u.locked
                     \/ n # m /\ n # u.username /\ Locked(users, n)
  OBVIOUS
<1>1. users \in Seq(User) /\ users' \in Seq(User)
  BY DEF UMInv, UMTypeOK
<1>2. n \in NamesOf(users') /\ AccountOf(users', n).locked
  BY <1>1, LockedIs
<1>. QED BY <1>1, <1>2, LockedIs DEF Becomes, SameBut

\* Only a login locks, and only the account it names; a logout leaves it
\* unlocked.
LEMMA CallsLockNobody ==
    ASSUME UMInv, SoundList, NEW n \in Names, NEW r
    PROVE  /\ \A max : \A p \in Passwords : CreateUser(n, p, max, r) => LocksOnly({})
           /\ DeleteUser(n, r) => LocksOnly({})
           /\ \A p \in Passwords : ChangePassword(n, p, r) => LocksOnly({})
           /\ \A p : Login(n, p, r) => LocksOnly({n})
           /\ Logout(n, r) => /\ \A m : Locked(users', m) => Locked(users, m) /\ m # n
<1>0. users \in Seq(User)
  BY DEF UMInv, UMTypeOK
<1>. USE DEF LocksOnly, SoundList
<1>1. ASSUME NEW p \in Passwords, NEW max, CreateUser(n, p, max, r) PROVE LocksOnly({})
  <2>1. CASE r = "OK"
    <3>. DEFINE u == [username |-> n, password |-> p, locked |-> FALSE]
    <3>1. Becomes(n, u) /\ UMInv'
      BY <1>1, <2>1, CreateUserEffect, CreateUserKeeps
    <3>2. ~u.locked
      OBVIOUS
    <3>. HIDE DEF u
    <3>. QED BY <3>1, <3>2, BecomesLocks
  <2>2. CASE r # "OK"
    BY <1>1, <2>2 DEF CreateUser, umVars
  <2>. QED BY <2>1, <2>2
<1>2. ASSUME DeleteUser(n, r) PROVE LocksOnly({})
  <2>1. CASE r = "OK"
    <3>1. NamesOf(users') = NamesOf(users) \ {n} /\ SameBut({n}) /\ UMInv'
      BY <1>2, <2>1, DeleteUserEffect, DeleteUserKeeps
    <3>2. users' \in Seq(User)
      BY <3>1 DEF UMInv, UMTypeOK
    <3>. QED BY <1>0, <3>1, <3>2, LockedIs DEF SameBut
  <2>2. CASE r # "OK"
    BY <1>2, <2>2, DeleteUserPartly
  <2>. QED BY <2>1, <2>2
<1>3. ASSUME NEW p \in Passwords, ChangePassword(n, p, r) PROVE LocksOnly({})
  <2>1. CASE r # "ENOENT"
    <3>. DEFINE u == [AccountOf(users, n) EXCEPT !.password = Given(p, r)]
    <3>1. /\ Becomes(n, u) /\ UMInv' /\ n \in NamesOf(users) /\ Given(p, r) \in Passwords
          /\ AccountOf(users, n) \in User /\ AccountOf(users, n).username = n
      BY <1>3, <2>1, ChangePasswordEffect, ChangePasswordKeeps
    <3>2. u.username = n /\ u.locked = AccountOf(users, n).locked
      BY <3>1 DEF User
    <3>. HIDE DEF u
    <3>. QED BY <1>0, <3>1, <3>2, BecomesLocks, LockedIs
  <2>2. CASE r = "ENOENT"
    BY <1>3, <2>2 DEF ChangePassword
  <2>. QED BY <2>1, <2>2
<1>4. ASSUME NEW p, Login(n, p, r) PROVE LocksOnly({n})
  <2>1. CASE r = "OK"
    <3>1. GetUser(n) # 0 /\ SetLocked(n, TRUE)
      BY <1>4, <2>1 DEF Login, LoginResult
    <3>. QED BY <3>1, SetLockedEffect
  <2>2. CASE r # "OK"
    BY <1>4, <2>2 DEF Login
  <2>. QED BY <2>1, <2>2
<1>5. ASSUME Logout(n, r), NEW m, Locked(users', m) PROVE Locked(users, m) /\ m # n
  <2>1. CASE r = "OK"
    <3>1. GetUser(n) # 0 /\ SetLocked(n, FALSE)
      BY <1>5, <2>1 DEF Logout, LogoutResult
    <3>. QED BY <1>5, <3>1, SetLockedEffect
  <2>2. CASE r # "OK"
    BY <1>5, <2>2, GetUserIsIndex DEF Logout, LogoutResult, Locked
  <2>. QED BY <2>1, <2>2
<1>. QED BY <1>1, <1>2, <1>3, <1>4, <1>5

----------------------------------------------------------------------------
\* The converse of SessionHoldsLock: whoever is locked is in a session.  A
\* login that cannot open its maildrop breaks it, so every account has to
\* have one, and opening it has to succeed.
LocksOwned == \A n : Locked(users, n) => \E c \in Connections : InSession(c) /\ user[c] = n

OwnedInv == SoundList /\ LocksOwned

\* No account is locked at the start.
LEMMA OwnedInvInit == SoundStart /\ Init => OwnedInv
<1>. SUFFICES ASSUME SoundStart, Init PROVE OwnedInv
  OBVIOUS
<1>1. users \in Seq(User) /\ \A i \in DOMAIN users : ~users[i].locked
  BY InitAssumption DEF Init
<1>2. DOMAIN users = 1..Len(users)
  BY <1>1
<1>3. SoundList
  BY <1>2 DEF SoundStart, Init, SoundList, Distinct, Housed, NamesOf
<1>4. LocksOwned
  BY <1>1, <1>2, IndexFound DEF LocksOwned, Locked
<1>. QED BY <1>3, <1>4 DEF OwnedInv

\* A step that locks nothing and ends no session keeps every lock owned.
LEMMA OwnedFrame ==
    ASSUME OwnedInv, SoundList', LocksOnly({}),
           \A c \in Connections : InSession(c) => InSession(c)' /\ user'[c] = user[c]
    PROVE  OwnedInv'
BY DEF OwnedInv, LocksOwned, LocksOnly, InSession

\* A session that ends opens its lock.
LEMMA CloseOwned ==
    ASSUME TypeInv, LockInv, OwnedInv, NEW c \in Connections, Close(c)
    PROVE  OwnedInv'
<1>u. UMInv
  BY DEF TypeInv, TypeOK, UMInv
<1>t. /\ phase \in [Connections -> Phases]
      /\ user \in [Connections -> Names \cup {NoUser}]
      /\ authenticated \in [Connections -> BOOLEAN]
  BY DEF TypeInv, TypeOK
<1>d. \A d \in Connections : d # c => (InSession(d)' <=> InSession(d)) /\ user'[d] = user[d]
  BY <1>t DEF Close, InSession
<1>1. CASE authenticated[c]
  <2>1. InSession(c) /\ user[c] \in Names
    BY <1>1, IndexFound DEF LockInv, SessionsOwnLocks, TypeInv, TypeOK, SessionHasManager, Manager
  <2>2. PICK r : Logout(user[c], r)
    BY <1>1 DEF Close
  <2>3. SoundList'
    BY <1>u, <2>1, <2>2, LogoutSound DEF OwnedInv
  <2>4. \A m : Locked(users', m) => Locked(users, m) /\ m # user[c]
    BY <1>u, <2>1, <2>2, CallsLockNobody DEF OwnedInv
  <2>5. LocksOwned'
    BY <1>d, <2>4 DEF OwnedInv, LocksOwned, InSession
  <2>. QED BY <2>3, <2>5 DEF OwnedInv
<1>2. CASE ~authenticated[c]
  <2>1. ~InSession(c) /\ UNCHANGED umVars
    BY <1>2 DEF Close, LockInv, SessionsOwnLocks
  <2>2. LocksOnly({}) /\ SoundList'
    BY <2>1 DEF umVars, LocksOnly, OwnedInv, SoundList, Housed
  <2>. QED BY <1>d, <2>1, <2>2, OwnedFrame DEF InSession
<1>. QED BY <1>1, <1>2

\* Every step keeps every lock owned, where every maildrop opens.
LEMMA OwnedInvNext ==
    ~OpenFaults /\ NeverRenamed /\ TypeInv /\ LockInv /\ OwnedInv /\ [Next]_vars => OwnedInv'
<1>. SUFFICES ASSUME ~OpenFaults, NeverRenamed, TypeInv, LockInv, OwnedInv, [Next]_vars PROVE OwnedInv'
  OBVIOUS
<1>u. UMInv
  BY DEF TypeInv, TypeOK, UMInv
<1>t. /\ phase \in [Connections -> Phases]
      /\ user \in [Connections -> Names \cup {NoUser}]
      /\ authenticated \in [Connections -> BOOLEAN]
      /\ manager \in [Connections -> {NoManager} \cup Manager]
      /\ drops \in [Names -> {NoDrop} \cup SUBSET Mails]
  BY DEF TypeInv, TypeOK, UMTypeOK
<1>s. SoundList /\ LocksOwned
  BY DEF OwnedInv
<1>l. UNCHANGED users => LocksOnly({})
  BY DEF LocksOnly
<1>m. UNCHANGED umVars => SoundList' /\ LocksOnly({})
  BY <1>s, <1>l DEF umVars, SoundList, Housed
<1>1. ASSUME NEW c \in Connections, Accept(c) \/ GreetingSent(c) PROVE OwnedInv'
  BY <1>1, <1>t, <1>m, OwnedFrame DEF Accept, GreetingSent, InSession
<1>2. ASSUME NEW c \in Connections, Disconnect(c) \/ QuitAuthorization(c) \/ UpdateSent(c)
      PROVE  OwnedInv'
  BY <1>2, CloseOwned DEF Disconnect, QuitAuthorization, UpdateSent
<1>3. ASSUME NEW c \in Connections, NEW n \in ArgNames, UserCommand(c, n) PROVE OwnedInv'
  BY <1>3, <1>t, <1>m, OwnedFrame DEF UserCommand, InSession
<1>4. ASSUME NEW c \in Connections, NEW p \in ArgPasswords, PassRefused(c, p) PROVE OwnedInv'
  <2>1. UNCHANGED umVars
    BY <1>4 DEF PassRefused, Login, umVars
  <2>. QED BY <1>4, <1>t, <1>m, <2>1, OwnedFrame DEF PassRefused, InSession
<1>5. ASSUME NEW c \in Connections, NEW p \in ArgPasswords, PassAccepted(c, p) PROVE OwnedInv'
  <2>1. Login(user[c], p, "OK") /\ user[c] \in Names
    BY <1>5, <1>t DEF PassAccepted
  <2>2. SoundList' /\ LocksOnly({user[c]})
    BY <1>u, <1>s, <2>1, LoginSound, CallsLockNobody
  <2>3. InSession(c)' /\ user' = user /\ \A d \in Connections : InSession(d) => InSession(d)'
    BY <1>5, <1>t DEF PassAccepted, InSession
  <2>. QED BY <1>s, <2>2, <2>3 DEF OwnedInv, LocksOwned, LocksOnly, InSession
<1>6. ASSUME NEW c \in Connections, NEW p \in ArgPasswords, PassWithoutMaildrop(c, p) PROVE OwnedInv'
  \* Impossible: the account has a directory, and opening it succeeds.
  <2>1. GetUser(user[c]) # 0 /\ ~DropExists(user[c])
    BY <1>6 DEF PassWithoutMaildrop, Login, LoginResult
  <2>2. user[c] \in NamesOf(users)
    BY <1>u, <2>1, GetUserIsIndex, AccountFound DEF UMInv, UMTypeOK
  <2>. QED BY <1>s, <2>1, <2>2 DEF SoundList, Housed, DropExists
<1>7. ASSUME NEW c \in Connections, NEW p \in ArgPasswords, PassUnlogged(c, p) PROVE OwnedInv'
  BY <1>7, CloseOwned DEF PassUnlogged
<1>8. ASSUME NEW c \in Connections, (\E m \in Mails : Dele(c, m)) \/ Rset(c) PROVE OwnedInv'
  BY <1>8, <1>m, OwnedFrame DEF Dele, Rset, InSession
<1>9. ASSUME NEW c \in Connections, QuitTransaction(c) PROVE OwnedInv'
  <2>1. PICK kept : RemoveFiles(manager[c].path, manager[c].marked \ kept)
    BY <1>9 DEF QuitTransaction
  <2>2. UNCHANGED users /\ \A d \in Connections : InSession(d) => InSession(d)' /\ user'[d] = user[d]
    BY <1>9, <1>t DEF QuitTransaction, InSession
  <2>3. ASSUME NEW n \in Names, drops[n] # NoDrop PROVE drops'[n] # NoDrop
    <3>1. drops[n] \in SUBSET Mails /\ drops'[n] \subseteq drops[n]
      BY <1>t, <2>1, <2>3 DEF RemoveFiles, DropExists
    <3>. QED BY <3>1, DropAssumption
  <2>4. SoundList'
    BY <1>s, <1>u, <2>2, <2>3, NamesAreNames DEF SoundList, Housed, UMInv, UMTypeOK
  <2>. QED BY <1>l, <2>2, <2>4, OwnedFrame
<1>10. ASSUME NEW n \in Names, NEW p \in Passwords, HandleAdduser(n, p) PROVE OwnedInv'
  <2>1. PICK r : CreateUser(n, p, maxUsers, r)
    BY <1>10 DEF HandleAdduser
  <2>2. SoundList' /\ LocksOnly({})
    BY <1>u, <1>s, <2>1, CreateSound, CallsLockNobody
  <2>. QED BY <1>10, <2>2, OwnedFrame DEF HandleAdduser, clientVars, InSession
<1>11. ASSUME NEW n \in Names, NEW p \in Passwords, HandleUpdatepass(n, p) PROVE OwnedInv'
  <2>1. PICK r : ChangePassword(n, p, r)
    BY <1>11 DEF HandleUpdatepass
  <2>2. SoundList' /\ LocksOnly({})
    BY <1>u, <1>s, <2>1, PasswordSound, CallsLockNobody
  <2>. QED BY <1>11, <2>2, OwnedFrame DEF HandleUpdatepass, clientVars, InSession
<1>12. ASSUME NEW n \in Names, HandleDeluser(n) PROVE OwnedInv'
  <2>1. PICK r : DeleteUser(n, r)
    BY <1>12 DEF HandleDeluser
  <2>2. SoundList' /\ LocksOnly({})
    BY <1>u, <1>s, <2>1, DeleteSound, CallsLockNobody
  <2>. QED BY <1>12, <2>2, OwnedFrame DEF HandleDeluser, clientVars, InSession
<1>13. ASSUME NEW old \in Names, NEW new \in Names, HandleUpdatename(old, new) PROVE OwnedInv'
  BY <1>13 DEF HandleUpdatename, NeverRenamed
<1>14. ASSUME NEW k \in Limits, HandleMaxusers(k) \/ HandleMaxconns(k) PROVE OwnedInv'
  BY <1>14, <1>m, OwnedFrame DEF HandleMaxusers, HandleMaxconns, clientVars, InSession
<1>15. ASSUME NEW n \in Names, NEW m \in Mails, Deliver(n, m) PROVE OwnedInv'
  <2>1. UNCHANGED users /\ UNCHANGED clientVars /\ drops[n] \in SUBSET Mails
    BY <1>15, <1>t DEF Deliver, DropExists
  <2>2. drops[n] \cup {m} # NoDrop
    BY <2>1, DropAssumption
  <2>3. SoundList'
    BY <1>15, <1>s, <1>t, <2>1, <2>2 DEF Deliver, SoundList, Housed
  <2>. QED BY <1>l, <2>1, <2>3, OwnedFrame DEF clientVars, InSession
<1>16. CASE UNCHANGED vars
  BY <1>16, <1>m, OwnedFrame DEF vars, clientVars, InSession
<1>. QED
  BY <1>1, <1>2, <1>3, <1>4, <1>5, <1>6, <1>7, <1>8, <1>9, <1>10, <1>11, <1>12, <1>13, <1>14,
     <1>15, <1>16
     DEF Next, Session, Administrator

\* Where every account starts with its directory, opening one never fails
\* and nobody is renamed, a lock always has its session: no path leaks it.
THEOREM LocksAreOwned ==
    SoundStart /\ ~OpenFaults /\ NeverRenamed => (Spec => []LockMeansSession)
<1>. SUFFICES ASSUME SoundStart, ~OpenFaults, NeverRenamed PROVE Spec => []LockMeansSession
  OBVIOUS
<1>1. TypeInv /\ OwnedInv => LockMeansSession
  <2>. SUFFICES ASSUME TypeInv, OwnedInv, NEW i \in DOMAIN users, users[i].locked
                PROVE  \E c \in Connections : InSession(c) /\ user[c] = users[i].username
    BY DEF LockMeansSession
  <2>1. users \in Seq(User) /\ i \in 1..Len(users)
    BY DEF TypeInv, TypeOK, UMTypeOK
  <2>2. Locked(users, users[i].username)
    BY <2>1, AccountIs DEF OwnedInv, SoundList, Locked
  <2>. QED BY <2>2 DEF OwnedInv, LocksOwned
<1>2. Init => OwnedInv
  BY OwnedInvInit
<1>3. TypeInv /\ LockInv /\ OwnedInv /\ [Next]_vars => OwnedInv'
  BY OwnedInvNext
<1>4. Spec => [](TypeInv /\ LockInv)
  BY LockInvHolds
<1>. QED BY <1>1, <1>2, <1>3, <1>4, PTL DEF Spec

----------------------------------------------------------------------------
\* What one step may take off the disk.
LEMMA RenameMoves ==
    ASSUME UMInv, NEW old \in Names, NEW new \in Names, NEW r, ChangeUsername(old, new, r)
    PROVE  \/ drops' = drops
           \/ /\ drops[old] # NoDrop /\ (new # old => drops[new] \in {NoDrop, {}})
              /\ drops' = [drops EXCEPT ![old] = NoDrop, ![new] = drops[old]]
<1>1. CASE r = "OK"
  <2>1. ChangeUsernameResult(old, new) = "OK"
    BY <1>1 DEF ChangeUsername, Faulty, ChangeUsernameResult
  <2>. QED BY <1>1, <2>1 DEF ChangeUsername, ChangeUsernameResult, DropExists
<1>2. CASE r # "OK"
  BY <1>2 DEF ChangeUsername
<1>. QED BY <1>1, <1>2

\* A directory goes only together with its account, where the disk does not fail.
LEMMA DeletionShrinks ==
    ASSUME UMInv, ~DiskFaults, NEW n \in Names, NEW r, DeleteUser(n, r)
    PROVE  drops' = drops \/ Len(users') < Len(users)
<1>1. CASE r = "OK"
  <2>1. UMInv' /\ userCount' = userCount - 1
    BY <1>1, DeleteUserKeeps DEF DeleteUser
  <2>. QED BY <2>1 DEF UMInv, UMTypeOK
<1>2. CASE r # "OK"
  BY <1>2, DeleteUserPartly
<1>. QED BY <1>1, <1>2

\* A mail leaves the disk in two ways only: its account is deleted, or a session that marked it quits.
LEMMA StepKeepsMails ==
    ASSUME ~DiskFaults, TypeInv, [Next]_vars, NEW x \in Mails, OnDisk(x), ~OnDisk(x)'
    PROVE  \/ Len(users') < Len(users)
           \/ \E c \in Connections :
                 phase[c] = "TRANSACTION" /\ phase'[c] = "UPDATE" /\ x \in manager[c].marked
<1>. DEFINE Goal == \/ Len(users') < Len(users)
                    \/ \E c \in Connections :
                          phase[c] = "TRANSACTION" /\ phase'[c] = "UPDATE" /\ x \in manager[c].marked
<1>u. UMInv
  BY DEF TypeInv, TypeOK, UMInv
<1>t. /\ drops \in [Names -> {NoDrop} \cup SUBSET Mails]
      /\ phase \in [Connections -> Phases]
  BY DEF TypeInv, TypeOK, UMTypeOK
<1>p. PICK n \in Names : drops[n] # NoDrop /\ x \in drops[n]
  BY DEF OnDisk, DropExists
<1>q. \A m \in Names : drops'[m] # NoDrop => x \notin drops'[m]
  BY DEF OnDisk, DropExists
<1>s. ASSUME drops' = drops PROVE FALSE
  BY <1>p, <1>q, <1>s
<1>c. ASSUME NEW c \in Connections, Close(c) PROVE FALSE
  BY <1>u, <1>s, <1>c, LogoutKeeps DEF Close, umVars
<1>1. ASSUME NEW c \in Connections, Accept(c) \/ GreetingSent(c) PROVE FALSE
  BY <1>s, <1>1 DEF Accept, GreetingSent, umVars
<1>2. ASSUME NEW c \in Connections, Disconnect(c) \/ QuitAuthorization(c) \/ UpdateSent(c)
      PROVE  FALSE
  BY <1>c, <1>2 DEF Disconnect, QuitAuthorization, UpdateSent
<1>3. ASSUME NEW c \in Connections, NEW m \in ArgNames, UserCommand(c, m) PROVE FALSE
  BY <1>s, <1>3 DEF UserCommand, umVars
<1>4. ASSUME NEW c \in Connections, NEW p \in ArgPasswords,
             PassRefused(c, p) \/ PassAccepted(c, p) \/ PassWithoutMaildrop(c, p)
      PROVE  FALSE
  BY <1>u, <1>s, <1>4, LoginKeeps DEF PassRefused, PassAccepted, PassWithoutMaildrop
<1>5. ASSUME NEW c \in Connections, NEW p \in ArgPasswords, PassUnlogged(c, p) PROVE FALSE
  BY <1>c, <1>5 DEF PassUnlogged
<1>6. ASSUME NEW c \in Connections, (\E m \in Mails : Dele(c, m)) \/ Rset(c) PROVE FALSE
  BY <1>s, <1>6 DEF Dele, Rset, umVars
<1>7. ASSUME NEW c \in Connections, QuitTransaction(c) PROVE Goal
  <2>1. PICK kept : RemoveFiles(manager[c].path, manager[c].marked \ kept)
    BY <1>7 DEF QuitTransaction
  <2>2. phase[c] = "TRANSACTION" /\ phase'[c] = "UPDATE"
    BY <1>7, <1>t DEF QuitTransaction
  <2>3. drops'[n] = drops[n] \/ drops'[n] = drops[n] \ (manager[c].marked \ kept)
    BY <1>p, <1>t, <2>1 DEF RemoveFiles
  <2>4. drops[n] \in SUBSET Mails
    BY <1>p, <1>t
  <2>5. drops'[n] # NoDrop
    BY <1>p, <2>3, <2>4, DropAssumption
  <2>6. x \in manager[c].marked
    BY <1>p, <1>q, <2>3, <2>5
  <2>. QED BY <2>2, <2>6
<1>8. ASSUME NEW m \in Names, NEW p \in Passwords, HandleAdduser(m, p) PROVE FALSE
  <2>1. drops'[n] = drops[n]
    BY <1>u, <1>p, <1>8, CreateUserKeeps DEF HandleAdduser, DropExists
  <2>. QED BY <1>p, <1>q, <2>1
<1>9. ASSUME NEW m \in Names, NEW p \in Passwords, HandleUpdatepass(m, p) PROVE FALSE
  BY <1>u, <1>s, <1>9, ChangePasswordKeeps DEF HandleUpdatepass
<1>10. ASSUME NEW m \in Names, HandleDeluser(m) PROVE Goal
  BY <1>u, <1>s, <1>10, DeletionShrinks DEF HandleDeluser
<1>11. ASSUME NEW old \in Names, NEW new \in Names, HandleUpdatename(old, new) PROVE FALSE
  <2>1. PICK r : ChangeUsername(old, new, r)
    BY <1>11 DEF HandleUpdatename
  <2>2. /\ drops[old] # NoDrop /\ (new # old => drops[new] \in {NoDrop, {}})
        /\ drops' = [drops EXCEPT ![old] = NoDrop, ![new] = drops[old]]
    BY <1>u, <1>s, <2>1, RenameMoves
  <2>3. drops'[new] = drops[old] /\ \A m \in Names : m # old /\ m # new => drops'[m] = drops[m]
    BY <1>t, <2>2
  <2>. QED BY <1>p, <1>q, <2>2, <2>3
<1>12. ASSUME NEW k \in Limits, HandleMaxusers(k) \/ HandleMaxconns(k) PROVE FALSE
  BY <1>s, <1>12 DEF HandleMaxusers, HandleMaxconns, umVars
<1>13. ASSUME NEW m \in Names, NEW y \in Mails, Deliver(m, y) PROVE FALSE
  <2>1. drops[n] \in SUBSET Mails
    BY <1>p, <1>t
  <2>2. drops'[n] \in SUBSET Mails /\ drops[n] \subseteq drops'[n]
    BY <1>13, <1>p, <1>t, <2>1 DEF Deliver
  <2>3. drops'[n] # NoDrop
    BY <2>2, DropAssumption
  <2>. QED BY <1>p, <1>q, <2>2, <2>3
<1>14. CASE UNCHANGED vars
  BY <1>s, <1>14 DEF vars, umVars
<1>. QED
  BY <1>1, <1>2, <1>3, <1>4, <1>5, <1>6, <1>7, <1>8, <1>9, <1>10, <1>11, <1>12, <1>13, <1>14
     DEF Next, Session, Administrator

\* As long as the disk does not fail, a mail is lost for good only to the
\* QUIT of a session that marked it or with its account, renames included.
THEOREM MailsSurvive == ~DiskFaults => (Spec => MailSurvives)
<1>. SUFFICES ASSUME ~DiskFaults PROVE Spec => [][KeepsMails]_vars
  BY DEF MailSurvives
<1>1. TypeInv /\ [Next]_vars => KeepsMails
  BY StepKeepsMails DEF KeepsMails
<1>. QED BY <1>1, TypeInvInit, TypeInvNext, PTL DEF Spec
=============================================================================
