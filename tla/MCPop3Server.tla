---------------------------- MODULE MCPop3Server ---------------------------
\* Two or three connections, two accounts, one administrator.
EXTENDS Pop3Server, TLC

CONSTANTS u1, u2, u3, p1, m1, m2, c1, c2, c3

Two == {u1, u2}
Three == {u1, u2, u3}
MCPasswords == {p1}
OneMail == {m1}
TwoMails == {m1, m2}
TwoConnections == {c1, c2}
ThreeConnections == {c1, c2, c3}
MCLimits == {1, 2}

Account(n) == [username |-> n, password |-> p1, locked |-> FALSE]
NoAccounts == {<<>>}
FirstAccount == {<<Account(u1)>>}
BothAccounts == {<<Account(u1), Account(u2)>>}

DropFor(S) == {[n \in Names |-> IF n \in S THEN {m1} ELSE NoDrop]}
FirstDrop == DropFor({u1})
BothDrops == DropFor({u1, u2})

NoRename == {"ADDUSER", "DELUSER", "UPDATEPASS"}
AllCommands == NoRename \cup {"UPDATENAME"}
============================================================================
