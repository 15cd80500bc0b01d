--------------------------- MODULE MCUserManager ---------------------------
\* The user manager's calls on three usernames, one of them malformed.
EXTENDS UserManagerAPI, TLC

CONSTANTS u1, u2, badName, p1, badPass, null, m1

MCNames == {u1, u2, badName}
MCPasswords == {p1, badPass, null}
MCValidNames == {u1, u2}
MCValidPasswords == {p1}
MCMails == {m1}
MCMaxUsers == {1, 2}

Unlocked(n) == [username |-> n, password |-> p1, locked |-> FALSE]

\* An empty users file, and one account with mail beside an orphan maildrop.
MCInitUsers == {<<>>, <<Unlocked(u1)>>}
MCInitDrops == {[n \in MCNames |-> IF n = u1 THEN {m1} ELSE NoDrop],
                [n \in MCNames |-> IF n = badName THEN NoDrop ELSE {m1}]}

\* The hypotheses of the theorems of UserManagerAPI_proofs.
ASSUME MCStart == SoundStart /\ ~RenameTaken
============================================================================
