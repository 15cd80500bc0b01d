---------------------------- MODULE MCUserStore ----------------------------
\* Two ordinary names and one of 32 characters; a password with a colon.
EXTENDS UserStore, TLC

CONSTANTS u1, u2, long, p1, colon, rest, m1

MCNames == {u1, u2, long}
MCPasswords == {p1, colon}
MCValidPasswords == {p1}
MCMails == {m1}
MCUnfit == {long}
MCDelimited == {colon}
MCBeforeColon == colon :> p1
MCAfterColon == colon :> rest
MCLimits == {1, 2, 3}

FileOf(ns) == [i \in DOMAIN ns |-> [username |-> ns[i], password |-> p1]]
MCInitFiles == {NoFile, FileOf(<<u1>>), FileOf(<<u1, u2>>)}

\* The hypotheses of the theorem about maildrops.
ASSUME MCSoundFiles == SoundFiles /\ ~RenameTaken
============================================================================
