------------------------------ MODULE Maildrop -----------------------------
(***************************************************************************)
(* A maildrop as a POP3 client sees it (docs/RFC_1939.txt, sections 5 and  *)
(* 6, and server/include/message-manager.h): during a session the numbered *)
(* messages are fixed, DELE only marks, RSET unmarks, STAT always answers  *)
(* for the messages not marked, and mail leaves the disk at QUIT alone.    *)
(***************************************************************************)
EXTENDS Naturals, Sequences, FiniteSets, FiniteSetsExt

CONSTANTS Mails, FileSize

VARIABLES
    disk,       \* the files of the directory
    messages,   \* the session's numbered messages; <<>> outside a session
    marked,     \* message numbers marked as deleted
    stat,       \* <<number, octets>>, the drop listing of STAT
    open,       \* a session holds the maildrop
    opening,    \* its messages are being looked up
    steady,     \* the files there ever since that began
    seen        \* the files there at some time since

openingVars == <<opening, steady, seen>>
mdVars == <<disk, messages, marked, stat, open, openingVars>>

Octets(ms, S) == MapThenSumSet(LAMBDA i : FileSize[ms[i]], S)
StatOf(ms, mk) == LET S == DOMAIN ms \ mk IN <<Cardinality(S), Octets(ms, S)>>

Init ==
    /\ disk \in SUBSET Mails
    /\ messages = <<>> /\ marked = {} /\ stat = <<0, 0>> /\ open = FALSE
    /\ opening = FALSE /\ steady = {} /\ seen = {}

Mark(S) == marked' = S /\ stat' = StatOf(messages, S)
Empty == messages' = <<>> /\ marked' = {} /\ stat' = <<0, 0>>

BeginOpen ==
    /\ ~open /\ ~opening
    /\ opening' = TRUE /\ steady' = disk /\ seen' = disk
    /\ UNCHANGED <<disk, messages, marked, stat, open>>

NotOpening == opening' = FALSE /\ steady' = {} /\ seen' = {}

\* The session's messages: every mail that was there all the while, none
\* that never was, each under one number.
Open ==
    /\ opening /\ NotOpening /\ open' = TRUE
    /\ \E S \in SUBSET seen : \E ms \in [1..Cardinality(S) -> S] :
          /\ steady \subseteq S
          /\ {ms[i] : i \in DOMAIN ms} = S
          /\ messages' = ms
          /\ stat' = StatOf(ms, {})
    /\ marked' = {} /\ UNCHANGED disk

GiveUp == opening /\ NotOpening /\ UNCHANGED <<disk, messages, marked, stat, open>>

Dele(i) == open /\ i \in DOMAIN messages \ marked /\ Mark(marked \cup {i}) /\ UNCHANGED <<disk, messages, open, openingVars>>
Rset == open /\ Mark({}) /\ UNCHANGED <<disk, messages, open, openingVars>>

\* QUIT removes marked messages only; an error may leave some of them.
Quit ==
    /\ open /\ open' = FALSE
    /\ \E gone \in SUBSET {messages[i] : i \in marked} : disk' = disk \ gone
    /\ Empty /\ UNCHANGED openingVars

\* Any other end of the session removes nothing.
Drop == open /\ open' = FALSE /\ Empty /\ UNCHANGED <<disk, openingVars>>

\* Mail arrives, or another agent files it away.
Environment(m) ==
    /\ disk' \in {disk \cup {m}, disk \ {m}}
    /\ IF opening THEN steady' = steady \cap disk' /\ seen' = seen \cup disk'
                  ELSE UNCHANGED <<steady, seen>>
    /\ UNCHANGED <<messages, marked, stat, open, opening>>

Next ==
    \/ BeginOpen \/ Open \/ GiveUp \/ Rset \/ Quit \/ Drop
    \/ \E i \in DOMAIN messages : Dele(i)
    \/ \E m \in Mails : Environment(m)

Spec == Init /\ [][Next]_mdVars
=============================================================================
