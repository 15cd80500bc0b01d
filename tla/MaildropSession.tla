-------------------------- MODULE MaildropSession --------------------------
(***************************************************************************)
(* One session's calls on its message manager, in the order the TRANSACTION*)
(* and UPDATE states make them (server/src/states/authorization.c:73,      *)
(* transaction.c, update.c:12, pop3.c:146), while files come and go in the *)
(* directory beneath.                                                      *)
(*                                                                         *)
(* message_manager_create goes over the directory twice: the first pass    *)
(* counts the files, the arrays get that size, the second pass fills them  *)
(* with a stat per file and no look at the size.  Each pass is a run of    *)
(* readdir, which gives every file that is there all the time and may or   *)
(* may not give one that comes or goes meanwhile.  Where the passes        *)
(* disagree the code writes past the arrays, or leaves or frees places it  *)
(* has not filled: undefined, and the end of what the model says ("wild"). *)
(***************************************************************************)
EXTENDS MessageManager

CONSTANTS
    NoManager,      \* client->message_manager == NULL
    RemoveFaults,   \* whether remove(3) may fail on a file that is there
    AllocFaults     \* whether malloc may fail in message_manager_create

Manager == [files : UNION {SetToSeqs(S) : S \in SUBSET Mails},
            marked : UNION {[1..n -> BOOLEAN] : n \in 0..Cardinality(Mails)},
            count : 0..Cardinality(Mails),
            total : Int]

ASSUME NoManagerAssumption == NoManager \notin Manager

VARIABLES
    disk,     \* the regular files of the maildrop directory
    mm,       \* the message manager
    errno,    \* what the last call returned
    pass,     \* where message_manager_create is: "none", "counting", "listing"
    steady,   \* the files there ever since the pass began
    seen,     \* the files there at some time since the pass began
    size,     \* message_array_size, as the first pass counted it
    listed,   \* the names the second pass has put in message_filename_array
    disturbed \* history: since PASS the directory changed, or malloc failed

passVars == <<pass, steady, seen, size, listed, disturbed>>
sessionVars == <<disk, mm, errno, passVars>>

Open == mm # NoManager
Idle == pass = "none" /\ ~Open

Init ==
    /\ disk \in SUBSET Mails /\ mm = NoManager /\ errno = "OK"
    /\ pass = "none" /\ steady = {} /\ seen = {} /\ size = 0 /\ listed = <<>>
    /\ disturbed = FALSE

\* opendir and rewinddir: a pass sees the directory from now on.
BeginPass == steady' = disk /\ seen' = disk

\* The end of message_manager_create; "to" is "none", or "wild".
EndCreate(to) ==
    /\ pass' = to
    /\ steady' = {} /\ seen' = {} /\ size' = 0 /\ listed' = <<>>

----------------------------------------------------------------------------
(* message_manager_create *)

\* Up to opendir; running out of memory is the one refusal of a maildrop
\* that is there.
OpenMaildrop ==
    /\ Idle
    /\ pass' = "counting" /\ BeginPass /\ disturbed' = FALSE
    /\ UNCHANGED <<disk, mm, errno, size, listed>>

Refused == AllocFaults /\ Idle /\ errno' = "ENOMEM" /\ UNCHANGED <<disk, mm, passVars>>

\* What a pass may have returned once readdir returns NULL.
PassOver(S) == steady \subseteq S /\ S \subseteq seen

\* Faulty variant: the last file is not counted.
RewindShort ==
    /\ pass = "counting"
    /\ \E S \in SUBSET seen : PassOver(S) /\ size' = IF S = {} THEN 0 ELSE Cardinality(S) - 1
    /\ pass' = "listing" /\ BeginPass
    /\ UNCHANGED <<disk, mm, errno, listed, disturbed>>

\* The files are counted, the arrays allocated, and the directory rewound.
Rewind ==
    /\ pass = "counting"
    /\ \E S \in SUBSET seen : PassOver(S) /\ size' = Cardinality(S)
    /\ pass' = "listing" /\ BeginPass
    /\ UNCHANGED <<disk, mm, errno, listed, disturbed>>

\* No memory for the arrays.
NoArrays ==
    /\ AllocFaults /\ pass = "counting"
    /\ EndCreate("none") /\ errno' = "ENOMEM"
    /\ UNCHANGED <<disk, mm, disturbed>>

Entries == {listed[i] : i \in DOMAIN listed}

\* readdir gives f, there is a place for it, and stat finds it.
ListFile(f) ==
    /\ pass = "listing" /\ f \in (seen \ Entries) \cap disk
    /\ Len(listed) < size
    /\ listed' = Append(listed, f)
    /\ UNCHANGED <<disk, mm, errno, pass, steady, seen, size, disturbed>>

\* message_manager_free frees every place of the array, filled or not: the
\* place of the entry that failed is, those behind it are not.
FreeHalfFilled ==
    EndCreate(IF Len(listed) + 1 = size THEN "none" ELSE "wild")

\* stat does not find f any more: NULL, with the errno of stat.
StatFails(f) ==
    /\ pass = "listing" /\ f \in (seen \ Entries) \ disk
    /\ Len(listed) < size
    /\ FreeHalfFilled /\ errno' = "ENOENT"
    /\ UNCHANGED <<disk, mm, disturbed>>

\* No memory for the name of f.
NoName(f) ==
    /\ AllocFaults /\ pass = "listing" /\ f \in seen \ Entries
    /\ Len(listed) < size
    /\ FreeHalfFilled /\ errno' = "ENOMEM"
    /\ disturbed' = TRUE
    /\ UNCHANGED <<disk, mm>>

\* readdir gives more files than were counted.
Overrun(f) ==
    /\ pass = "listing" /\ f \in seen \ Entries
    /\ Len(listed) = size
    /\ EndCreate("wild")
    /\ UNCHANGED <<disk, mm, errno, disturbed>>

\* readdir returns NULL with every place filled.
Created ==
    /\ pass = "listing" /\ PassOver(Entries) /\ Len(listed) = size
    /\ mm' = NewManager(size, listed)
    /\ EndCreate("none") /\ errno' = "OK"
    /\ UNCHANGED <<disk, disturbed>>

\* readdir returns NULL with places left, which the session will read.
Unfilled ==
    /\ pass = "listing" /\ PassOver(Entries) /\ Len(listed) < size
    /\ EndCreate("wild")
    /\ UNCHANGED <<disk, mm, errno, disturbed>>

Create ==
    \/ OpenMaildrop \/ Refused \/ Rewind \/ NoArrays \/ Created \/ Unfilled
    \/ \E f \in Mails : ListFile(f) \/ StatFails(f) \/ NoName(f) \/ Overrun(f)

----------------------------------------------------------------------------
(* The session *)

\* Numbers a client may send: 0 is refused by the handler before the call.
Asked == 1..(Cardinality(Mails) + 1)

Dele(i) ==
    /\ Open
    /\ errno' = MessageResult(mm, i)
    /\ mm' = IF errno' = "OK" THEN DeleteMessage(mm, i) ELSE mm
    /\ UNCHANGED <<disk, passVars>>

Rset == Open /\ mm' = ResetDeletedFlag(mm) /\ errno' = "OK" /\ UNCHANGED <<disk, passVars>>

\* QUIT: update_on_arrival, then the connection is closed.
Quit ==
    /\ Open
    /\ \E failing \in IF RemoveFaults THEN SUBSET FilesAt(mm, Marked(mm)) ELSE {{}} :
          /\ disk' = disk \ Removed(mm, disk, failing)
          /\ errno' = DeleteMarkedResult(mm, disk, failing)
    /\ mm' = NoManager
    /\ UNCHANGED passVars

\* The connection ends in any other way: message_manager_free alone.
Drop == Open /\ mm' = NoManager /\ UNCHANGED <<disk, errno, passVars>>

\* External: delivery into the directory, or removal by another program,
\* between any two steps.
Environment(m) ==
    /\ disk' \in {disk \cup {m}, disk \ {m}}
    /\ IF pass \in {"counting", "listing"}
       THEN /\ steady' = steady \cap disk' /\ seen' = seen \cup disk'
            /\ disturbed' = (disturbed \/ disk' # disk)
       ELSE UNCHANGED <<steady, seen, disturbed>>
    /\ UNCHANGED <<mm, errno, pass, size, listed>>

Next ==
    \/ Create \/ Rset \/ Quit \/ Drop
    \/ \E i \in Asked : Dele(i)
    \/ \E m \in Mails : Environment(m)

Spec == Init /\ [][Next]_sessionVars

----------------------------------------------------------------------------
TypeOK ==
    /\ disk \subseteq Mails
    /\ Open => mm \in Manager
    /\ errno \in {"OK", "EINVAL", "ENOENT", "ENOMEM", "EIO"}
    /\ pass \in {"none", "counting", "listing", "wild"}
    /\ steady \subseteq seen /\ seen \subseteq Mails
    /\ size \in 0..Cardinality(Mails)
    /\ listed \in UNION {SetToSeqs(S) : S \in SUBSET Mails}
    /\ disturbed \in BOOLEAN

\* The sizes of all files together are an int.
SizesFit == 2 * MapThenSumSet(LAMBDA f : FileSize[f], Mails) < IntWidth

\* The two passes of message_manager_create agree, and it neither leaves
\* its arrays nor frees what it has not filled, unless a file came or went
\* between opendir and closedir or memory ran out half way.
WildOnlyIfDisturbed == pass = "wild" => disturbed

\* STAT and LIST tell the same story, whatever came and went while the
\* photograph was taken: the counters that DELE and RSET keep by hand are
\* those of the lines LIST would print.
StatAgreesWithList ==
    Open => LET lines == Listing(mm)
            IN MaildropInfo(mm) =
                 <<Cardinality(DOMAIN lines), ToInt(MapThenSumSet(LAMBDA i : lines[i], DOMAIN lines))>>

\* QUIT answers +OK if and only if it has itself removed every marked
\* message from the disk, and removes no other: a marked message that
\* another program removed before makes it -ERR (message-manager.c:334).
QuitOkMeansGone ==
    [][Quit => LET asked == FilesAt(mm, Marked(mm))
                   gone == disk \ disk'
               IN gone \subseteq asked /\ (errno' = "OK" <=> gone = asked)]_sessionVars

\* The session is a maildrop session of RFC 1939, up to where the code is
\* undefined: a login that goes wild is one that never opens.
RFC1939 == INSTANCE Maildrop WITH
    messages <- IF Open THEN mm.files ELSE <<>>,
    marked <- IF Open THEN Marked(mm) ELSE {},
    stat <- IF Open THEN MaildropInfo(mm) ELSE <<0, 0>>,
    open <- Open,
    opening <- pass = "listing",
    steady <- IF pass = "listing" THEN steady ELSE {},
    seen <- IF pass = "listing" THEN seen ELSE {}

ImplementsMaildrop == RFC1939!Spec
=============================================================================
