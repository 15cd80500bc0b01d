--------------------------- MODULE MessageManager --------------------------
(***************************************************************************)
(* The message manager of one session (server/src/message-manager.c) as a  *)
(* value and the operators that read and change it.  It is a photograph of *)
(* the maildrop directory taken when the session enters TRANSACTION: the   *)
(* file names in the order readdir gave them, their sizes, the deletion    *)
(* marks, and two counters kept up to date by hand.                        *)
(*                                                                         *)
(* Sizes are C ints of IntWidth values: sums are taken modulo IntWidth and *)
(* read as two's complement.                                               *)
(***************************************************************************)
EXTENDS Integers, Sequences, SequencesExt, FiniteSetsExt

CONSTANTS
    Mails,       \* the regular files of a maildrop
    FileSize,    \* st_size of each
    IntWidth     \* number of values of an int (2^32 in the program)

ASSUME MailsAssumption == IsFiniteSet(Mails)
ASSUME SizeAssumption == FileSize \in [Mails -> Nat]
ASSUME WidthAssumption == IntWidth \in Nat /\ IntWidth > 1

MessageNumbers(mm) == DOMAIN mm.files

\* Conversion to int.
ToInt(x) == LET r == x % IntWidth IN IF 2 * r >= IntWidth THEN r - IntWidth ELSE r

SizeOf(mm, i) == ToInt(FileSize[mm.files[i]])
SumOfSizes(mm, S) == MapThenSumSet(LAMBDA i : SizeOf(mm, i), S)
Marked(mm) == {i \in MessageNumbers(mm) : mm.marked[i]}
Unmarked(mm) == MessageNumbers(mm) \ Marked(mm)
FilesAt(mm, S) == {mm.files[i] : i \in S}

\* What message_manager_create returns when its first pass over the
\* directory has counted "size" files and its second has listed "files",
\* as many: how the passes get there is the matter of MaildropSession.
NewManager(size, files) ==
    [files  |-> files,
     marked |-> [i \in DOMAIN files |-> FALSE],
     count  |-> size,
     total  |-> ToInt(FoldLeft(LAMBDA sum, f : sum + FileSize[f], 0, files))]

----------------------------------------------------------------------------
\* message_manager_get_maildrop_info (STAT)
MaildropInfo(mm) == <<mm.count, mm.total>>

\* message_manager_get_message_data_list, as LIST prints it: the marked
\* messages are skipped.
Listing(mm) == [i \in Unmarked(mm) |-> SizeOf(mm, i)]

\* message_manager_get_message_data refuses numbers out of range only.
MessageDataResult(mm, i) == IF i \in MessageNumbers(mm) THEN "OK" ELSE "EINVAL"

\* message_manager_get_message_content and _delete_message make the same
\* two tests.
MessageResult(mm, i) ==
    IF i \notin MessageNumbers(mm) THEN "EINVAL"
    ELSE IF mm.marked[i] THEN "ENOENT"
    ELSE "OK"

\* Faulty variant: the counters are not touched.
DeleteMessageUncounted(mm, i) == [mm EXCEPT !.marked[i] = TRUE]

\* message_manager_delete_message when MessageResult is "OK".
DeleteMessage(mm, i) ==
    [mm EXCEPT !.marked[i] = TRUE,
               !.count = @ - 1,
               !.total = ToInt(@ - SizeOf(mm, i))]

\* Faulty variant: every message is counted back in.
ResetAll(mm) ==
    [mm EXCEPT !.marked = [i \in MessageNumbers(mm) |-> FALSE],
               !.count = @ + Len(mm.files),
               !.total = ToInt(@ + SumOfSizes(mm, MessageNumbers(mm)))]

\* message_manager_reset_deleted_flag: what was marked is added back.
ResetDeletedFlag(mm) ==
    [mm EXCEPT !.marked = [i \in MessageNumbers(mm) |-> FALSE],
               !.count = @ + Cardinality(Marked(mm)),
               !.total = ToInt(@ + SumOfSizes(mm, Marked(mm)))]

\* Faulty variant: the whole photograph is removed.
RemovedAll(mm, dir, failing) == (FilesAt(mm, MessageNumbers(mm)) \cap dir) \ failing

\* message_manager_delete_marked_messages: each marked file is removed
\* unless remove(3) fails on it; the others go all the same.
Removed(mm, dir, failing) == (FilesAt(mm, Marked(mm)) \cap dir) \ failing

\* Faulty variant: a removal that fails is passed over.
DeleteMarkedUnchecked(mm, dir, failing) == "OK"

DeleteMarkedResult(mm, dir, failing) ==
    IF Removed(mm, dir, failing) = FilesAt(mm, Marked(mm)) THEN "OK" ELSE "EIO"
=============================================================================
