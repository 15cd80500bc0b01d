----------------------------- MODULE ByteQueue -----------------------------
(***************************************************************************)
(* What a buffer of server/src/buffer.c is to the code that uses it: the   *)
(* bytes written and not yet read, in order, and the room left behind      *)
(* them.  Room comes back only when the buffer runs empty (buffer_read_adv *)
(* compacts then, and nothing else in the server does).                    *)
(***************************************************************************)
EXTENDS Naturals, Sequences

EmptyBuffer(size) == [bytes |-> <<>>, room |-> size]

CanRead(b) == b.bytes # <<>>
CanWrite(b) == b.room > 0

\* buffer_write of each element of s, when there is room for all of it.
Written(b, s) == [bytes |-> b.bytes \o s, room |-> b.room - Len(s)]

\* buffer_read_adv by n.
ReadOff(b, n, size) ==
    IF n = Len(b.bytes) THEN EmptyBuffer(size)
    ELSE [b EXCEPT !.bytes = SubSeq(@, n + 1, Len(@))]
=============================================================================
