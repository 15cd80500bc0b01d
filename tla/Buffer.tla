------------------------------- MODULE Buffer ------------------------------
(***************************************************************************)
(* server/src/buffer.c with its pointers: b.data is the memory, b.read,    *)
(* b.write and b.limit are offsets into it.  Queue(b) is the ByteQueue a   *)
(* buffer stands for; Buffer_proofs shows that every operation here is the *)
(* one of ByteQueue there, which the other modules use.                    *)
(***************************************************************************)
EXTENDS ByteQueue, Integers

\* What the assertions of buffer.c demand.
BufferOK(b, Byte) ==
    /\ b = [data |-> b.data, read |-> b.read, write |-> b.write, limit |-> b.limit]
    /\ b.limit \in Nat /\ b.write \in 0..b.limit /\ b.read \in 0..b.write
    /\ b.data \in [0..(b.limit - 1) -> Byte]

buffer_init(n, data) == [data |-> data, read |-> 0, write |-> 0, limit |-> n]

buffer_can_write(b) == b.limit - b.write > 0
buffer_can_read(b) == b.write - b.read > 0

\* A negative count, the result of a failed recv() or send(), moves nothing.
buffer_write_adv(b, n) == IF n > -1 THEN [b EXCEPT !.write = @ + n] ELSE b

\* What is not yet read moves to the front.
buffer_compact(b) ==
    LET n == b.write - b.read
        moved == [i \in DOMAIN b.data |-> IF i < n THEN b.data[b.read + i] ELSE b.data[i]]
    IN  CASE b.read = 0 -> b
          [] b.read # 0 /\ n = 0 -> [b EXCEPT !.read = 0, !.write = 0]
          [] b.read # 0 /\ n # 0 -> [b EXCEPT !.data = moved, !.read = 0, !.write = n]

buffer_read_adv(b, n) ==
    LET advanced == [b EXCEPT !.read = @ + n]
    IN  CASE n < 0 -> b
          [] n >= 0 /\ advanced.read = b.write -> buffer_compact(advanced)
          [] n >= 0 /\ advanced.read # b.write -> advanced

\* The next byte, 0 when there is none, and the buffer behind it.
buffer_read(b) == IF buffer_can_read(b) THEN buffer_read_adv(b, 1) ELSE b
ByteRead(b, zero) == IF buffer_can_read(b) THEN b.data[b.read] ELSE zero

buffer_write(b, c) ==
    IF buffer_can_write(b) THEN buffer_write_adv([b EXCEPT !.data[b.write] = c], 1) ELSE b

\* read_handler of states-common.c: recv() puts s where buffer_write_ptr
\* points.
Received(b, s) ==
    LET filled == [i \in DOMAIN b.data |->
                      IF i - b.write + 1 \in DOMAIN s THEN s[i - b.write + 1] ELSE b.data[i]]
    IN  buffer_write_adv([b EXCEPT !.data = filled], Len(s))

----------------------------------------------------------------------------
Unread(b) == b.write - b.read
Queue(b) ==
    [bytes |-> [i \in 1..Unread(b) |-> b.data[b.read + i - 1]], room |-> b.limit - b.write]
============================================================================
