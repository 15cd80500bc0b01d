---------------------------- MODULE Buffer_proofs --------------------------
(***************************************************************************)
(* The buffer implements ByteQueue: under Queue, the refinement mapping,   *)
(* each operation on pointers is the operation on the queue, for buffers   *)
(* of any size holding anything; and the assertions of buffer.c hold.      *)
(***************************************************************************)
EXTENDS Buffer, TLAPS

\* What a queue has to read: a sequence of bytes of the buffer's length.
LEMMA QueueFacts ==
    ASSUME NEW Byte, NEW b, BufferOK(b, Byte)
    PROVE  /\ Unread(b) \in Nat
           /\ Queue(b).bytes \in Seq(Byte)
           /\ Len(Queue(b).bytes) = Unread(b)
<1>1. Unread(b) \in Nat
  BY DEF BufferOK, Unread
<1>2. \A i \in 1..Unread(b) : b.data[b.read + i - 1] \in Byte
  BY DEF BufferOK, Unread
<1>. QED BY <1>1, <1>2 DEF Queue

\* The i-th byte of the queue lies i - 1 places behind the read pointer.
LEMMA QueueByte ==
    ASSUME NEW b, NEW i \in 1..Unread(b)
    PROVE  Queue(b).bytes[i] = b.data[b.read + i - 1]
BY DEF Queue

\* buffer_can_read and buffer_can_write look at the pointers only.
THEOREM TestsAgree ==
    ASSUME NEW Byte, NEW b, BufferOK(b, Byte)
    PROVE  /\ buffer_can_read(b) <=> CanRead(Queue(b))
           /\ buffer_can_write(b) <=> CanWrite(Queue(b))
<1>1. Unread(b) > 0 <=> Queue(b).bytes # <<>>
  BY QueueFacts
<1>. QED BY <1>1 DEF BufferOK, buffer_can_read, buffer_can_write, CanRead, CanWrite, Unread, Queue

\* buffer_init gives an empty queue with room for all its memory.
THEOREM InitIsEmpty ==
    ASSUME NEW Byte, NEW n \in Nat, NEW data \in [0..(n - 1) -> Byte]
    PROVE  /\ BufferOK(buffer_init(n, data), Byte)
           /\ Queue(buffer_init(n, data)) = EmptyBuffer(n)
BY DEF BufferOK, buffer_init, Queue, Unread, EmptyBuffer

\* Compacting loses, adds and moves nothing, and gives back the room of
\* what was read.
LEMMA CompactKeepsBytes ==
    ASSUME NEW Byte, NEW b, BufferOK(b, Byte)
    PROVE  /\ BufferOK(buffer_compact(b), Byte)
           /\ Queue(buffer_compact(b)).bytes = Queue(b).bytes
           /\ Queue(buffer_compact(b)).room = Queue(b).room + b.read
           /\ buffer_compact(b).limit = b.limit
<1>. DEFINE c == buffer_compact(b)
<1>1. CASE b.read = 0
  BY <1>1 DEF buffer_compact, BufferOK, Queue
<1>2. CASE b.read # 0 /\ b.write - b.read = 0
  <2>1. c = [b EXCEPT !.read = 0, !.write = 0]
    BY <1>2 DEF buffer_compact, BufferOK
  <2>2. c = [data |-> b.data, read |-> 0, write |-> 0, limit |-> b.limit]
    BY <2>1 DEF BufferOK
  <2>3. BufferOK(c, Byte)
    BY <2>2 DEF BufferOK
  <2>4. Unread(c) = 0 /\ Unread(b) = 0
    BY <1>2, <2>2 DEF Unread
  <2>5. Queue(c).bytes = Queue(b).bytes
    BY <2>4 DEF Queue
  <2>6. Queue(c).room = Queue(b).room + b.read
    BY <1>2, <2>2 DEF Queue, BufferOK
  <2>. QED BY <2>2, <2>3, <2>5, <2>6
<1>3. CASE b.read # 0 /\ b.write - b.read # 0
  <2>. DEFINE n == b.write - b.read
              moved == [i \in DOMAIN b.data |-> IF i < n THEN b.data[b.read + i] ELSE b.data[i]]
  <2>1. c = [b EXCEPT !.data = moved, !.read = 0, !.write = n]
    BY <1>3 DEF buffer_compact, BufferOK
  <2>2. c = [data |-> moved, read |-> 0, write |-> n, limit |-> b.limit]
    BY <2>1 DEF BufferOK
  <2>3. moved \in [0..(b.limit - 1) -> Byte]
    BY DEF BufferOK
  <2>4. BufferOK(c, Byte)
    BY <2>2, <2>3 DEF BufferOK
  <2>5. \A i \in 1..n : moved[i - 1] = b.data[b.read + i - 1]
    BY DEF BufferOK
  <2>6. Queue(c).bytes = Queue(b).bytes
    BY <2>2, <2>5 DEF Queue, Unread, BufferOK
  <2>7. Queue(c).room = Queue(b).room + b.read
    BY <2>2 DEF Queue, BufferOK
  <2>. QED BY <2>2, <2>4, <2>6, <2>7
<1>. QED BY <1>1, <1>2, <1>3

\* buffer_read_adv takes n bytes off the front; the room comes back when
\* nothing is left, and only then.
THEOREM ReadAdvIsReadOff ==
    ASSUME NEW Byte, NEW b, BufferOK(b, Byte), NEW n \in 0..Unread(b)
    PROVE  /\ BufferOK(buffer_read_adv(b, n), Byte)
           /\ Queue(buffer_read_adv(b, n)) = ReadOff(Queue(b), n, b.limit)
<1>. DEFINE a == [b EXCEPT !.read = @ + n]
<1>1. /\ a = [data |-> b.data, read |-> b.read + n, write |-> b.write, limit |-> b.limit]
      /\ BufferOK(a, Byte) /\ n \in Nat
  BY DEF BufferOK, Unread
<1>2. Len(Queue(b).bytes) = Unread(b)
  BY QueueFacts
<1>3. CASE a.read = b.write
  <2>1. buffer_read_adv(b, n) = buffer_compact(a) /\ n = Unread(b)
    BY <1>1, <1>3 DEF buffer_read_adv, BufferOK, Unread
  <2>2. Queue(a).bytes = <<>> /\ Queue(a).room + a.read = b.limit
    <3>1. Unread(a) = 0 /\ Queue(a).room + a.read = b.limit
      BY <1>1, <1>3 DEF Queue, Unread, BufferOK
    <3>2. Queue(a).bytes = [i \in 1..0 |-> a.data[a.read + i - 1]]
      BY <3>1 DEF Queue
    <3>. QED BY <3>1, <3>2
  <2>3. Queue(buffer_compact(a)) = EmptyBuffer(b.limit)
    <3>1. /\ Queue(buffer_compact(a)).bytes = <<>>
          /\ Queue(buffer_compact(a)).room = b.limit
      BY <1>1, <2>2, CompactKeepsBytes
    <3>. QED BY <3>1 DEF Queue, EmptyBuffer
  <2>. QED BY <1>1, <1>2, <2>1, <2>3, CompactKeepsBytes DEF ReadOff
<1>4. CASE a.read # b.write
  <2>1. buffer_read_adv(b, n) = a /\ n < Unread(b)
    BY <1>1, <1>4 DEF buffer_read_adv, BufferOK, Unread
  <2>2. Queue(a).bytes = SubSeq(Queue(b).bytes, n + 1, Len(Queue(b).bytes))
    <3>. DEFINE old == Queue(b).bytes
                rest == SubSeq(old, n + 1, Len(old))
    <3>1. old \in Seq(Byte) /\ Len(old) = Unread(b) /\ Unread(b) \in Nat
      BY QueueFacts
    <3>2. /\ rest = [i \in 1..(Unread(b) - n) |-> old[n + i]]
      BY <2>1, <1>1, <3>1
    <3>3. \A i \in 1..(Unread(b) - n) : old[n + i] = b.data[b.read + n + i - 1]
      <4>. SUFFICES ASSUME NEW i \in 1..(Unread(b) - n) PROVE old[n + i] = b.data[b.read + n + i - 1]
        OBVIOUS
      <4>1. n + i \in 1..Unread(b) /\ b.read + (n + i) - 1 = b.read + n + i - 1
        BY <1>1, <3>1, SMTT(30) DEF BufferOK
      <4>. QED BY <4>1, QueueByte
    <3>4. Unread(a) = Unread(b) - n
      BY <1>1 DEF Unread, BufferOK
    <3>5. Queue(a).bytes = [i \in 1..Unread(a) |-> b.data[b.read + n + i - 1]]
      BY <1>1 DEF Queue
    <3>. QED BY <3>2, <3>3, <3>4, <3>5
  <2>3. Queue(a) = [Queue(b) EXCEPT !.bytes = SubSeq(@, n + 1, Len(@))]
    <3>1. Queue(a).room = Queue(b).room
      BY <1>1 DEF Queue
    <3>2. \A q : Queue(q) = [bytes |-> Queue(q).bytes, room |-> Queue(q).room]
      BY DEF Queue
    <3>. QED BY <2>2, <3>1, <3>2
  <2>. QED BY <1>1, <1>2, <2>1, <2>3 DEF ReadOff
<1>. QED BY <1>3, <1>4

\* read_handler: what recv() returned goes behind what was there.
THEOREM ReceivedIsWritten ==
    ASSUME NEW Byte, NEW b, BufferOK(b, Byte),
           NEW s \in Seq(Byte), Len(s) <= b.limit - b.write
    PROVE  /\ BufferOK(Received(b, s), Byte)
           /\ Queue(Received(b, s)) = Written(Queue(b), s)
<1>. DEFINE filled == [i \in DOMAIN b.data |->
                          IF i - b.write + 1 \in DOMAIN s THEN s[i - b.write + 1] ELSE b.data[i]]
            r == Received(b, s)
<1>1. Len(s) \in Nat /\ DOMAIN s = 1..Len(s) /\ \A i \in 1..Len(s) : s[i] \in Byte
  OBVIOUS
<1>2. r = [data |-> filled, read |-> b.read, write |-> b.write + Len(s), limit |-> b.limit]
  <2>1. b = [data |-> b.data, read |-> b.read, write |-> b.write, limit |-> b.limit]
    BY DEF BufferOK
  <2>2. r = buffer_write_adv([b EXCEPT !.data = filled], Len(s))
    BY DEF Received
  <2>3. [b EXCEPT !.data = filled] =
           [data |-> filled, read |-> b.read, write |-> b.write, limit |-> b.limit]
    <3>. HIDE DEF filled
    <3>. QED BY <2>1
  <2>4. Len(s) > -1
    BY <1>1
  <2>. HIDE DEF filled
  <2>. QED BY <2>2, <2>3, <2>4 DEF buffer_write_adv
<1>3. filled \in [0..(b.limit - 1) -> Byte]
  BY <1>1 DEF BufferOK
<1>4. BufferOK(r, Byte)
  BY <1>1, <1>2, <1>3 DEF BufferOK
<1>5. /\ \A i \in 0..(b.write - 1) : filled[i] = b.data[i]
      /\ \A i \in 1..Len(s) : filled[b.write + i - 1] = s[i]
  <2>1. b.write \in Nat /\ b.limit \in Nat /\ DOMAIN b.data = 0..(b.limit - 1) /\ b.write <= b.limit
    BY DEF BufferOK
  <2>2. ASSUME NEW i \in 0..(b.write - 1) PROVE filled[i] = b.data[i]
    <3>1. i \in DOMAIN b.data /\ i - b.write + 1 \notin 1..Len(s)
      BY <2>1
    <3>. QED BY <1>1, <3>1
  <2>3. ASSUME NEW i \in 1..Len(s) PROVE filled[b.write + i - 1] = s[i]
    <3>1. b.write + i - 1 \in DOMAIN b.data /\ (b.write + i - 1) - b.write + 1 = i
      BY <1>1, <2>1
    <3>. QED BY <1>1, <3>1
  <2>. QED BY <2>2, <2>3
<1>6. Unread(r) = Unread(b) + Len(s)
  BY <1>1, <1>2 DEF Unread, BufferOK
<1>7. Queue(r).bytes = Queue(b).bytes \o s
  <2>1. /\ Unread(b) \in Nat /\ Queue(b).bytes \in Seq(Byte) /\ Len(Queue(b).bytes) = Unread(b)
        /\ \A i \in 1..Unread(b) : Queue(b).bytes[i] = b.data[b.read + i - 1]
    BY QueueFacts, QueueByte
  <2>2. Queue(r).bytes = [i \in 1..(Unread(b) + Len(s)) |-> filled[b.read + i - 1]]
    BY <1>2, <1>6 DEF Queue
  <2>3. Queue(b).bytes \o s = [i \in 1..(Unread(b) + Len(s)) |->
                                  IF i <= Unread(b) THEN Queue(b).bytes[i] ELSE s[i - Unread(b)]]
    <3>. DEFINE q == Queue(b).bytes
    <3>1. q \in Seq(Byte) /\ Len(q) = Unread(b)
      BY <2>1
    <3>. HIDE DEF q
    <3>2. q \o s = [i \in 1..(Len(q) + Len(s)) |-> IF i <= Len(q) THEN q[i] ELSE s[i - Len(q)]]
      <4>1. q \o s \in Seq(Byte) /\ Len(q \o s) = Len(q) + Len(s)
        BY <3>1
      <4>2. \A i \in 1..(Len(q) + Len(s)) : (q \o s)[i] = IF i <= Len(q) THEN q[i] ELSE s[i - Len(q)]
        BY <3>1
      <4>3. q \o s = [i \in 1..(Len(q) + Len(s)) |-> (q \o s)[i]]
        <5>. DEFINE t == q \o s
        <5>1. t \in Seq(Byte) /\ Len(t) = Len(q) + Len(s)
          BY <4>1
        <5>. HIDE DEF t
        <5>2. t = [i \in 1..Len(t) |-> t[i]]
          BY <5>1
        <5>. QED BY <5>1, <5>2 DEF t
      <4>. QED BY <4>2, <4>3
    <3>. QED BY <3>1, <3>2 DEF q
  <2>4. \A i \in 1..(Unread(b) + Len(s)) :
           filled[b.read + i - 1] = IF i <= Unread(b) THEN Queue(b).bytes[i] ELSE s[i - Unread(b)]
    <3>. SUFFICES ASSUME NEW i \in 1..(Unread(b) + Len(s))
                  PROVE filled[b.read + i - 1] = IF i <= Unread(b) THEN Queue(b).bytes[i] ELSE s[i - Unread(b)]
      OBVIOUS
    <3>0. b.read \in Nat /\ b.write \in Nat /\ Unread(b) = b.write - b.read
      BY DEF BufferOK, Unread
    <3>1. CASE i <= Unread(b)
      <4>1. b.read + i - 1 \in 0..(b.write - 1) /\ i \in 1..Unread(b)
        BY <3>0, <3>1, <2>1
      <4>. HIDE DEF filled
      <4>. QED BY <1>5, <2>1, <3>1, <4>1
    <3>2. CASE ~(i <= Unread(b))
      <4>. DEFINE u == Unread(b)
                  n == Len(s)
                  rd == b.read
                  wr == b.write
      <4>0. u \in Nat /\ n \in Nat /\ rd \in Nat /\ wr \in Nat /\ u = wr - rd /\ i \in 1..(u + n) /\ ~(i <= u)
        BY <1>1, <2>1, <3>0, <3>2
      <4>1. i - Unread(b) \in 1..Len(s) /\ b.read + i - 1 = b.write + (i - Unread(b)) - 1
        <5>. HIDE DEF u, n, rd, wr
        <5>1. i - u \in 1..n /\ rd + i - 1 = wr + (i - u) - 1
          BY <4>0
        <5>. QED BY <5>1 DEF u, n, rd, wr
      <4>. HIDE DEF filled
      <4>. QED BY <1>5, <3>2, <4>1
    <3>. QED BY <3>1, <3>2
  <2>5. [i \in 1..(Unread(b) + Len(s)) |-> filled[b.read + i - 1]] =
        [i \in 1..(Unread(b) + Len(s)) |-> IF i <= Unread(b) THEN Queue(b).bytes[i] ELSE s[i - Unread(b)]]
    <3>. HIDE DEF filled
    <3>. QED BY <2>4
  <2>. QED BY <2>2, <2>3, <2>5
<1>8. Queue(r) = Written(Queue(b), s)
  <2>1. Queue(r).room = Queue(b).room - Len(s)
    BY <1>1, <1>2 DEF Queue, BufferOK
  <2>. QED BY <1>7, <2>1 DEF Queue, Written
<1>. QED BY <1>4, <1>8

\* buffer_write of one byte, when there is room; otherwise nothing happens.
THEOREM WriteIsWritten ==
    ASSUME NEW Byte, NEW b, BufferOK(b, Byte), NEW c \in Byte
    PROVE  /\ BufferOK(buffer_write(b, c), Byte)
           /\ Queue(buffer_write(b, c)) =
                 IF CanWrite(Queue(b)) THEN Written(Queue(b), <<c>>) ELSE Queue(b)
<1>1. CASE ~buffer_can_write(b)
  BY <1>1, TestsAgree DEF buffer_write
<1>2. CASE buffer_can_write(b)
  <2>1. <<c>> \in Seq(Byte) /\ Len(<<c>>) = 1 /\ DOMAIN <<c>> = {1} /\ <<c>>[1] = c
    OBVIOUS
  <2>2. Len(<<c>>) <= b.limit - b.write
    BY <1>2, <2>1 DEF buffer_can_write, BufferOK
  <2>3. [b.data EXCEPT ![b.write] = c] =
           [i \in DOMAIN b.data |-> IF i - b.write + 1 \in DOMAIN <<c>> THEN <<c>>[i - b.write + 1] ELSE b.data[i]]
    <3>1. b.write \in Nat /\ DOMAIN b.data = 0..(b.limit - 1)
      BY DEF BufferOK
    <3>2. \A i \in DOMAIN b.data : i - b.write + 1 \in DOMAIN <<c>> <=> i = b.write
      BY <2>1, <3>1
    <3>3. <<c>>[b.write - b.write + 1] = c
      BY <2>1, <3>1
    <3>. QED BY <3>2, <3>3
  <2>4. buffer_write(b, c) = Received(b, <<c>>)
    BY <1>2, <2>1, <2>3 DEF buffer_write, Received, buffer_write_adv, BufferOK
  <2>. QED BY <1>2, <2>1, <2>2, <2>4, TestsAgree, ReceivedIsWritten
<1>. QED BY <1>1, <1>2

\* buffer_read gives the first byte and takes it off.
THEOREM ReadIsReadOff ==
    ASSUME NEW Byte, NEW b, BufferOK(b, Byte), NEW zero
    PROVE  /\ BufferOK(buffer_read(b), Byte)
           /\ CanRead(Queue(b)) =>
                 /\ ByteRead(b, zero) = Head(Queue(b).bytes)
                 /\ Queue(buffer_read(b)) = ReadOff(Queue(b), 1, b.limit)
<1>1. CASE ~buffer_can_read(b)
  BY <1>1, TestsAgree DEF buffer_read
<1>2. CASE buffer_can_read(b)
  <2>1. 1 \in 0..Unread(b) /\ 1 \in 1..Unread(b) /\ b.read + 1 - 1 = b.read
    BY <1>2 DEF buffer_can_read, Unread, BufferOK
  <2>2. Head(Queue(b).bytes) = b.data[b.read]
    BY <2>1, QueueFacts, QueueByte
  <2>. QED BY <1>2, <2>1, <2>2, ReadAdvIsReadOff DEF buffer_read, ByteRead
<1>. QED BY <1>1, <1>2
============================================================================
