---------------------------- MODULE MCPop3Client ---------------------------
\* A few pipelined commands through buffers of three bytes.
EXTENDS Pop3Client, Buffer, TLC

MCCommands == {"PASS", "LIST", "RETR", "QUIT"}

Mail(n) == [i \in 1..n |-> "b"]

\* Shorter and longer than the output buffer, and multiples of it.
MCFiles == {Mail(0), Mail(1), Mail(3), Mail(4)}

\* The hypothesis of the theorems about replies.
ASSUME MCPlainFiles == PlainFiles

\* The theorems of Buffer_proofs on every buffer of at most three bytes.
SmallBuffers ==
    {b \in UNION {[data : [0..(n - 1) -> {"x", "y"}], read : 0..n, write : 0..n, limit : {n}] : n \in 0..3} :
        b.read <= b.write}

ASSUME BufferIsQueue ==
    \A b \in SmallBuffers :
        /\ \A n \in 0..Unread(b) : Queue(buffer_read_adv(b, n)) = ReadOff(Queue(b), n, b.limit)
        /\ \A s \in BoundedSeq({"x", "y"}, b.limit - b.write) :
              Queue(Received(b, s)) = Written(Queue(b), s)
        /\ buffer_can_write(b) => Queue(buffer_write(b, "x")) = Written(Queue(b), <<"x">>)
        /\ buffer_can_read(b) => ByteRead(b, "none") = Head(Queue(b).bytes)
============================================================================
